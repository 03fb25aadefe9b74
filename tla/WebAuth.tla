------------------------------- MODULE WebAuth -------------------------------
(***************************************************************************)
(* Signing in on the web: cmd/tasklist_web.go, web/auth.go, db/web.go.  An *)
(* admin asks an account's bot for a link; the event goroutine of that     *)
(* account checks the cooldown, stores a token and sends the link.  Each   *)
(* web request runs on a goroutine of its own: it spends the token, makes  *)
(* a session and sets a cookie, or it finds a session by its cookie.       *)
(* Accounts share the process and webLastSent; each has its own database   *)
(* and mount.  The process may restart at any time, with other accounts.   *)
(***************************************************************************)
EXTENDS Naturals, Sequences, FiniteSets

CONSTANTS
    Accounts, Admins,
    Browsers, Requests,
    NoSession,
    Root,         \* the mount "/"
    LinkTTL,      \* webTokenTTL
    Cooldown,     \* webRequestCooldown
    SessionTTL,   \* sessionTTL
    MaxTime,      \* bound: the clock
    MaxLinks,     \* bound: tokens ever stored
    MaxRestarts   \* bound: restarts of the process

ASSUME WebAuthAssumption ==
    /\ LinkTTL \in Nat /\ SessionTTL \in Nat /\ Cooldown \in Nat \ {0}
    /\ MaxTime \in Nat /\ MaxLinks \in Nat /\ MaxRestarts \in Nat

Links == 1 .. MaxLinks

\* A session id is random: the link it was made from, and the how manieth of it.
SessionIds == Links \X (Nat \ {0})

ASSUME NoSessionAssumption == NoSession \notin SessionIds

Mounts == Accounts \cup {Root}

VARIABLES
    now,
    served,     \* the accounts of this run of the process
    tokens,     \* web_tokens of all accounts, in the order of their insertion
    sessions,   \* web_sessions of all accounts
    delivered,  \* WhatsApp: the links that have reached their admin
    lastSent,   \* webLastSent: the keys in the map and their times
    chat,       \* local variables of the event goroutine of each account
    jar,        \* the cookie each browser keeps by its name, which goes with the mount
    request,    \* local variables of the web requests
    restarts,
    signIns,    \* history: how many sessions were made from each link
    signedOut   \* history: sessions whose logout was carried out

tables  == <<tokens, sessions>>
history == <<signIns, signedOut>>
vars    == <<now, served, tokens, sessions, delivered, lastSent, chat, jar, request, restarts,
             signIns, signedOut>>

Idle == [pc |-> "idle"]

Token == [account : Accounts, jid : Admins, mount : Mounts, expires : Nat, used : BOOLEAN]

SessionRow == [account : Accounts, jid : Admins, expires : Nat]

RateKeys == Accounts \X Admins

ChatLocals ==
    {Idle} \cup [pc : {"store"}, jid : Admins] \cup [pc : {"send"}, link : Links]

RequestLocals ==
    {Idle}
        \cup [pc : {"session"}, browser : Browsers, account : Accounts, jid : Admins, link : Links]
        \cup [pc : {"cookie", "clear"}, browser : Browsers, account : Accounts,
              session : SessionIds]
        \cup [pc : {"page"}, browser : Browsers, account : Accounts, jid : Admins,
              session : SessionIds]

TypeOK ==
    /\ now \in Nat
    /\ served \in (SUBSET Accounts) \ {{}}
    /\ tokens \in Seq(Token)
    /\ Len(tokens) <= MaxLinks
    /\ DOMAIN sessions \subseteq SessionIds
    /\ \A s \in DOMAIN sessions : sessions[s] \in SessionRow
    /\ delivered \subseteq 1 .. Len(tokens)
    /\ DOMAIN lastSent \subseteq RateKeys
    /\ \A k \in DOMAIN lastSent : lastSent[k] \in 0 .. now
    /\ chat \in [Accounts -> ChatLocals]
    /\ jar \in [Browsers -> [Mounts -> SessionIds \cup {NoSession}]]
    /\ request \in [Requests -> RequestLocals]
    /\ restarts \in Nat
    /\ signIns \in [Links -> Nat]
    /\ signedOut \subseteq SessionIds

Init ==
    /\ now = 0
    /\ served \in (SUBSET Accounts) \ {{}}
    /\ tokens = <<>>
    /\ sessions = [s \in {} |-> 0]
    /\ delivered = {}
    /\ lastSent = [k \in {} |-> 0]
    /\ chat = [a \in Accounts |-> Idle]
    /\ jar = [b \in Browsers |-> [m \in Mounts |-> NoSession]]
    /\ request = [r \in Requests |-> Idle]
    /\ restarts = 0
    /\ signIns = [l \in Links |-> 0]
    /\ signedOut = {}

Advance ==
    /\ now < MaxTime
    /\ now' = now + 1
    /\ UNCHANGED <<served, tables, delivered, lastSent, chat, jar, request, restarts, history>>

-----------------------------------------------------------------------------
\* One account alone sits at the root.
MountOf(a) == IF served = {a} THEN Root ELSE a

\* tasklist-web.
\* The link base tells accounts apart.
rateKey(a, jid) == <<a, jid>>

CooldownOver(a, jid) ==
    rateKey(a, jid) \in DOMAIN lastSent => now - lastSent[rateKey(a, jid)] >= Cooldown

\* Mutant: the map is not written.
AskLinkUnrecorded(a, jid) ==
    /\ a \in served /\ chat[a] = Idle
    /\ CooldownOver(a, jid)
    /\ chat' = [chat EXCEPT ![a] = [pc |-> "store", jid |-> jid]]
    /\ UNCHANGED <<now, served, tables, delivered, lastSent, jar, request, restarts, history>>

\* Checked and recorded under webRateMu; a request too early is refused.
AskLink(a, jid) ==
    /\ a \in served /\ chat[a] = Idle
    /\ CooldownOver(a, jid)
    /\ lastSent' = [k \in DOMAIN lastSent \cup {rateKey(a, jid)} |->
                       IF k = rateKey(a, jid) THEN now ELSE lastSent[k]]
    /\ chat' = [chat EXCEPT ![a] = [pc |-> "store", jid |-> jid]]
    /\ UNCHANGED <<now, served, tables, delivered, jar, request, restarts, history>>

Stored(a) ==
    tokens' = Append(tokens, [account |-> a, jid |-> chat[a].jid, mount |-> MountOf(a),
                              expires |-> now + LinkTTL, used |-> FALSE])

Sending(a) == chat' = [chat EXCEPT ![a] = [pc |-> "send", link |-> Len(tokens) + 1]]

\* Mutant: the error is not looked at.
CreateWebTokenUnchecked(a) ==
    /\ chat[a].pc = "store"
    /\ Len(tokens) < MaxLinks
    /\ Stored(a) \/ tokens' = tokens
    /\ Sending(a)
    /\ UNCHANGED <<now, served, sessions, delivered, lastSent, jar, request, restarts, history>>

\* A failure ends the command, with the cooldown running.
CreateWebToken(a) ==
    /\ chat[a].pc = "store"
    /\ \/ Len(tokens) < MaxLinks /\ Stored(a) /\ Sending(a)
       \/ tokens' = tokens /\ chat' = [chat EXCEPT ![a] = Idle]
    /\ UNCHANGED <<now, served, sessions, delivered, lastSent, jar, request, restarts, history>>

\* A message that is lost is one that nobody opens.
SendLink(a) ==
    /\ chat[a].pc = "send"
    /\ delivered' = delivered \cup {chat[a].link}
    /\ chat' = [chat EXCEPT ![a] = Idle]
    /\ UNCHANGED <<now, served, tables, lastSent, jar, request, restarts, history>>

-----------------------------------------------------------------------------
Goto(r, local) == request' = [request EXCEPT ![r] = local]

\* ConsumeWebToken finds the token unspent and in time.
Good(l) == ~tokens[l].used /\ now <= tokens[l].expires

\* The link leads to its account: it may be mounted elsewhere since a restart.
LeadsHome(l) == tokens[l].account \in served /\ tokens[l].mount = MountOf(tokens[l].account)

Spent(r, b, l) ==
    Goto(r, [pc |-> "session", browser |-> b, account |-> tokens[l].account,
             jid |-> tokens[l].jid, link |-> l])

\* Mutant: the transaction is not committed.
ConsumeWebTokenRolledBack(r, b, l) ==
    /\ request[r] = Idle
    /\ l \in delivered /\ LeadsHome(l) /\ Good(l)
    /\ Spent(r, b, l)
    /\ UNCHANGED <<now, served, tables, delivered, lastSent, chat, jar, restarts, history>>

\* GET /auth/{token}, by the browser of whoever holds the link: one transaction.
ConsumeWebToken(r, b, l) ==
    /\ request[r] = Idle
    /\ l \in delivered /\ LeadsHome(l) /\ Good(l)
    /\ tokens' = [tokens EXCEPT ![l].used = TRUE]
    /\ Spent(r, b, l)
    /\ UNCHANGED <<now, served, sessions, delivered, lastSent, chat, jar, restarts, history>>

\* The session, or an error that leaves the link spent for nothing.
CreateWebSession(r) ==
    /\ request[r].pc = "session"
    /\ LET l == request[r].link
           s == <<l, signIns[l] + 1>>
       IN  \/ /\ sessions' = [i \in DOMAIN sessions \cup {s} |->
                                IF i = s
                                THEN [account |-> request[r].account, jid |-> request[r].jid,
                                      expires |-> now + SessionTTL]
                                ELSE sessions[i]]
              /\ signIns' = [signIns EXCEPT ![l] = @ + 1]
              /\ Goto(r, [pc |-> "cookie", browser |-> request[r].browser,
                          account |-> request[r].account, session |-> s])
           \/ UNCHANGED <<sessions, signIns>> /\ Goto(r, Idle)
    /\ UNCHANGED <<now, served, tokens, delivered, lastSent, chat, jar, restarts, signedOut>>

\* The answer reaches the browser, or is lost: a cookie set, or cleared.
Answer(r) ==
    /\ request[r].pc \in {"cookie", "clear"}
    /\ LET b == request[r].browser
           a == request[r].account
           cookie == IF request[r].pc = "cookie" THEN request[r].session ELSE NoSession
       IN  jar' \in {jar, [jar EXCEPT ![b][MountOf(a)] = cookie]}
    /\ Goto(r, Idle)
    /\ UNCHANGED <<now, served, tables, delivered, lastSent, chat, restarts, history>>

-----------------------------------------------------------------------------
\* Mutant: sessions of all accounts are looked up in one table.
GetWebSessionOfAny(a, s) == s \in DOMAIN sessions /\ now <= sessions[s].expires

\* GetWebSession, in the database of the account.
GetWebSession(a, s) ==
    s \in DOMAIN sessions /\ sessions[s].account = a /\ now <= sessions[s].expires

\* requireSession.  The cookie of the root mount may be that of another account,
\* which sat there before a restart.
RequireSession(r, b, a) ==
    /\ request[r] = Idle
    /\ a \in served
    /\ LET s == jar[b][MountOf(a)]
       IN  /\ s # NoSession
           /\ Goto(r, IF GetWebSession(a, s)
                      THEN [pc |-> "page", browser |-> b, account |-> a,
                            jid |-> sessions[s].jid, session |-> s]
                      ELSE [pc |-> "clear", browser |-> b, account |-> a, session |-> s])
    /\ UNCHANGED <<now, served, tables, delivered, lastSent, chat, jar, restarts, history>>

\* The handler of the page does its work.
Serve(r) ==
    /\ request[r].pc = "page"
    /\ Goto(r, Idle)
    /\ UNCHANGED <<now, served, tables, delivered, lastSent, chat, jar, restarts, history>>

Leave(r) ==
    /\ request[r].pc = "page"
    /\ Goto(r, [pc |-> "clear", browser |-> request[r].browser, account |-> request[r].account,
                session |-> request[r].session])

SessionGone(r) ==
    /\ sessions' = [s \in DOMAIN sessions \ {request[r].session} |-> sessions[s]]
    /\ signedOut' = signedOut \cup {request[r].session}

\* Mutant: only the cookie is cleared.
LogoutCookieOnly(r) ==
    /\ Leave(r)
    /\ signedOut' = signedOut \cup {request[r].session}
    /\ UNCHANGED <<now, served, tables, delivered, lastSent, chat, jar, restarts, signIns>>

\* handleLogout, its CSRF token checked.  That DeleteWebSession fails is not
\* looked at: the session then outlives the cookie.
Logout(r) ==
    /\ Leave(r)
    /\ SessionGone(r) \/ UNCHANGED <<sessions, signedOut>>
    /\ UNCHANGED <<now, served, tokens, delivered, lastSent, chat, jar, restarts, signIns>>

\* A crash or an orderly restart, perhaps with another BOT_ACCOUNTS: maps and
\* goroutines are gone.
Restart ==
    /\ restarts < MaxRestarts /\ restarts' = restarts + 1
    /\ served' \in (SUBSET Accounts) \ {{}}
    /\ lastSent' = [k \in {} |-> 0]
    /\ chat' = [a \in Accounts |-> Idle]
    /\ request' = [r \in Requests |-> Idle]
    /\ UNCHANGED <<now, tables, delivered, jar, history>>

-----------------------------------------------------------------------------
ChatStep(a) == (\E jid \in Admins : AskLink(a, jid)) \/ CreateWebToken(a) \/ SendLink(a)

RequestStep(r) ==
    \/ \E b \in Browsers, l \in Links : ConsumeWebToken(r, b, l)
    \/ CreateWebSession(r)
    \/ Answer(r)
    \/ \E b \in Browsers, a \in Accounts : RequireSession(r, b, a)
    \/ Serve(r)
    \/ Logout(r)

Next ==
    \/ Advance
    \/ \E a \in Accounts : ChatStep(a)
    \/ \E r \in Requests : RequestStep(r)
    \/ Restart

Spec == Init /\ [][Next]_vars

-----------------------------------------------------------------------------
\* How far a link has come, as SingleUseLink sees it.  A link of which two
\* sessions were made is at no stage of it.
Stage(l) ==
    CASE l > Len(tokens)                    -> "unissued"
      [] l <= Len(tokens) /\ signIns[l] = 0 -> IF tokens[l].used THEN "spent" ELSE "live"
      [] l <= Len(tokens) /\ signIns[l] = 1 ->
            IF <<l, 1>> \in DOMAIN sessions THEN "open" ELSE "closed"
      [] OTHER                              -> "twice"

Deadline(l) == IF l <= Len(tokens) THEN tokens[l].expires ELSE 0

Link(l) == INSTANCE SingleUseLink WITH stage <- Stage(l), deadline <- Deadline(l)

\* "Valid for 15 minutes, single use": with two requests for one link at once,
\* sessions that fail to be made, logouts and restarts, the sign-in implements
\* SingleUseLink for every link.  (The conjunction of Link(l)!Spec over all l, in
\* the form TLC evaluates.)
SingleUse ==
    /\ \A l \in Links : Link(l)!Init
    /\ [][\A l \in Links : UNCHANGED <<now, Stage(l), Deadline(l)>> \/ Link(l)!Next]_vars

\* A page acts for an admin only if that admin asked this account's bot for the
\* link that the browser's session comes from.
IdentityProven ==
    \A r \in Requests :
        request[r].pc = "page" =>
            LET l == request[r].session[1]
            IN  /\ l \in delivered
                /\ tokens[l].account = request[r].account
                /\ tokens[l].jid = request[r].jid

\* Signing out is for good: no request that starts afterwards is let in by that
\* session, also when the answer that clears the cookie is lost.
SignedOutStaysOut ==
    [][\A r \in Requests :
          request[r] = Idle /\ request'[r].pc = "page" =>
              request'[r].session \notin signedOut]_vars

LiveLinks(a, jid) ==
    {l \in 1 .. Len(tokens) : tokens[l].account = a /\ tokens[l].jid = jid /\ Good(l)}

\* The cooldown bounds how many links of one admin are good at once, per run of
\* the process: those stored within one lifetime, both ends included, and one
\* that was stored late.
LiveLinksBounded ==
    \A a \in Accounts, jid \in Admins :
        Cardinality(LiveLinks(a, jid)) <= (restarts + 1) * (LinkTTL \div Cooldown + 2)
=============================================================================
