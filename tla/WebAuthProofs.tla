---------------------------- MODULE WebAuthProofs ----------------------------
(***************************************************************************)
(* Signing in keeps its promises for any number of accounts, admins,       *)
(* browsers, requests and restarts, and any lifetimes.                     *)
(***************************************************************************)
EXTENDS WebAuth, SequenceTheorems, FiniteSetTheorems, TLAPS

\* The token that a session comes from, and whom it stands for
ComesFrom(l, account, jid) ==
    l \in delivered /\ tokens[l].account = account /\ tokens[l].jid = jid

\* SendLink sends a link that is stored.
SendsStored == \A a \in Accounts : chat[a].pc = "send" => chat[a].link \in 1 .. Len(tokens)

\* Between ConsumeWebToken and CreateWebSession a request holds a spent link that
\* nothing was made from, and no other request holds that link.
SpenderAlone ==
    \A r \in Requests :
        request[r].pc = "session" =>
            /\ ComesFrom(request[r].link, request[r].account, request[r].jid)
            /\ tokens[request[r].link].used
            /\ signIns[request[r].link] = 0
            /\ \A q \in Requests :
                  request[q].pc = "session" /\ request[q].link = request[r].link => q = r

\* One session at most was made from a link, and only after it was spent.
MadeOnce ==
    \A l \in Links : signIns[l] \in {0, 1} /\ (signIns[l] = 1 => l \in delivered /\ tokens[l].used)

\* A session stands for the account and the admin of its link.
SessionsProven ==
    \A s \in DOMAIN sessions :
        s[2] <= signIns[s[1]] /\ ComesFrom(s[1], sessions[s].account, sessions[s].jid)

\* So does the request of a page, whatever has become of its session meanwhile.
PagesProven ==
    \A r \in Requests :
        request[r].pc = "page" =>
            /\ request[r].session[2] <= signIns[request[r].session[1]]
            /\ ComesFrom(request[r].session[1], request[r].account, request[r].jid)

\* A session signed out of is gone, and its id was given out.
SignedOutGone ==
    \A s \in signedOut : s \notin DOMAIN sessions /\ s[2] <= signIns[s[1]]

\* The inductive invariant
IInv ==
    /\ TypeOK
    /\ SendsStored
    /\ SpenderAlone
    /\ MadeOnce
    /\ SessionsProven
    /\ PagesProven
    /\ SignedOutGone

-----------------------------------------------------------------------------
\* What the locals of a request hold at each point
LEMMA RequestType ==
    ASSUME TypeOK, NEW r \in Requests
    PROVE  /\ request[r].pc = "session" =>
                 /\ request[r].browser \in Browsers /\ request[r].account \in Accounts
                 /\ request[r].jid \in Admins /\ request[r].link \in Links
           /\ request[r].pc \in {"cookie", "clear"} =>
                 /\ request[r].browser \in Browsers /\ request[r].account \in Accounts
                 /\ request[r].session \in SessionIds
           /\ request[r].pc = "page" =>
                 /\ request[r].browser \in Browsers /\ request[r].account \in Accounts
                 /\ request[r].jid \in Admins /\ request[r].session \in SessionIds
<1>1. request[r] \in RequestLocals
  BY DEF TypeOK
<1> QED  BY <1>1 DEF RequestLocals, Idle

LEMMA ChatType ==
    ASSUME TypeOK, NEW a \in Accounts
    PROVE  /\ chat[a].pc = "store" => chat[a].jid \in Admins
           /\ chat[a].pc = "send" => chat[a].link \in Links
<1>1. chat[a] \in ChatLocals
  BY DEF TypeOK
<1> QED  BY <1>1 DEF ChatLocals, Idle

LEMMA GotoType ==
    ASSUME TypeOK, NEW r \in Requests, NEW local \in RequestLocals, Goto(r, local)
    PROVE  /\ request' \in [Requests -> RequestLocals]
           /\ request'[r] = local
           /\ \A q \in Requests \ {r} : request'[q] = request[q]
BY DEF TypeOK, Goto

LEMMA IdleType == Idle \in RequestLocals /\ Idle \in ChatLocals /\ Idle.pc = "idle"
BY DEF RequestLocals, ChatLocals, Idle

LEMMA MountType == ASSUME NEW a \in Accounts PROVE MountOf(a) \in Mounts
BY DEF MountOf, Mounts

LEMMA InitEstablishes == ASSUME WebAuthAssumption, Init PROVE IInv
<1>1. TypeOK
  BY IdleType DEF Init, TypeOK, WebAuthAssumption
<1>2. SendsStored /\ SpenderAlone /\ MadeOnce /\ SessionsProven /\ PagesProven /\ SignedOutGone
  BY IdleType DEF Init, SendsStored, SpenderAlone, MadeOnce, SessionsProven, PagesProven,
                  SignedOutGone, Links
<1> QED  BY <1>1, <1>2 DEF IInv

-----------------------------------------------------------------------------
\* An action that leaves tokens, sessions, links and sign-ins alone keeps what is
\* known of them.
LEMMA TablesKept ==
    ASSUME IInv, TypeOK',
           UNCHANGED <<tables, delivered, history>>,
           \A a \in Accounts : chat'[a].pc = "send" => chat'[a] = chat[a],
           \A r \in Requests : request'[r].pc \in {"session", "page"} => request'[r] = request[r]
    PROVE  IInv'
BY DEF IInv, SendsStored, SpenderAlone, MadeOnce, SessionsProven, PagesProven, SignedOutGone,
       ComesFrom, tables, history

LEMMA AdvanceStep == ASSUME WebAuthAssumption, IInv, Advance PROVE IInv'
<1>1. TypeOK'
  BY DEF IInv, TypeOK, Advance, tables, history
<1> QED  BY <1>1, TablesKept DEF Advance

LEMMA AskLinkStep ==
    ASSUME IInv, NEW a \in Accounts, NEW jid \in Admins, AskLink(a, jid)
    PROVE  IInv'
<1>1. rateKey(a, jid) \in RateKeys
  BY DEF rateKey, RateKeys
<1>2. DOMAIN lastSent' \subseteq RateKeys /\ \A k \in DOMAIN lastSent' : lastSent'[k] \in 0 .. now'
  BY <1>1 DEF IInv, TypeOK, AskLink
<1>3. chat' \in [Accounts -> ChatLocals]
  BY DEF IInv, TypeOK, AskLink, ChatLocals
<1>4. TypeOK'
  BY <1>2, <1>3 DEF IInv, TypeOK, AskLink, tables, history
<1> QED  BY <1>4, TablesKept DEF IInv, TypeOK, AskLink

LEMMA CreateWebTokenStep ==
    ASSUME WebAuthAssumption, IInv, NEW a \in Accounts, CreateWebToken(a)
    PROVE  IInv'
<1>1. CASE Len(tokens) < MaxLinks /\ Stored(a) /\ Sending(a)
  <2> DEFINE t == [account |-> a, jid |-> chat[a].jid, mount |-> MountOf(a),
                   expires |-> now + LinkTTL, used |-> FALSE]
  <2>1. t \in Token
    BY ChatType, MountType DEF IInv, TypeOK, CreateWebToken, Token, WebAuthAssumption
  <2> HIDE DEF t
  <2>2. /\ tokens' = Append(tokens, t) /\ tokens' \in Seq(Token)
        /\ Len(tokens') = Len(tokens) + 1 /\ Len(tokens) \in Nat
        /\ \A l \in 1 .. Len(tokens) : tokens'[l] = tokens[l]
    BY <1>1, <2>1 DEF IInv, TypeOK, Stored, t
  <2>3. Len(tokens') \in Links
    BY <1>1, <2>2 DEF Links, WebAuthAssumption
  <2>4. chat' \in [Accounts -> ChatLocals]
    BY <1>1, <2>2, <2>3 DEF IInv, TypeOK, Sending, ChatLocals
  <2>5. TypeOK'
    BY <1>1, <2>2, <2>4 DEF IInv, TypeOK, CreateWebToken, history
  <2>6. SendsStored'
    BY <1>1, <2>2 DEF IInv, TypeOK, SendsStored, Sending
  <2>7. \A l, b, j : ComesFrom(l, b, j) => ComesFrom(l, b, j)' /\ tokens'[l] = tokens[l]
    BY <2>2 DEF IInv, TypeOK, ComesFrom, CreateWebToken
  <2>8. (SpenderAlone /\ MadeOnce /\ SessionsProven /\ PagesProven /\ SignedOutGone)'
    BY <2>2, <2>7 DEF IInv, TypeOK, CreateWebToken, SpenderAlone, MadeOnce, SessionsProven,
                      PagesProven, SignedOutGone, history
  <2> QED  BY <2>5, <2>6, <2>8 DEF IInv
<1>2. CASE tokens' = tokens /\ chat' = [chat EXCEPT ![a] = Idle]
  <2>1. TypeOK'
    BY <1>2, IdleType DEF IInv, TypeOK, CreateWebToken, history
  <2> QED  BY <1>2, <2>1, TablesKept, IdleType DEF IInv, TypeOK, CreateWebToken, tables
<1> QED  BY <1>1, <1>2 DEF CreateWebToken

LEMMA SendLinkStep == ASSUME IInv, NEW a \in Accounts, SendLink(a) PROVE IInv'
<1>1. chat[a].link \in 1 .. Len(tokens)
  BY DEF IInv, SendsStored, SendLink
<1>2. TypeOK'
  BY <1>1, IdleType DEF IInv, TypeOK, SendLink, tables, history
<1>3. SendsStored'
  BY IdleType DEF IInv, TypeOK, SendsStored, SendLink, tables
<1>4. (SpenderAlone /\ MadeOnce /\ SessionsProven /\ PagesProven /\ SignedOutGone)'
  BY DEF IInv, TypeOK, SendLink, SpenderAlone, MadeOnce, SessionsProven, PagesProven,
         SignedOutGone, ComesFrom, tables, history
<1> QED  BY <1>2, <1>3, <1>4 DEF IInv

LEMMA ConsumeWebTokenStep ==
    ASSUME IInv, NEW r \in Requests, NEW b \in Browsers, NEW l \in Links,
           ConsumeWebToken(r, b, l)
    PROVE  IInv'
<1> DEFINE local == [pc |-> "session", browser |-> b, account |-> tokens[l].account,
                     jid |-> tokens[l].jid, link |-> l]
<1>1. l \in 1 .. Len(tokens) /\ tokens[l] \in Token
  BY DEF IInv, TypeOK, ConsumeWebToken
<1>2. local \in RequestLocals
  BY <1>1 DEF RequestLocals, Token
<1> HIDE DEF local
<1>3. /\ request' \in [Requests -> RequestLocals]
      /\ request'[r] = local
      /\ \A q \in Requests \ {r} : request'[q] = request[q]
  BY <1>2, GotoType DEF IInv, ConsumeWebToken, Spent, local
<1>4. /\ tokens' \in Seq(Token) /\ Len(tokens') = Len(tokens)
      /\ tokens'[l] = [tokens[l] EXCEPT !.used = TRUE]
      /\ \A k \in 1 .. Len(tokens) \ {l} : tokens'[k] = tokens[k]
  <2>1. [tokens[l] EXCEPT !.used = TRUE] \in Token
    BY <1>1 DEF Token
  <2>2. tokens \in Seq(Token) /\ tokens' = [tokens EXCEPT ![l] = [tokens[l] EXCEPT !.used = TRUE]]
    BY DEF IInv, TypeOK, ConsumeWebToken
  <2> DEFINE t == [tokens[l] EXCEPT !.used = TRUE]
  <2>3. tokens' = [tokens EXCEPT ![l] = t] /\ t \in Token
    BY <2>1, <2>2
  <2> HIDE DEF t
  <2>4. /\ [tokens EXCEPT ![l] = t] \in Seq(Token)
        /\ Len([tokens EXCEPT ![l] = t]) = Len(tokens)
        /\ \A k \in 1 .. Len(tokens) :
              [tokens EXCEPT ![l] = t][k] = IF k = l THEN t ELSE tokens[k]
    <3>1. tokens \in Seq(Token) /\ l \in 1 .. Len(tokens) /\ t \in Token
      BY <1>1, <2>2, <2>3
    <3> QED  BY ONLY <3>1, ExceptSeq
  <2> QED  BY <1>1, <2>3, <2>4 DEF t
<1>5. TypeOK'
  BY <1>3, <1>4 DEF IInv, TypeOK, ConsumeWebToken, history
<1>6. SendsStored'
  BY <1>4 DEF IInv, SendsStored, ConsumeWebToken
<1>7. \A k, a, j : ComesFrom(k, a, j) =>
         ComesFrom(k, a, j)' /\ (tokens[k].used => tokens'[k].used)
  BY <1>1, <1>4 DEF IInv, TypeOK, ComesFrom, ConsumeWebToken, Token
<1>8. tokens'[l].used /\ ~tokens[l].used /\ l \in delivered'
  BY <1>1, <1>4 DEF ConsumeWebToken, Good, Token
<1>9. signIns[l] = 0
  BY <1>8 DEF IInv, MadeOnce
<1>10. SpenderAlone'
  <2>1. ComesFrom(l, local.account, local.jid)'
    BY <1>1, <1>4, <1>8 DEF ComesFrom, local, Token
  <2>2. \A q \in Requests : request[q].pc = "session" => request[q].link # l
    BY <1>8 DEF IInv, SpenderAlone
  <2> QED  BY <1>3, <1>7, <1>8, <1>9, <2>1, <2>2 DEF IInv, SpenderAlone, ConsumeWebToken,
                                                     history, local
<1>11. MadeOnce'
  BY <1>4, <1>9 DEF IInv, TypeOK, MadeOnce, ConsumeWebToken, history
<1>12. (SessionsProven /\ PagesProven /\ SignedOutGone)'
  BY <1>3, <1>7 DEF IInv, SessionsProven, PagesProven, SignedOutGone, ConsumeWebToken, history,
                    local
<1> QED  BY <1>5, <1>6, <1>10, <1>11, <1>12 DEF IInv

\* A session is made from a spent link that nothing was made from.
LEMMA SessionMade ==
    ASSUME IInv, NEW r \in Requests, request[r].pc = "session",
           NEW local, local = [pc |-> "cookie", browser |-> request[r].browser,
                               account |-> request[r].account, session |-> <<request[r].link, 1>>],
           Goto(r, local),
           sessions' = [i \in DOMAIN sessions \cup {<<request[r].link, 1>>} |->
                           IF i = <<request[r].link, 1>>
                           THEN [account |-> request[r].account, jid |-> request[r].jid,
                                 expires |-> now + SessionTTL]
                           ELSE sessions[i]],
           signIns' = [signIns EXCEPT ![request[r].link] = 1],
           UNCHANGED <<now, served, tokens, delivered, lastSent, chat, jar, restarts, signedOut>>,
           WebAuthAssumption
    PROVE  IInv'
<1> DEFINE l == request[r].link
           s == <<l, 1>>
<1>1. /\ l \in Links /\ request[r].account \in Accounts /\ request[r].jid \in Admins
      /\ request[r].browser \in Browsers
  BY RequestType DEF IInv
<1>2. ComesFrom(l, request[r].account, request[r].jid) /\ tokens[l].used /\ signIns[l] = 0
  BY DEF IInv, SpenderAlone
<1>3. s \in SessionIds /\ s[1] = l /\ s[2] = 1
  BY <1>1 DEF SessionIds
<1>4. local \in RequestLocals
  BY <1>1, <1>3 DEF RequestLocals
<1>5. /\ request' \in [Requests -> RequestLocals]
      /\ request'[r] = local
      /\ \A q \in Requests \ {r} : request'[q] = request[q]
  BY <1>4, GotoType DEF IInv
<1>6. /\ signIns' \in [Links -> Nat] /\ signIns'[l] = 1
      /\ \A k \in Links \ {l} : signIns'[k] = signIns[k]
  BY <1>1 DEF IInv, TypeOK
<1>7. TypeOK'
  <2>1. [account |-> request[r].account, jid |-> request[r].jid, expires |-> now + SessionTTL]
           \in SessionRow
    BY <1>1 DEF IInv, TypeOK, SessionRow, WebAuthAssumption
  <2>2. /\ DOMAIN sessions' \subseteq SessionIds
        /\ \A i \in DOMAIN sessions' : sessions'[i] \in SessionRow
    BY <1>3, <2>1 DEF IInv, TypeOK
  <2> QED  BY <1>5, <1>6, <2>2 DEF IInv, TypeOK
<1>8. SendsStored'
  BY DEF IInv, SendsStored
<1>9. SpenderAlone'
  <2>1. \A q \in Requests \ {r} : request[q].pc = "session" => request[q].link # l
    BY DEF IInv, SpenderAlone
  <2>2. \A q \in Requests : request[q].pc = "session" => request[q].link \in Links
    BY RequestType DEF IInv
  <2> QED  BY <1>5, <1>6, <2>1, <2>2 DEF IInv, SpenderAlone, ComesFrom
<1>10. MadeOnce'
  BY <1>2, <1>6 DEF IInv, MadeOnce, ComesFrom
<1>11. \A k \in Links : signIns[k] <= signIns'[k] /\ signIns[k] \in Nat /\ signIns'[k] \in Nat
  BY <1>2, <1>6 DEF IInv, TypeOK
<1>12. \A i \in SessionIds : i[1] \in Links /\ i[2] \in Nat
  BY DEF SessionIds
<1>13. SessionsProven'
  <2> SUFFICES ASSUME NEW i \in DOMAIN sessions'
               PROVE  /\ i[2] <= signIns'[i[1]]
                      /\ ComesFrom(i[1], sessions'[i].account, sessions'[i].jid)
    BY DEF SessionsProven, ComesFrom
  <2>1. CASE i = s
    BY <1>2, <1>3, <1>6, <2>1
  <2>2. CASE i # s
    <3>1. i \in DOMAIN sessions /\ i \in SessionIds /\ sessions'[i] = sessions[i]
      BY <2>2 DEF IInv, TypeOK
    <3> QED  BY <1>11, <1>12, <3>1 DEF IInv, SessionsProven
  <2> QED  BY <2>1, <2>2
<1>14. PagesProven'
  <2> SUFFICES ASSUME NEW q \in Requests, request'[q].pc = "page"
               PROVE  /\ request'[q].session[2] <= signIns'[request'[q].session[1]]
                      /\ ComesFrom(request'[q].session[1], request'[q].account,
                                   request'[q].jid)
    BY DEF PagesProven, ComesFrom
  <2>1. request'[q] = request[q] /\ request[q].session \in SessionIds
    BY <1>5, RequestType DEF IInv
  <2> QED  BY <1>11, <1>12, <2>1 DEF IInv, PagesProven
<1>15. SignedOutGone'
  <2> SUFFICES ASSUME NEW i \in signedOut
               PROVE  i \notin DOMAIN sessions' /\ i[2] <= signIns'[i[1]]
    BY DEF SignedOutGone
  <2>1. i \in SessionIds /\ i \notin DOMAIN sessions /\ i[2] <= signIns[i[1]]
    BY DEF IInv, TypeOK, SignedOutGone
  <2>2. i # s
    BY <1>2, <1>3, <2>1
  <2> QED  BY <1>11, <1>12, <2>1, <2>2
<1> QED  BY <1>7, <1>8, <1>9, <1>10, <1>13, <1>14, <1>15 DEF IInv

\* A request that ends, or goes on to what needs no proof
LEMMA RequestChanged ==
    ASSUME IInv, NEW r \in Requests, NEW local \in RequestLocals,
           local.pc \notin {"session", "page"}, Goto(r, local),
           jar' \in [Browsers -> [Mounts -> SessionIds \cup {NoSession}]],
           UNCHANGED <<now, served, tables, delivered, lastSent, chat, restarts, history>>
    PROVE  IInv'
<1>1. /\ request' \in [Requests -> RequestLocals]
      /\ request'[r] = local
      /\ \A q \in Requests \ {r} : request'[q] = request[q]
  BY GotoType DEF IInv
<1>2. TypeOK'
  BY <1>1 DEF IInv, TypeOK, tables, history
<1> QED  BY <1>1, <1>2, TablesKept

LEMMA CreateWebSessionStep ==
    ASSUME WebAuthAssumption, IInv, NEW r \in Requests, CreateWebSession(r)
    PROVE  IInv'
<1> DEFINE l == request[r].link
<1>1. request[r].pc = "session" /\ l \in Links /\ signIns[l] = 0
  BY RequestType DEF IInv, SpenderAlone, CreateWebSession
<1>2. CASE /\ UNCHANGED <<sessions, signIns>>
           /\ Goto(r, Idle)
  <2>1. jar' \in [Browsers -> [Mounts -> SessionIds \cup {NoSession}]]
    BY DEF IInv, TypeOK, CreateWebSession
  <2>2. UNCHANGED <<now, served, tables, delivered, lastSent, chat, restarts, history>>
    BY <1>2 DEF CreateWebSession, tables, history
  <2> QED  BY <1>2, <2>1, <2>2, IdleType, RequestChanged
<1>3. CASE ~(UNCHANGED <<sessions, signIns>> /\ Goto(r, Idle))
  <2>1. <<l, signIns[l] + 1>> = <<l, 1>> /\ signIns[l] + 1 = 1
    BY <1>1
  <2>2. signIns' = [signIns EXCEPT ![l] = 1]
    BY <1>3, <2>1 DEF CreateWebSession
  <2>3. Goto(r, [pc |-> "cookie", browser |-> request[r].browser,
                 account |-> request[r].account, session |-> <<l, 1>>])
    BY <1>3, <2>1 DEF CreateWebSession
  <2>4. sessions' = [i \in DOMAIN sessions \cup {<<l, 1>>} |->
                        IF i = <<l, 1>>
                        THEN [account |-> request[r].account, jid |-> request[r].jid,
                              expires |-> now + SessionTTL]
                        ELSE sessions[i]]
    BY <1>3, <2>1 DEF CreateWebSession
  <2>5. UNCHANGED <<now, served, tokens, delivered, lastSent, chat, jar, restarts, signedOut>>
    BY DEF CreateWebSession
  <2> QED  BY <1>1, <2>2, <2>3, <2>4, <2>5, SessionMade
<1> QED  BY <1>2, <1>3

LEMMA AnswerStep == ASSUME IInv, NEW r \in Requests, Answer(r) PROVE IInv'
<1>1. /\ request[r].browser \in Browsers
      /\ request[r].account \in Accounts
      /\ request[r].session \in SessionIds
  BY RequestType DEF IInv, Answer
<1>2. MountOf(request[r].account) \in Mounts
  BY <1>1, MountType
<1>3. jar' \in [Browsers -> [Mounts -> SessionIds \cup {NoSession}]]
  <2> DEFINE b == request[r].browser
             m == MountOf(request[r].account)
  <2>1. PICK cookie \in SessionIds \cup {NoSession} :
           jar' \in {jar, [jar EXCEPT ![b][m] = cookie]}
    BY <1>1 DEF Answer
  <2>2. jar \in [Browsers -> [Mounts -> SessionIds \cup {NoSession}]]
    BY DEF IInv, TypeOK
  <2>3. b \in Browsers /\ m \in Mounts
    BY <1>1, <1>2
  <2> HIDE DEF b, m
  <2> QED  BY <2>1, <2>2, <2>3
<1> QED  BY <1>3, IdleType, RequestChanged DEF Answer

\* Only a session that is there lets a request in.
LEMMA LetIn ==
    ASSUME IInv, NEW r \in Requests, NEW b \in Browsers, NEW a \in Accounts,
           RequireSession(r, b, a)
    PROVE  /\ request' \in [Requests -> RequestLocals]
           /\ \A q \in Requests \ {r} : request'[q] = request[q]
           /\ \/ request'[r].pc = "clear"
              \/ /\ request'[r].pc = "page"
                 /\ request'[r].session \in DOMAIN sessions
                 /\ request'[r].account = sessions[request'[r].session].account
                 /\ request'[r].jid = sessions[request'[r].session].jid
<1> DEFINE s == jar[b][MountOf(a)]
           page == [pc |-> "page", browser |-> b, account |-> a, jid |-> sessions[s].jid,
                    session |-> s]
           gone == [pc |-> "clear", browser |-> b, account |-> a, session |-> s]
<1>1. s \in SessionIds
  BY MountType DEF IInv, TypeOK, RequireSession
<1>2. CASE GetWebSession(a, s)
  <2>1. s \in DOMAIN sessions /\ sessions[s].account = a /\ sessions[s] \in SessionRow
    BY <1>2 DEF GetWebSession, IInv, TypeOK
  <2>2. page \in RequestLocals
    BY <1>1, <2>1 DEF RequestLocals, SessionRow
  <2>3. Goto(r, page)
    BY <1>2 DEF RequireSession
  <2>4. /\ request' \in [Requests -> RequestLocals]
        /\ request'[r] = page
        /\ \A q \in Requests \ {r} : request'[q] = request[q]
    BY <2>2, <2>3, GotoType DEF IInv
  <2> QED  BY <2>1, <2>4
<1>3. CASE ~GetWebSession(a, s)
  <2>1. gone \in RequestLocals
    BY <1>1 DEF RequestLocals
  <2>2. Goto(r, gone)
    BY <1>3 DEF RequireSession
  <2>3. /\ request' \in [Requests -> RequestLocals]
        /\ request'[r] = gone
        /\ \A q \in Requests \ {r} : request'[q] = request[q]
    BY <2>1, <2>2, GotoType DEF IInv
  <2> QED  BY <2>3
<1> QED  BY <1>2, <1>3

LEMMA RequireSessionStep ==
    ASSUME IInv, NEW r \in Requests, NEW b \in Browsers, NEW a \in Accounts,
           RequireSession(r, b, a)
    PROVE  IInv'
<1>1. TypeOK'
  BY LetIn DEF IInv, TypeOK, RequireSession, tables, history
<1>2. PagesProven'
  BY LetIn DEF IInv, PagesProven, SessionsProven, ComesFrom, RequireSession, tables, history
<1>3. SpenderAlone'
  BY LetIn DEF IInv, SpenderAlone, ComesFrom, RequireSession, tables, history
<1>4. (SendsStored /\ MadeOnce /\ SessionsProven /\ SignedOutGone)'
  BY DEF IInv, SendsStored, MadeOnce, SessionsProven, SignedOutGone, ComesFrom,
         RequireSession, tables, history
<1> QED  BY <1>1, <1>2, <1>3, <1>4 DEF IInv

LEMMA ServeStep == ASSUME IInv, NEW r \in Requests, Serve(r) PROVE IInv'
BY IdleType, RequestChanged DEF IInv, TypeOK, Serve

LEMMA LogoutStep == ASSUME IInv, NEW r \in Requests, Logout(r) PROVE IInv'
<1> DEFINE local == [pc |-> "clear", browser |-> request[r].browser,
                     account |-> request[r].account, session |-> request[r].session]
<1>1. /\ request[r].pc = "page" /\ request[r].session \in SessionIds
      /\ request[r].session[2] <= signIns[request[r].session[1]]
      /\ local \in RequestLocals
  BY RequestType DEF IInv, PagesProven, Logout, Leave, RequestLocals
<1>2. Goto(r, local)
  BY DEF Logout, Leave
<1>3. CASE UNCHANGED <<sessions, signedOut>>
  BY <1>1, <1>2, <1>3, RequestChanged DEF IInv, TypeOK, Logout, tables, history
<1>4. CASE SessionGone(r)
  <2>1. /\ request' \in [Requests -> RequestLocals]
        /\ request'[r] = local
        /\ \A q \in Requests \ {r} : request'[q] = request[q]
    BY <1>1, <1>2, GotoType DEF IInv
  <2>2. /\ DOMAIN sessions' = DOMAIN sessions \ {request[r].session}
        /\ \A s \in DOMAIN sessions' : sessions'[s] = sessions[s]
        /\ signedOut' = signedOut \cup {request[r].session}
    BY <1>4 DEF SessionGone
  <2>3. TypeOK'
    BY <1>1, <2>1, <2>2 DEF IInv, TypeOK, Logout
  <2>4. (SpenderAlone /\ PagesProven)'
    BY <2>1 DEF IInv, SpenderAlone, PagesProven, ComesFrom, Logout
  <2>5. (SendsStored /\ MadeOnce)'
    BY DEF IInv, SendsStored, MadeOnce, Logout
  <2>6. (SessionsProven /\ SignedOutGone)'
    BY <1>1, <2>2 DEF IInv, SessionsProven, SignedOutGone, ComesFrom, Logout
  <2> QED  BY <2>3, <2>4, <2>5, <2>6 DEF IInv
<1> QED  BY <1>3, <1>4 DEF Logout

LEMMA RestartStep == ASSUME IInv, Restart PROVE IInv'
<1>1. TypeOK'
  BY IdleType DEF IInv, TypeOK, Restart, tables, history
<1> QED  BY <1>1, TablesKept, IdleType DEF Restart

LEMMA NextPreserves == ASSUME WebAuthAssumption, IInv, [Next]_vars PROVE IInv'
<1>1. CASE UNCHANGED vars
  <2>1. TypeOK'
    BY <1>1 DEF IInv, TypeOK, vars
  <2> QED  BY <1>1, <2>1, TablesKept DEF vars, tables, history
<1>2. ASSUME NEW a \in Accounts, ChatStep(a) PROVE IInv'
  BY <1>2, AskLinkStep, CreateWebTokenStep, SendLinkStep DEF ChatStep
<1>3. ASSUME NEW r \in Requests, RequestStep(r) PROVE IInv'
  BY <1>3, ConsumeWebTokenStep, CreateWebSessionStep, AnswerStep, RequireSessionStep, ServeStep,
     LogoutStep DEF RequestStep
<1> QED  BY <1>1, <1>2, <1>3, AdvanceStep, RestartStep DEF Next

LEMMA Invariance == Spec => []IInv
<1>1. Init => IInv
  BY InitEstablishes, WebAuthAssumption
<1>2. IInv /\ [Next]_vars => IInv'
  BY NextPreserves, WebAuthAssumption
<1> QED  BY <1>1, <1>2, PTL DEF Spec

\* Type correctness of signing in.
THEOREM TypeCorrect == Spec => []TypeOK
<1>1. IInv => TypeOK
  BY DEF IInv
<1> QED  BY <1>1, Invariance, PTL

\* A page acts for an admin only if that admin asked this account's bot for the
\* link that the browser's session comes from, whatever restarts with other
\* accounts, cookies of other mounts and logouts come in between.
THEOREM PagesActForTheirAdmin == Spec => []IdentityProven
<1>1. IInv => IdentityProven
  BY DEF IInv, PagesProven, ComesFrom, IdentityProven
<1> QED  BY <1>1, Invariance, PTL

-----------------------------------------------------------------------------
\* Only RequireSession lets a request in.
LEMMA EntersByCookie ==
    ASSUME IInv, [Next]_vars, NEW r \in Requests, request[r] = Idle, request'[r].pc = "page"
    PROVE  \E b \in Browsers, a \in Accounts : RequireSession(r, b, a)
<1>1. \A q \in Requests : \A local : q # r /\ Goto(q, local) => request'[r] = request[r]
  BY DEF IInv, TypeOK, Goto
<1>2. \A local : Goto(r, local) => request'[r] = local
  BY DEF IInv, TypeOK, Goto
<1>3. request'[r] # request[r]
  BY IdleType
<1>4. CASE UNCHANGED vars \/ Advance \/ \E a \in Accounts : ChatStep(a)
  BY <1>3, <1>4 DEF vars, Advance, ChatStep, AskLink, CreateWebToken, SendLink
<1>5. CASE Restart
  BY <1>3, <1>5 DEF Restart
<1>6. ASSUME NEW q \in Requests, RequestStep(q)
      PROVE  \E b \in Browsers, a \in Accounts : RequireSession(r, b, a)
  <2>1. CASE q # r
    BY <1>1, <1>3, <1>6, <2>1 DEF RequestStep, ConsumeWebToken, Spent, CreateWebSession, Answer,
                                  RequireSession, Serve, Logout, Leave
  <2>2. CASE q = r
    <3>1. request[r].pc = "idle"
      BY IdleType
    <3>2. ~CreateWebSession(r) /\ ~Answer(r) /\ ~Serve(r) /\ ~Logout(r)
      BY <3>1 DEF CreateWebSession, Answer, Serve, Logout, Leave
    <3>3. \A b, l : ~ConsumeWebToken(r, b, l)
      BY <1>2 DEF ConsumeWebToken, Spent
    <3> QED  BY <1>6, <2>2, <3>2, <3>3 DEF RequestStep
  <2> QED  BY <2>1, <2>2
<1> QED  BY <1>4, <1>5, <1>6 DEF Next

\* Signing out is for good: no later request is let in by that session, in any
\* browser, although cookies of it may be left behind.
THEOREM SignedOutForGood == Spec => SignedOutStaysOut
<1>1. ASSUME IInv, [Next]_vars, NEW r \in Requests, request[r] = Idle, request'[r].pc = "page"
      PROVE  request'[r].session \notin signedOut
  BY <1>1, EntersByCookie, LetIn DEF IInv, SignedOutGone
<1>2. IInv /\ [Next]_vars =>
         [\A r \in Requests : request[r] = Idle /\ request'[r].pc = "page" =>
             request'[r].session \notin signedOut]_vars
  BY <1>1
<1> QED  BY <1>2, Invariance, PTL DEF Spec, SignedOutStaysOut

-----------------------------------------------------------------------------
\* The refinement: where each action takes each link.
LinkStep(l) == UNCHANGED <<now, Stage(l), Deadline(l)>> \/ Link(l)!Next

LEMMA LinkType ==
    ASSUME IInv, NEW l \in Links
    PROVE  /\ l \in Nat /\ Len(tokens) \in Nat
           /\ signIns[l] \in {0, 1}
           /\ signIns[l] = 1 => l <= Len(tokens) /\ tokens[l].used
BY DEF IInv, TypeOK, MadeOnce, Links

LEMMA StageIs ==
    ASSUME IInv, NEW l \in Links
    PROVE  /\ l > Len(tokens) => Stage(l) = "unissued" /\ Deadline(l) = 0
           /\ l <= Len(tokens) => Deadline(l) = tokens[l].expires
           /\ l <= Len(tokens) /\ signIns[l] = 0 =>
                 Stage(l) = IF tokens[l].used THEN "spent" ELSE "live"
           /\ l <= Len(tokens) /\ signIns[l] = 1 =>
                 Stage(l) = IF <<l, 1>> \in DOMAIN sessions THEN "open" ELSE "closed"
BY LinkType DEF Stage, Deadline

LEMMA LinkInit == ASSUME Init, NEW l \in Links PROVE Link(l)!Init
BY DEF Init, Stage, Deadline, Links, Link!Init

LEMMA LinkIdle ==
    ASSUME UNCHANGED <<tokens, signIns, sessions>>, NEW l \in Links
    PROVE  UNCHANGED <<Stage(l), Deadline(l)>>
BY DEF Stage, Deadline

LEMMA LinkIssued ==
    ASSUME WebAuthAssumption, IInv, IInv', NEW a \in Accounts, CreateWebToken(a), NEW l \in Links
    PROVE  LinkStep(l)
<1>1. CASE tokens' = tokens
  BY <1>1, LinkIdle DEF CreateWebToken, LinkStep, history
<1>2. CASE Len(tokens) < MaxLinks /\ Stored(a) /\ Sending(a)
  <2>1. /\ Len(tokens') = Len(tokens) + 1
        /\ tokens'[Len(tokens) + 1].expires = now + LinkTTL
        /\ ~tokens'[Len(tokens) + 1].used
        /\ \A k \in 1 .. Len(tokens) : tokens'[k] = tokens[k]
    BY <1>2 DEF IInv, TypeOK, Stored
  <2>2. UNCHANGED <<now, sessions, signIns>>
    BY DEF CreateWebToken, history
  <2>3. l \in 1 .. MaxLinks
    BY DEF Links
  <2>4. CASE l <= Len(tokens)
    <3>1. Stage(l)' = Stage(l) /\ Deadline(l)' = Deadline(l)
      BY <2>1, <2>2, <2>3, <2>4, LinkType, StageIs DEF Stage, Deadline
    <3> QED  BY <2>2, <3>1 DEF LinkStep
  <2>5. CASE l > Len(tokens) + 1
    <3>1. Stage(l)' = Stage(l) /\ Deadline(l)' = Deadline(l)
      BY <2>1, <2>2, <2>3, <2>5, LinkType, StageIs DEF Stage, Deadline
    <3> QED  BY <2>2, <3>1 DEF LinkStep
  <2>6. CASE l = Len(tokens) + 1
    <3>0. l > Len(tokens) /\ signIns[l] = 0
      BY <2>6, LinkType
    <3>1. Stage(l) = "unissued" /\ signIns[l] = 0
      BY <3>0, LinkType, StageIs
    <3>2. Stage(l)' = "live" /\ Deadline(l)' = now + LinkTTL
      BY <2>1, <2>2, <2>6, <3>1, LinkType, StageIs DEF Stage, Deadline
    <3> QED  BY <2>2, <3>1, <3>2 DEF LinkStep, Link!Next, Link!Issue
  <2> QED  BY <2>3, <2>4, <2>5, <2>6, LinkType, StageIs
<1> QED  BY <1>1, <1>2 DEF CreateWebToken

LEMMA LinkSpent ==
    ASSUME IInv, NEW r \in Requests, NEW b \in Browsers, NEW k \in Links, ConsumeWebToken(r, b, k),
           NEW l \in Links
    PROVE  LinkStep(l)
<1>1. k \in 1 .. Len(tokens) /\ ~tokens[k].used /\ now <= tokens[k].expires /\ signIns[k] = 0
  BY DEF IInv, TypeOK, MadeOnce, ConsumeWebToken, Good
<1>2. UNCHANGED <<now, sessions, signIns>>
  BY DEF ConsumeWebToken, history
<1>3. /\ Len(tokens') = Len(tokens)
      /\ tokens'[k].used /\ tokens'[k].expires = tokens[k].expires
      /\ \A j \in 1 .. Len(tokens) \ {k} : tokens'[j] = tokens[j]
  <2>1. tokens \in Seq(Token) /\ tokens[k] \in Token
    BY <1>1 DEF IInv, TypeOK
  <2>2. tokens' = [tokens EXCEPT ![k] = [tokens[k] EXCEPT !.used = TRUE]]
    BY DEF ConsumeWebToken
  <2>3. /\ [tokens[k] EXCEPT !.used = TRUE].used
        /\ [tokens[k] EXCEPT !.used = TRUE].expires = tokens[k].expires
    BY <2>1 DEF Token
  <2> QED  BY <1>1, <2>1, <2>2, <2>3
<1>4. CASE l = k
  <2>1. Stage(k) = "live" /\ Deadline(k) = tokens[k].expires
    <3>1. k <= Len(tokens)
      BY <1>1, LinkType
    <3> QED  BY <1>1, <3>1, StageIs
  <2>2. Stage(k)' = "spent" /\ Deadline(k)' = tokens[k].expires
    BY <1>1, <1>2, <1>3 DEF Stage, Deadline
  <2> QED  BY <1>1, <1>2, <1>4, <2>1, <2>2
           DEF LinkStep, Link!Next, Link!Spend, Link!Moves
<1>5. CASE l # k
  <2>1. l \in Nat
    BY DEF Links
  <2>2. Stage(l)' = Stage(l) /\ Deadline(l)' = Deadline(l)
    BY <1>2, <1>3, <1>5, <2>1, LinkType, StageIs DEF Stage, Deadline, Links
  <2> QED  BY <1>2, <2>2 DEF LinkStep
<1> QED  BY <1>4, <1>5

LEMMA LinkOpened ==
    ASSUME IInv, NEW r \in Requests, CreateWebSession(r), NEW l \in Links
    PROVE  LinkStep(l)
<1>0. PICK k \in Links : k = request[r].link
  BY RequestType DEF IInv, CreateWebSession
<1>1. /\ k \in 1 .. Len(tokens)
      /\ tokens[k].used /\ signIns[k] = 0
  BY <1>0 DEF IInv, TypeOK, SpenderAlone, ComesFrom, CreateWebSession
<1>2. UNCHANGED <<now, tokens>>
  BY DEF CreateWebSession
<1>3. CASE UNCHANGED <<sessions, signIns>>
  BY <1>2, <1>3, LinkIdle DEF LinkStep
<1>4. CASE ~UNCHANGED <<sessions, signIns>>
  <2>1. /\ signIns' = [signIns EXCEPT ![k] = 1]
        /\ DOMAIN sessions' = DOMAIN sessions \cup {<<k, 1>>}
    BY <1>0, <1>1, <1>4 DEF CreateWebSession
  <2>2. /\ signIns'[k] = 1
        /\ \A j \in Links \ {k} : signIns'[j] = signIns[j]
    BY <1>1, <2>1 DEF IInv, TypeOK
  <2>3. CASE l = k
    <3>0. k <= Len(tokens)
      BY <1>1, LinkType
    <3>1. Stage(k) = "spent"
      BY <1>1, <3>0, StageIs
    <3>2. Stage(k)' = "open" /\ Deadline(k)' = Deadline(k)
      BY <1>1, <1>2, <2>1, <2>2 DEF Stage, Deadline
    <3> QED  BY <1>2, <2>3, <3>1, <3>2 DEF LinkStep, Link!Next, Link!Open, Link!Moves
  <2>4. CASE l # k
    <3>1. (<<l, 1>> \in DOMAIN sessions') <=> (<<l, 1>> \in DOMAIN sessions)
      BY <2>1, <2>4
    <3>2. Stage(l)' = Stage(l) /\ Deadline(l)' = Deadline(l)
      BY <1>2, <2>2, <2>4, <3>1 DEF Stage, Deadline
    <3> QED  BY <1>2, <3>2 DEF LinkStep
  <2> QED  BY <2>3, <2>4
<1> QED  BY <1>3, <1>4

LEMMA LinkClosed ==
    ASSUME IInv, NEW r \in Requests, Logout(r), NEW l \in Links
    PROVE  LinkStep(l)
<1>0. PICK s \in SessionIds, k \in Links : s = request[r].session /\ k = s[1]
  BY RequestType DEF IInv, SessionIds, Logout, Leave
<1>1. UNCHANGED <<now, tokens, signIns>>
  BY DEF Logout
<1>2. CASE UNCHANGED sessions
  BY <1>1, <1>2, LinkIdle DEF LinkStep
<1>3. CASE SessionGone(r)
  <2>1. DOMAIN sessions' = DOMAIN sessions \ {s}
    BY <1>0, <1>3 DEF SessionGone
  <2>2. s[2] <= signIns[k] /\ k \in 1 .. Len(tokens)
    BY <1>0 DEF IInv, TypeOK, PagesProven, ComesFrom, Logout, Leave
  <2>3. s = <<k, 1>> /\ signIns[k] = 1
    BY <1>0, <2>2 DEF IInv, MadeOnce, SessionIds
  <2>4. CASE l = k /\ s \in DOMAIN sessions
    <3>1. Stage(k) = "open"
      BY <2>2, <2>3, <2>4, LinkType, StageIs
    <3>2. Stage(k)' = "closed" /\ Deadline(k)' = Deadline(k)
      BY <1>1, <2>1, <2>2, <2>3 DEF Stage, Deadline
    <3> QED  BY <1>1, <2>4, <3>1, <3>2 DEF LinkStep, Link!Next, Link!Close, Link!Moves
  <2>5. CASE ~(l = k /\ s \in DOMAIN sessions)
    <3>1. (<<l, 1>> \in DOMAIN sessions') <=> (<<l, 1>> \in DOMAIN sessions)
      BY <2>1, <2>3, <2>5
    <3>2. Stage(l)' = Stage(l) /\ Deadline(l)' = Deadline(l)
      BY <1>1, <3>1 DEF Stage, Deadline
    <3> QED  BY <1>1, <3>2 DEF LinkStep
  <2> QED  BY <2>4, <2>5
<1> QED  BY <1>2, <1>3 DEF Logout

LEMMA LinkPass == ASSUME Advance, NEW l \in Links PROVE LinkStep(l)
<1>1. UNCHANGED <<tokens, signIns, sessions>> /\ now' = now + 1
  BY DEF Advance, tables, history
<1> QED  BY <1>1, LinkIdle DEF LinkStep, Link!Next, Link!Pass

LEMMA LinkSteps ==
    ASSUME WebAuthAssumption, IInv, IInv', [Next]_vars, NEW l \in Links
    PROVE  LinkStep(l)
<1>1. UNCHANGED <<now, tables, signIns>> => LinkStep(l)
  BY LinkIdle DEF LinkStep, tables
<1>2. CASE UNCHANGED vars \/ Restart
  BY <1>1, <1>2 DEF vars, Restart, tables, history
<1>3. ASSUME NEW a \in Accounts, ChatStep(a) PROVE LinkStep(l)
  BY <1>1, <1>3, LinkIssued DEF ChatStep, AskLink, SendLink, history
<1>4. ASSUME NEW r \in Requests, RequestStep(r) PROVE LinkStep(l)
  BY <1>1, <1>4, LinkSpent, LinkOpened, LinkClosed
     DEF RequestStep, Answer, RequireSession, Serve, history
<1> QED  BY <1>2, <1>3, <1>4, LinkPass DEF Next

\* "Valid for 15 minutes, single use": the sign-in implements SingleUseLink for
\* every link, with requests for one link at once, sessions that fail to be made,
\* logouts and restarts.
THEOREM LinksAreSingleUse == Spec => SingleUse
<1>1. Init => \A l \in Links : Link(l)!Init
  BY LinkInit
<1>2. IInv /\ IInv' /\ [Next]_vars =>
         [\A l \in Links : UNCHANGED <<now, Stage(l), Deadline(l)>> \/ Link(l)!Next]_vars
  BY LinkSteps, WebAuthAssumption DEF LinkStep
<1> QED  BY <1>1, <1>2, Invariance, PTL DEF Spec, SingleUse

\* The same as a refinement: each behaviour of the sign-in is one of each link.
THEOREM ImplementsSingleUseLink == ASSUME NEW l \in Links PROVE Spec => Link(l)!Spec
<1>1. Init => Link(l)!Init
  BY LinkInit
<1>2. IInv /\ IInv' /\ [Next]_vars => [Link(l)!Next]_(Link(l)!linkVars)
  BY LinkSteps, WebAuthAssumption DEF LinkStep, Link!linkVars
<1> QED  BY <1>1, <1>2, Invariance, PTL DEF Spec, Link!Spec

-----------------------------------------------------------------------------
\* The bound on live links.  It counts, for every instant t, the links that an
\* admin was given since t: a run of the process adds one that was asked for
\* before t, and those asked for since, which are a cooldown apart.
Asking(a, jid) == chat[a].pc = "store" /\ chat[a].jid = jid

StoredSince(a, jid, t) ==
    {l \in 1 .. Len(tokens) :
        tokens[l].account = a /\ tokens[l].jid = jid /\ tokens[l].expires >= t + LinkTTL}

\* At most so many in a run that is over
PerRun(t) == (now - t) \div Cooldown + 2

\* At most so many by an admin who asked last at instant s
AskedBy(s, t) == IF s >= t THEN (s - t) \div Cooldown + 2 ELSE 1

\* At most so many in this run; the link that is asked for is not yet stored.
ThisRun(a, jid, t) ==
    IF rateKey(a, jid) \notin DOMAIN lastSent
    THEN 0
    ELSE AskedBy(lastSent[rateKey(a, jid)], t) - IF Asking(a, jid) THEN 1 ELSE 0

StoredInTime == \A l \in 1 .. Len(tokens) : tokens[l].expires \in LinkTTL .. now + LinkTTL

AskRecorded ==
    \A a \in Accounts : chat[a].pc = "store" => rateKey(a, chat[a].jid) \in DOMAIN lastSent

CountBounded ==
    \A a \in Accounts, jid \in Admins, t \in 0 .. now :
        Cardinality(StoredSince(a, jid, t)) <= restarts * PerRun(t) + ThisRun(a, jid, t)

\* The second inductive invariant
RateInv == StoredInTime /\ AskRecorded /\ CountBounded

LEMMA DivType == ASSUME NEW n \in Nat, NEW c \in Nat \ {0} PROVE n \div c \in Nat
OBVIOUS

LEMMA DivMonotone ==
    ASSUME NEW m \in Nat, NEW n \in Nat, m <= n, NEW c \in Nat \ {0}
    PROVE  m \div c <= n \div c
OBVIOUS

LEMMA DivStep ==
    ASSUME NEW m \in Nat, NEW n \in Nat, NEW c \in Nat \ {0}, m + c <= n
    PROVE  m \div c + 1 <= n \div c
OBVIOUS

LEMMA TimesMonotone ==
    ASSUME NEW r \in Nat, NEW m \in Nat, NEW n \in Nat, m <= n
    PROVE  r * m \in Nat /\ r * n \in Nat /\ r * m <= r * n /\ (r + 1) * n = r * n + n
OBVIOUS

LEMMA StoredFinite ==
    ASSUME TypeOK, NEW a, NEW jid, NEW t
    PROVE  /\ IsFiniteSet(StoredSince(a, jid, t))
           /\ Cardinality(StoredSince(a, jid, t)) \in Nat
<1>1. Len(tokens) \in Nat
  BY DEF TypeOK
<1>2. IsFiniteSet(1 .. Len(tokens))
  BY <1>1, FS_Interval
<1>3. StoredSince(a, jid, t) \subseteq 1 .. Len(tokens)
  BY DEF StoredSince
<1>4. IsFiniteSet(StoredSince(a, jid, t))
  BY <1>2, <1>3, FS_Subset
<1> QED  BY <1>4, FS_CardinalityType

\* The terms of the bound are numbers, and a run allows no less than was asked
\* for in it.
LEMMA BoundTypes ==
    ASSUME WebAuthAssumption, TypeOK, NEW t \in 0 .. now, NEW a, NEW jid
    PROVE  /\ PerRun(t) \in Nat /\ PerRun(t) >= 2
           /\ restarts \in Nat /\ restarts * PerRun(t) \in Nat
           /\ \A s \in 0 .. now :
                 AskedBy(s, t) \in Nat /\ AskedBy(s, t) >= 1 /\ AskedBy(s, t) <= PerRun(t)
           /\ ThisRun(a, jid, t) \in Nat
           /\ ThisRun(a, jid, t) <= PerRun(t)
<1>1. /\ now \in Nat /\ restarts \in Nat /\ Cooldown \in Nat \ {0}
      /\ t \in Nat /\ now - t \in Nat
  BY DEF WebAuthAssumption, TypeOK
<1>2. PerRun(t) \in Nat /\ PerRun(t) >= 2
  BY <1>1, DivType DEF PerRun
<1>3. restarts * PerRun(t) \in Nat
  BY <1>1, <1>2, TimesMonotone
<1>4. ASSUME NEW s \in 0 .. now
      PROVE  AskedBy(s, t) \in Nat /\ AskedBy(s, t) >= 1 /\ AskedBy(s, t) <= PerRun(t)
  <2>1. CASE s >= t
    <3>1. s - t \in Nat /\ s - t <= now - t
      BY <1>1, <2>1
    <3>2. (s - t) \div Cooldown \in Nat /\ (s - t) \div Cooldown <= (now - t) \div Cooldown
      BY <1>1, <3>1, DivType, DivMonotone
    <3>3. (now - t) \div Cooldown \in Nat
      BY <1>1, DivType
    <3> QED  BY <2>1, <3>2, <3>3 DEF AskedBy, PerRun
  <2>2. CASE ~(s >= t)
    BY <1>2, <2>2 DEF AskedBy
  <2> QED  BY <2>1, <2>2
<1>5. rateKey(a, jid) \in DOMAIN lastSent => lastSent[rateKey(a, jid)] \in 0 .. now
  BY DEF TypeOK
<1>6. ThisRun(a, jid, t) \in Nat /\ ThisRun(a, jid, t) <= PerRun(t)
  BY <1>2, <1>4, <1>5 DEF ThisRun
<1> QED  BY <1>1, <1>2, <1>3, <1>4, <1>6

LEMMA RateInit == ASSUME Init PROVE RateInv
<1>1. StoredInTime /\ AskRecorded
  BY IdleType DEF Init, StoredInTime, AskRecorded
<1>2. ASSUME NEW a, NEW jid, NEW t
      PROVE  Cardinality(StoredSince(a, jid, t)) = 0 /\ ThisRun(a, jid, t) = 0
  <2>1. StoredSince(a, jid, t) = {}
    BY DEF Init, StoredSince
  <2> QED  BY <2>1, FS_EmptySet DEF Init, ThisRun
<1>3. ASSUME NEW t \in 0 .. now PROVE restarts * PerRun(t) = 0
  <2>1. \A n : n \in Nat => 0 * n = 0
    OBVIOUS
  <2>2. now = 0 /\ t = 0 /\ restarts = 0
    BY DEF Init
  <2>3. (now - t) \div Cooldown \in Nat
    BY <2>2, DivType, WebAuthAssumption DEF WebAuthAssumption
  <2> QED  BY <2>1, <2>2, <2>3 DEF PerRun
<1>4. CountBounded
  BY <1>2, <1>3 DEF CountBounded
<1> QED  BY <1>1, <1>4 DEF RateInv

\* A step that stores no link and records no request keeps the bound; a request
\* that is dropped lowers what is still to come.
LEMMA RateKept ==
    ASSUME WebAuthAssumption, IInv, RateInv,
           UNCHANGED <<now, lastSent, restarts>>,
           Len(tokens') = Len(tokens),
           \A l \in 1 .. Len(tokens) :
              /\ tokens'[l].account = tokens[l].account
              /\ tokens'[l].jid = tokens[l].jid
              /\ tokens'[l].expires = tokens[l].expires,
           \A a \in Accounts : chat'[a].pc = "store" => chat'[a] = chat[a]
    PROVE  RateInv'
<1>1. StoredInTime'
  BY DEF RateInv, StoredInTime
<1>2. AskRecorded'
  BY DEF RateInv, AskRecorded, rateKey
<1>3. CountBounded'
  <2> SUFFICES ASSUME NEW a \in Accounts, NEW jid \in Admins, NEW t \in 0 .. now
               PROVE  Cardinality(StoredSince(a, jid, t)') <= restarts * PerRun(t)
                                                               + ThisRun(a, jid, t)'
    BY DEF CountBounded, PerRun
  <2>1. StoredSince(a, jid, t)' = StoredSince(a, jid, t)
    BY DEF StoredSince
  <2>2. Cardinality(StoredSince(a, jid, t)) <= restarts * PerRun(t) + ThisRun(a, jid, t)
    BY DEF RateInv, CountBounded
  <2>3. /\ restarts * PerRun(t) \in Nat
        /\ Cardinality(StoredSince(a, jid, t)) \in Nat
        /\ ThisRun(a, jid, t) \in Nat
        /\ \A s \in 0 .. now : AskedBy(s, t) \in Nat
    BY BoundTypes, StoredFinite DEF IInv
  <2>4. Asking(a, jid)' => Asking(a, jid)
    BY DEF Asking
  <2>5. rateKey(a, jid) \in DOMAIN lastSent => lastSent[rateKey(a, jid)] \in 0 .. now
    BY DEF IInv, TypeOK
  <2>6. ThisRun(a, jid, t)' \in Nat /\ ThisRun(a, jid, t)' >= ThisRun(a, jid, t)
    <3>1. rateKey(a, jid)' = rateKey(a, jid) /\ lastSent' = lastSent
      BY DEF rateKey
    <3> DEFINE k == rateKey(a, jid)
               n == AskedBy(lastSent[k], t)
    <3>2. ThisRun(a, jid, t)' = IF k \notin DOMAIN lastSent
                                THEN 0 ELSE n - IF Asking(a, jid)' THEN 1 ELSE 0
      BY <3>1 DEF ThisRun
    <3>3. ThisRun(a, jid, t) = IF k \notin DOMAIN lastSent
                               THEN 0 ELSE n - IF Asking(a, jid) THEN 1 ELSE 0
      BY DEF ThisRun
    <3>4. k \in DOMAIN lastSent => n \in Nat
      BY <2>3, <2>5
    <3> HIDE DEF k, n
    <3> QED  BY <2>3, <2>4, <3>2, <3>3, <3>4
  <2> QED  BY <2>1, <2>2, <2>3, <2>6
<1> QED  BY <1>1, <1>2, <1>3 DEF RateInv

\* Time only adds to what a run may have been given.
LEMMA RateAdvance == ASSUME WebAuthAssumption, IInv, RateInv, Advance PROVE RateInv'
<1>1. UNCHANGED <<tokens, lastSent, chat, restarts>> /\ now' = now + 1
  BY DEF Advance, tables
<1>2. now \in Nat /\ LinkTTL \in Nat /\ Cooldown \in Nat \ {0} /\ Len(tokens) \in Nat
  BY DEF IInv, TypeOK, WebAuthAssumption
<1>3. \A l \in 1 .. Len(tokens) : tokens[l] \in Token
  BY DEF IInv, TypeOK
<1>4. StoredInTime'
  <2> SUFFICES ASSUME NEW l \in 1 .. Len(tokens)
               PROVE  tokens[l].expires \in LinkTTL .. now + 1 + LinkTTL
    BY <1>1 DEF StoredInTime
  <2>1. tokens[l].expires \in LinkTTL .. now + LinkTTL
    BY <1>3 DEF RateInv, StoredInTime, Token
  <2> QED  BY <1>2, <2>1
<1>5. AskRecorded'
  BY <1>1 DEF RateInv, AskRecorded, rateKey
<1>6. CountBounded'
  <2> SUFFICES ASSUME NEW a \in Accounts, NEW jid \in Admins, NEW t \in 0 .. now + 1
               PROVE  Cardinality(StoredSince(a, jid, t)') <= restarts * PerRun(t)'
                                                               + ThisRun(a, jid, t)'
    BY <1>1 DEF CountBounded
  <2>1. StoredSince(a, jid, t)' = StoredSince(a, jid, t)
    BY <1>1 DEF StoredSince
  <2>2. ThisRun(a, jid, t)' = ThisRun(a, jid, t)
    BY <1>1 DEF ThisRun, Asking, AskedBy, rateKey
  <2>3. PerRun(t)' = (now + 1 - t) \div Cooldown + 2
    BY <1>1, <1>2 DEF PerRun
  <2>4. CASE t \in 0 .. now
    <3>1. Cardinality(StoredSince(a, jid, t)) <= restarts * PerRun(t) + ThisRun(a, jid, t)
      BY <2>4 DEF RateInv, CountBounded
    <3>2. /\ restarts \in Nat /\ PerRun(t) \in Nat /\ restarts * PerRun(t) \in Nat
          /\ Cardinality(StoredSince(a, jid, t)) \in Nat
          /\ ThisRun(a, jid, t) \in Nat
      BY <2>4, BoundTypes, StoredFinite DEF IInv
    <3>3. PerRun(t)' \in Nat /\ PerRun(t) <= PerRun(t)'
      <4>1. now - t \in Nat /\ now + 1 - t \in Nat /\ now - t <= now + 1 - t
        BY <1>2, <2>4
      <4>2. /\ (now - t) \div Cooldown \in Nat /\ (now + 1 - t) \div Cooldown \in Nat
            /\ (now - t) \div Cooldown <= (now + 1 - t) \div Cooldown
        BY <1>2, <4>1, DivType, DivMonotone
      <4> QED  BY <2>3, <4>2 DEF PerRun
    <3>4. restarts * PerRun(t)' \in Nat /\ restarts * PerRun(t) <= restarts * PerRun(t)'
      BY <3>2, <3>3, TimesMonotone
    <3> QED  BY <2>1, <2>2, <3>1, <3>2, <3>4
  <2>5. CASE t = now + 1
    <3>1. StoredSince(a, jid, t) = {}
      <4> SUFFICES ASSUME NEW l \in 1 .. Len(tokens) PROVE ~(tokens[l].expires >= t + LinkTTL)
        BY DEF StoredSince
      <4>1. tokens[l].expires \in Nat /\ tokens[l].expires <= now + LinkTTL
        BY <1>3 DEF RateInv, StoredInTime, Token
      <4> QED  BY <1>2, <2>5, <4>1
    <3>2. restarts * PerRun(t)' \in Nat
      <4>1. now + 1 - t \in Nat
        BY <1>2, <2>5
      <4>2. PerRun(t)' \in Nat
        BY <1>2, <2>3, <4>1, DivType
      <4> QED  BY <4>2, TimesMonotone DEF IInv, TypeOK
    <3>3. ThisRun(a, jid, t) \in Nat
      <4>1. rateKey(a, jid) \in DOMAIN lastSent => lastSent[rateKey(a, jid)] \in 0 .. now
        BY DEF IInv, TypeOK
      <4>2. rateKey(a, jid) \in DOMAIN lastSent => AskedBy(lastSent[rateKey(a, jid)], t) = 1
        BY <1>2, <2>5, <4>1 DEF AskedBy
      <4> QED  BY <4>2 DEF ThisRun
    <3>4. Cardinality(StoredSince(a, jid, t)) = 0
      BY <3>1, FS_EmptySet
    <3> QED  BY <2>1, <2>2, <3>2, <3>3, <3>4
  <2> QED  BY <1>2, <2>4, <2>5
<1> QED  BY <1>4, <1>5, <1>6 DEF RateInv

\* A request comes a cooldown after the one before, which makes room for its link.
LEMMA RateAskLink ==
    ASSUME WebAuthAssumption, IInv, RateInv, NEW b \in Accounts, NEW j \in Admins, AskLink(b, j)
    PROVE  RateInv'
<1> DEFINE k == rateKey(b, j)
<1>1. /\ UNCHANGED <<now, tokens, restarts>>
      /\ DOMAIN lastSent' = DOMAIN lastSent \cup {k} /\ lastSent'[k] = now
      /\ \A i \in DOMAIN lastSent \ {k} : lastSent'[i] = lastSent[i]
  BY DEF AskLink, tables
<1>2. /\ chat \in [Accounts -> ChatLocals] /\ chat[b] = Idle
      /\ chat'[b].pc = "store" /\ chat'[b].jid = j
      /\ \A a \in Accounts \ {b} : chat'[a] = chat[a]
  BY DEF IInv, TypeOK, AskLink
<1>3. StoredInTime'
  BY <1>1 DEF RateInv, StoredInTime
<1>4. AskRecorded'
  BY <1>1, <1>2 DEF RateInv, AskRecorded, rateKey
<1>5. CountBounded'
  <2> SUFFICES ASSUME NEW a \in Accounts, NEW jid \in Admins, NEW t \in 0 .. now
               PROVE  Cardinality(StoredSince(a, jid, t)') <= restarts * PerRun(t)
                                                               + ThisRun(a, jid, t)'
    BY <1>1 DEF CountBounded, PerRun
  <2>1. StoredSince(a, jid, t)' = StoredSince(a, jid, t)
    BY <1>1 DEF StoredSince
  <2>2. Cardinality(StoredSince(a, jid, t)) <= restarts * PerRun(t) + ThisRun(a, jid, t)
    BY DEF RateInv, CountBounded
  <2>3. /\ restarts * PerRun(t) \in Nat
        /\ Cardinality(StoredSince(a, jid, t)) \in Nat
        /\ ThisRun(a, jid, t) \in Nat
        /\ PerRun(t) \in Nat
    BY BoundTypes, StoredFinite DEF IInv
  <2>4. CASE a = b /\ jid = j
    <3>1. now \in Nat /\ now - t \in Nat /\ Cooldown \in Nat \ {0}
      BY DEF IInv, TypeOK, WebAuthAssumption
    <3>2. (now - t) \div Cooldown \in Nat
      BY <3>1, DivType
    <3>3. ThisRun(a, jid, t)' = (now - t) \div Cooldown + 1
      <4>1. ThisRun(a, jid, t)' = AskedBy(now, t) - 1
        BY <1>1, <1>2, <2>4 DEF ThisRun, Asking, AskedBy, rateKey
      <4>2. AskedBy(now, t) = (now - t) \div Cooldown + 2
        BY <3>1 DEF AskedBy
      <4> QED  BY <3>2, <4>1, <4>2
    <3>4. ThisRun(a, jid, t) <= (now - t) \div Cooldown + 1
      <4>1. CASE k \notin DOMAIN lastSent
        BY <2>4, <3>2, <4>1 DEF ThisRun
      <4>2. CASE k \in DOMAIN lastSent
        <5> DEFINE s == lastSent[k]
        <5>1. s \in 0 .. now /\ now - s >= Cooldown
          BY <4>2 DEF IInv, TypeOK, AskLink, CooldownOver
        <5>2. ThisRun(a, jid, t) = AskedBy(s, t)
          <6>1. ~Asking(a, jid)
            BY <1>2, <2>4 DEF Asking, Idle
          <6> QED  BY <2>3, <2>4, <4>2, <6>1, <5>1, BoundTypes DEF ThisRun, IInv
        <5> HIDE DEF s
        <5>3. CASE s >= t
          <6>1. s - t \in Nat /\ (s - t) + Cooldown <= now - t
            BY <3>1, <5>1, <5>3
          <6>2. (s - t) \div Cooldown + 1 <= (now - t) \div Cooldown
            BY <3>1, <6>1, DivStep
          <6>3. (s - t) \div Cooldown \in Nat
            BY <3>1, <6>1, DivType
          <6>4. AskedBy(s, t) = (s - t) \div Cooldown + 2
            BY <5>3 DEF AskedBy
          <6> QED  BY <3>2, <5>2, <6>2, <6>3, <6>4
        <5>4. CASE ~(s >= t)
          BY <3>2, <5>2, <5>4 DEF AskedBy
        <5> QED  BY <5>3, <5>4
      <4> QED  BY <4>1, <4>2
    <3> QED  BY <2>1, <2>2, <2>3, <3>2, <3>3, <3>4
  <2>5. CASE ~(a = b /\ jid = j)
    <3>1. Asking(a, jid)' <=> Asking(a, jid)
      BY <1>2, <2>5 DEF Asking, Idle
    <3>2. rateKey(a, jid) # k /\ rateKey(a, jid)' = rateKey(a, jid)
      BY <2>5 DEF rateKey
    <3>3. ThisRun(a, jid, t)' = ThisRun(a, jid, t)
      BY <1>1, <3>1, <3>2 DEF ThisRun, AskedBy
    <3> QED  BY <2>1, <2>2, <3>3
  <2> QED  BY <2>4, <2>5
<1> QED  BY <1>3, <1>4, <1>5 DEF RateInv

\* The link that is stored was allowed for when it was asked for.
LEMMA RateStored ==
    ASSUME WebAuthAssumption, IInv, RateInv, NEW b \in Accounts, CreateWebToken(b),
           Len(tokens) < MaxLinks /\ Stored(b) /\ Sending(b)
    PROVE  RateInv'
<1> DEFINE j == chat[b].jid
           n == Len(tokens) + 1
<1>1. /\ UNCHANGED <<now, lastSent, restarts>>
      /\ Len(tokens) \in Nat /\ Len(tokens') = n
      /\ \A l \in 1 .. Len(tokens) : tokens'[l] = tokens[l]
      /\ tokens'[n].account = b /\ tokens'[n].jid = j /\ tokens'[n].expires = now + LinkTTL
  BY DEF IInv, TypeOK, CreateWebToken, Stored
<1>2. /\ chat[b].pc = "store" /\ j \in Admins
      /\ chat'[b].pc = "send"
      /\ \A a \in Accounts \ {b} : chat'[a] = chat[a]
  BY ChatType DEF IInv, TypeOK, CreateWebToken, Sending
<1>3. now \in Nat /\ LinkTTL \in Nat
  BY DEF IInv, TypeOK, WebAuthAssumption
<1> HIDE DEF j
<1>4. StoredInTime'
  <2> SUFFICES ASSUME NEW l \in 1 .. n PROVE tokens'[l].expires \in LinkTTL .. now + LinkTTL
    BY <1>1 DEF StoredInTime
  <2>1. l \in 1 .. Len(tokens) \/ l = n
    BY <1>1
  <2> QED  BY <1>1, <1>3, <2>1 DEF RateInv, StoredInTime
<1>5. AskRecorded'
  BY <1>1, <1>2 DEF RateInv, AskRecorded, rateKey
<1>6. CountBounded'
  <2> SUFFICES ASSUME NEW a \in Accounts, NEW jid \in Admins, NEW t \in 0 .. now
               PROVE  Cardinality(StoredSince(a, jid, t)') <= restarts * PerRun(t)
                                                               + ThisRun(a, jid, t)'
    BY <1>1 DEF CountBounded, PerRun
  <2> DEFINE S == StoredSince(a, jid, t)
  <2>1. Cardinality(S) <= restarts * PerRun(t) + ThisRun(a, jid, t)
    BY DEF RateInv, CountBounded
  <2>2. /\ restarts * PerRun(t) \in Nat
        /\ IsFiniteSet(S) /\ Cardinality(S) \in Nat
        /\ ThisRun(a, jid, t) \in Nat
        /\ \A s \in 0 .. now : AskedBy(s, t) \in Nat /\ AskedBy(s, t) >= 1
    BY BoundTypes, StoredFinite DEF IInv
  <2>3. rateKey(a, jid)' = rateKey(a, jid)
    BY DEF rateKey
  <2>4. CASE a = b /\ jid = j
    <3>1. S' = S \cup {n}
      <4>1. \A l : l \in 1 .. n <=> l \in 1 .. Len(tokens) \/ l = n
        BY <1>1
      <4>2. tokens'[n].expires >= t + LinkTTL
        BY <1>1, <1>3
      <4> QED  BY <1>1, <2>4, <4>1, <4>2 DEF StoredSince
    <3>2. n \notin S
      BY <1>1 DEF StoredSince
    <3>3. Cardinality(S') = Cardinality(S) + 1
      BY <2>2, <3>1, <3>2, FS_AddElement
    <3>4. ThisRun(a, jid, t)' = ThisRun(a, jid, t) + 1
      <4>1. rateKey(a, jid) \in DOMAIN lastSent
        BY <1>2, <2>4 DEF RateInv, AskRecorded, j
      <4>2. lastSent[rateKey(a, jid)] \in 0 .. now
        BY <4>1 DEF IInv, TypeOK
      <4>3. Asking(a, jid) /\ ~Asking(a, jid)'
        BY <1>2, <2>4 DEF Asking, j
      <4> DEFINE m == AskedBy(lastSent[rateKey(a, jid)], t)
      <4>4. m \in Nat
        BY <2>2, <4>2
      <4>5. ThisRun(a, jid, t) = m - 1
        BY <4>1, <4>3 DEF ThisRun
      <4>6. ThisRun(a, jid, t)' = m - 0
        BY <1>1, <2>3, <4>1, <4>3 DEF ThisRun, AskedBy
      <4> HIDE DEF m
      <4> QED  BY <4>4, <4>5, <4>6
    <3> QED  BY <2>1, <2>2, <3>3, <3>4
  <2>5. CASE ~(a = b /\ jid = j)
    <3>1. S' = S
      <4>1. \A l : l \in 1 .. n <=> l \in 1 .. Len(tokens) \/ l = n
        BY <1>1
      <4> QED  BY <1>1, <2>5, <4>1 DEF StoredSince
    <3>2. Asking(a, jid)' <=> Asking(a, jid)
      BY <1>2, <2>5 DEF Asking, j
    <3>3. ThisRun(a, jid, t)' = ThisRun(a, jid, t)
      BY <1>1, <2>3, <3>2 DEF ThisRun, AskedBy
    <3> QED  BY <2>1, <3>1, <3>3
  <2> QED  BY <2>4, <2>5
<1> QED  BY <1>4, <1>5, <1>6 DEF RateInv

\* What a run has given is at most what any run may give.
LEMMA RateRestart == ASSUME WebAuthAssumption, IInv, RateInv, Restart PROVE RateInv'
<1>1. /\ UNCHANGED <<now, tokens>> /\ DOMAIN lastSent' = {} /\ restarts' = restarts + 1
      /\ \A a \in Accounts : chat'[a].pc = "idle"
  BY DEF Restart, tables, Idle
<1>2. StoredInTime' /\ AskRecorded'
  BY <1>1 DEF RateInv, StoredInTime, AskRecorded
<1>3. CountBounded'
  <2> SUFFICES ASSUME NEW a \in Accounts, NEW jid \in Admins, NEW t \in 0 .. now
               PROVE  Cardinality(StoredSince(a, jid, t)') <= (restarts + 1) * PerRun(t)
                                                               + ThisRun(a, jid, t)'
    BY <1>1 DEF CountBounded, PerRun
  <2>1. StoredSince(a, jid, t)' = StoredSince(a, jid, t)
    BY <1>1 DEF StoredSince
  <2>2. ThisRun(a, jid, t)' = 0
    BY <1>1 DEF ThisRun
  <2>3. Cardinality(StoredSince(a, jid, t)) <= restarts * PerRun(t) + ThisRun(a, jid, t)
    BY DEF RateInv, CountBounded
  <2>4. /\ restarts \in Nat /\ PerRun(t) \in Nat /\ restarts * PerRun(t) \in Nat
        /\ Cardinality(StoredSince(a, jid, t)) \in Nat
        /\ ThisRun(a, jid, t) \in Nat /\ ThisRun(a, jid, t) <= PerRun(t)
    BY BoundTypes, StoredFinite DEF IInv
  <2>5. (restarts + 1) * PerRun(t) = restarts * PerRun(t) + PerRun(t)
    BY <2>4, TimesMonotone
  <2> QED  BY <2>1, <2>2, <2>3, <2>4, <2>5
<1> QED  BY <1>2, <1>3 DEF RateInv

LEMMA RateConsume ==
    ASSUME WebAuthAssumption, IInv, RateInv, NEW r \in Requests, NEW b \in Browsers,
           NEW k \in Links, ConsumeWebToken(r, b, k)
    PROVE  RateInv'
<1>1. tokens \in Seq(Token) /\ k \in 1 .. Len(tokens) /\ tokens[k] \in Token
  BY DEF IInv, TypeOK, ConsumeWebToken
<1>2. tokens' = [tokens EXCEPT ![k] = [tokens[k] EXCEPT !.used = TRUE]]
  BY DEF ConsumeWebToken
<1>3. /\ [tokens[k] EXCEPT !.used = TRUE].account = tokens[k].account
      /\ [tokens[k] EXCEPT !.used = TRUE].jid = tokens[k].jid
      /\ [tokens[k] EXCEPT !.used = TRUE].expires = tokens[k].expires
  BY <1>1 DEF Token
<1>4. /\ Len(tokens') = Len(tokens)
      /\ \A l \in 1 .. Len(tokens) :
            /\ tokens'[l].account = tokens[l].account
            /\ tokens'[l].jid = tokens[l].jid
            /\ tokens'[l].expires = tokens[l].expires
  BY <1>1, <1>2, <1>3
<1> QED  BY <1>4, RateKept DEF ConsumeWebToken

LEMMA RateNext == ASSUME WebAuthAssumption, IInv, RateInv, [Next]_vars PROVE RateInv'
<1>1. ASSUME UNCHANGED <<now, tokens, lastSent, restarts>>,
             \A a \in Accounts : chat'[a].pc = "store" => chat'[a] = chat[a]
      PROVE  RateInv'
  BY <1>1, RateKept
<1>2. CASE UNCHANGED vars
  BY <1>1, <1>2 DEF vars
<1>3. ASSUME NEW a \in Accounts, ChatStep(a) PROVE RateInv'
  <2>1. ASSUME NEW jid \in Admins, AskLink(a, jid) PROVE RateInv'
    BY <2>1, RateAskLink
  <2>2. CASE CreateWebToken(a)
    <3>1. CASE tokens' = tokens /\ chat' = [chat EXCEPT ![a] = Idle]
      BY <1>1, <2>2, <3>1, IdleType DEF IInv, TypeOK, CreateWebToken
    <3> QED  BY <2>2, <3>1, RateStored DEF CreateWebToken
  <2>3. CASE SendLink(a)
    BY <1>1, <2>3, IdleType DEF IInv, TypeOK, SendLink, tables
  <2> QED  BY <1>3, <2>1, <2>2, <2>3 DEF ChatStep
<1>4. ASSUME NEW r \in Requests, RequestStep(r) PROVE RateInv'
  <2>1. ASSUME NEW b \in Browsers, NEW l \in Links, ConsumeWebToken(r, b, l) PROVE RateInv'
    BY <2>1, RateConsume
  <2>2. CASE CreateWebSession(r) \/ Logout(r)
    BY <1>1, <2>2 DEF CreateWebSession, Logout
  <2>3. CASE Answer(r) \/ Serve(r) \/ \E b \in Browsers, a \in Accounts : RequireSession(r, b, a)
    BY <1>1, <2>3 DEF Answer, Serve, RequireSession, tables
  <2> QED  BY <1>4, <2>1, <2>2, <2>3 DEF RequestStep
<1> QED  BY <1>2, <1>3, <1>4, RateAdvance, RateRestart DEF Next

\* A link that is good was stored within one lifetime.
LEMMA FewAreLive == ASSUME WebAuthAssumption, IInv, RateInv PROVE LiveLinksBounded
<1> SUFFICES ASSUME NEW a \in Accounts, NEW jid \in Admins
             PROVE  Cardinality(LiveLinks(a, jid))
                        <= (restarts + 1) * (LinkTTL \div Cooldown + 2)
  BY DEF LiveLinksBounded
<1> DEFINE t == IF now >= LinkTTL THEN now - LinkTTL ELSE 0
           K == LinkTTL \div Cooldown + 2
<1>1. /\ now \in Nat /\ LinkTTL \in Nat /\ Cooldown \in Nat \ {0}
      /\ t \in 0 .. now /\ now - t \in Nat /\ now - t <= LinkTTL /\ now <= t + LinkTTL
  BY DEF IInv, TypeOK, WebAuthAssumption
<1>2. LiveLinks(a, jid) \subseteq StoredSince(a, jid, t)
  <2> SUFFICES ASSUME NEW l \in LiveLinks(a, jid) PROVE tokens[l].expires >= t + LinkTTL
    BY DEF LiveLinks, StoredSince
  <2>1. tokens[l].expires \in LinkTTL .. now + LinkTTL /\ now <= tokens[l].expires
    BY DEF LiveLinks, Good, RateInv, StoredInTime
  <2> QED  BY <1>1, <2>1
<1> HIDE DEF t
<1>3. /\ Cardinality(LiveLinks(a, jid)) \in Nat
      /\ Cardinality(LiveLinks(a, jid)) <= Cardinality(StoredSince(a, jid, t))
  <2>1. IsFiniteSet(StoredSince(a, jid, t))
    BY StoredFinite DEF IInv
  <2> QED  BY <1>2, <2>1, FS_Subset, FS_CardinalityType
<1>4. Cardinality(StoredSince(a, jid, t)) <= restarts * PerRun(t) + ThisRun(a, jid, t)
  BY <1>1 DEF RateInv, CountBounded
<1>5. /\ restarts \in Nat /\ PerRun(t) \in Nat /\ restarts * PerRun(t) \in Nat
      /\ Cardinality(StoredSince(a, jid, t)) \in Nat
      /\ ThisRun(a, jid, t) \in Nat /\ ThisRun(a, jid, t) <= PerRun(t)
  BY <1>1, BoundTypes, StoredFinite DEF IInv
<1>6. K \in Nat /\ PerRun(t) <= K
  <2>1. /\ (now - t) \div Cooldown <= LinkTTL \div Cooldown
        /\ (now - t) \div Cooldown \in Nat /\ LinkTTL \div Cooldown \in Nat
    BY <1>1, DivMonotone, DivType
  <2> QED  BY <2>1 DEF PerRun
<1> HIDE DEF K
<1>7. /\ restarts * K \in Nat /\ restarts * PerRun(t) <= restarts * K
      /\ (restarts + 1) * K = restarts * K + K
  BY <1>5, <1>6, TimesMonotone
<1>8. Cardinality(LiveLinks(a, jid)) <= (restarts + 1) * K
  BY <1>3, <1>4, <1>5, <1>6, <1>7
<1> QED  BY <1>8 DEF K

\* The cooldown bounds how many links of one admin are good at once, per run of
\* the process, for any cooldown, lifetime and number of restarts, and although a
\* link may be stored long after it was asked for.
THEOREM FewLinksAreLive == Spec => []LiveLinksBounded
<1>1. Init => RateInv
  BY RateInit
<1>2. IInv /\ RateInv /\ [Next]_vars => RateInv'
  BY RateNext, WebAuthAssumption
<1>3. IInv /\ RateInv => LiveLinksBounded
  BY FewAreLive, WebAuthAssumption
<1> QED  BY <1>1, <1>2, <1>3, Invariance, PTL DEF Spec
=============================================================================
