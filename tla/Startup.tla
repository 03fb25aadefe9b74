------------------------------- MODULE Startup -------------------------------
(***************************************************************************)
(* How a run of the program finds its accounts and their files:            *)
(* accounts/resolve.go, main.go, pair.go.  A server start resolves         *)
(* WA_ACCOUNTS, moves the files of an old single-account install into      *)
(* data/default file by file, then opens each account.  `pm-wa pair' is a  *)
(* process of its own that may run at any time.  Each of the two may die   *)
(* at any point.                                                           *)
(***************************************************************************)
EXTENDS Naturals, Sequences, SequencesExt

CONSTANTS
    Accounts,      \* valid account names, "default" among them
    Declarations,  \* values of WA_ACCOUNTS, split at the commas
    MaxRuns        \* bound: processes started

ASSUME StartupAssumption ==
    /\ "default" \in Accounts
    /\ Declarations \subseteq Seq(STRING)
    /\ MaxRuns \in Nat

AppDB == "pm-wa.db"
SessionDB == "wa-session.db"

\* Mutant: a sidecar is left out.
LegacyFilesButOne ==
    <<AppDB, "pm-wa.db-wal", "pm-wa.db-shm", SessionDB, "wa-session.db-shm">>

legacyFiles ==
    <<AppDB, "pm-wa.db-wal", "pm-wa.db-shm",
      SessionDB, "wa-session.db-wal", "wa-session.db-shm">>

Files == {AppDB, "pm-wa.db-wal", "pm-wa.db-shm",
          SessionDB, "wa-session.db-wal", "wa-session.db-shm"}

VARIABLES
    root,       \* the legacy files that are still at the root
    dirs,       \* the accounts a with a directory data/a
    data,       \* what the files of each data/a hold
    server,     \* how far the server process has come
    pair,       \* how far the process `pm-wa pair' has come
    runs,
    had,        \* history: the files of the old install
    paired,     \* history: accounts linked and not given up for a new pairing since
    forgotten,  \* history: accounts whose session was discarded, as confirmed
    cutOff,     \* history: a server start ended between the moves
    early,      \* history: pair made data/default while the old files were at the root
    overlapped  \* history: pair ran while a server start had moves to do

disk    == <<root, dirs, data>>
history == <<had, paired, forgotten, cutOff, early, overlapped>>
vars    == <<root, dirs, data, server, pair, runs,
             had, paired, forgotten, cutOff, early, overlapped>>

\* "old": from the old install (a sidecar stays "old" when its database has taken
\* it in).  "linked" and "unlinked": a session store with a device and without.
Contents == {"none", "old", "own", "linked", "unlinked"}

Off == [pc |-> "off"]

ServerLocals ==
    {Off} \cup [pc : {"mkdir", "move", "dir", "db", "session", "serve"}, plan : SUBSET (1 .. 6),
                todo : Seq(Accounts), single : BOOLEAN, serving : SUBSET Accounts]

PairLocals ==
    {Off} \cup [pc : {"dir", "session", "confirm", "reopen", "link"}, account : Accounts,
                onDisk : BOOLEAN]

TypeOK ==
    /\ root \subseteq had /\ had \subseteq Files
    /\ dirs \subseteq Accounts
    /\ data \in [Accounts -> [Files -> Contents]]
    /\ \A a \in Accounts \ dirs, f \in Files : data[a][f] = "none"
    /\ server \in ServerLocals
    /\ pair \in PairLocals
    /\ runs \in 0 .. MaxRuns
    /\ paired \subseteq Accounts /\ forgotten \subseteq Accounts
    /\ cutOff \in BOOLEAN /\ early \in BOOLEAN /\ overlapped \in BOOLEAN

\* The old install: none, or one that was stopped in order, or one that was not.
Init ==
    /\ had \in {{}, {AppDB, SessionDB}, Files}
    /\ root = had
    /\ dirs = {}
    /\ data = [a \in Accounts |-> [f \in Files |-> "none"]]
    /\ server = Off /\ pair = Off
    /\ runs = 0
    /\ paired = {} /\ forgotten = {}
    /\ cutOff = FALSE /\ early = FALSE /\ overlapped = FALSE

NewRun == runs < MaxRuns /\ runs' = runs + 1

-----------------------------------------------------------------------------
\* accounts.Resolve.
Parses(names) == (\A i \in 1 .. Len(names) : names[i] \in Accounts) /\ IsInjective(names)

parseNames(names) == IF names = <<>> THEN <<"default">> ELSE names

\* Mutant: the default directory is not looked at.
MoveWhateverIsThere == {i \in DOMAIN legacyFiles : legacyFiles[i] \in root}

\* The plan: places in legacyFiles, to be moved in that order.
MoveToDefault ==
    IF "default" \in dirs THEN {} ELSE {i \in DOMAIN legacyFiles : legacyFiles[i] \in root}

-----------------------------------------------------------------------------
\* The server process: main, runSingle, runMulti, startAccount.
Goto(pc) == server' = [server EXCEPT !.pc = pc]

Start(names) ==
    /\ server = Off /\ NewRun
    /\ Parses(names)
    /\ LET accounts == parseNames(names)
       IN  server' = [pc |-> IF MoveToDefault = {} THEN "dir" ELSE "mkdir",
                      plan |-> MoveToDefault, todo |-> accounts,
                      single |-> Len(accounts) = 1, serving |-> {}]
    /\ overlapped' = (overlapped \/ (pair # Off /\ MoveToDefault # {}))
    /\ UNCHANGED <<disk, pair, had, paired, forgotten, cutOff, early>>

\* Mutant: MkdirAll is forgotten.
MakeNoDir ==
    /\ server.pc = "mkdir"
    /\ Goto("move")
    /\ UNCHANGED <<disk, pair, runs, history>>

\* accounts.Apply
MakeDefaultDir ==
    /\ server.pc = "mkdir"
    /\ dirs' = dirs \cup {"default"}
    /\ Goto("move")
    /\ UNCHANGED <<root, data, pair, runs, history>>

\* A process that has the replaced file open goes on writing to what is no file
\* any more.
MoveFile ==
    /\ server.pc = "move"
    /\ \E i \in server.plan :
          LET f == legacyFiles[i]
              rest == server.plan \ {i}
          IN  /\ \A j \in rest : i < j
              /\ root' = root \ {f}
              /\ data' = [data EXCEPT !["default"][f] = "old"]
              /\ server' = [server EXCEPT !.plan = rest,
                                          !.pc = IF rest = {} THEN "dir" ELSE "move"]
              /\ pair' = IF f = SessionDB /\ pair.pc \in {"confirm", "link"}
                            /\ pair.account = "default"
                         THEN [pair EXCEPT !.onDisk = FALSE] ELSE pair
    /\ UNCHANGED <<dirs, runs, history>>

Account == Head(server.todo)

EnsureDir ==
    /\ server.pc = "dir" /\ server.todo # <<>>
    /\ dirs' = dirs \cup {Account}
    /\ Goto("db")
    /\ UNCHANGED <<root, data, pair, runs, history>>

\* What opening a database makes of a missing file
Opened(content, new) == IF content = "none" THEN new ELSE content

OpenAppDB ==
    /\ server.pc = "db"
    /\ data' = [data EXCEPT ![Account][AppDB] = Opened(@, "own")]
    /\ Goto("session")
    /\ UNCHANGED <<root, dirs, pair, runs, history>>

HasDevice(a) == data[a][SessionDB] \in {"old", "linked"}

Serve(s) ==
    LET rest == Tail(server.todo)
    IN  server' = IF rest = <<>> /\ s = {} THEN Off
                  ELSE [server EXCEPT !.todo = rest, !.serving = s,
                                      !.pc = IF rest = <<>> THEN "serve" ELSE "dir"]

\* NewClient; an account without a device is skipped in multi-account mode.
OpenSession ==
    /\ server.pc = "session"
    /\ data' = [data EXCEPT ![Account][SessionDB] = Opened(@, "unlinked")]
    /\ Serve(IF server.single \/ HasDevice(Account) THEN server.serving \cup {Account}
             ELSE server.serving)
    /\ UNCHANGED <<root, dirs, pair, runs, history>>

\* The QR code that a single account shows at its start is scanned.
LinkAtStart ==
    /\ server.pc = "serve" /\ server.single
    /\ \E a \in server.serving :
          /\ data[a][SessionDB] = "unlinked"
          /\ data' = [data EXCEPT ![a][SessionDB] = "linked"]
          /\ paired' = paired \cup {a}
    /\ UNCHANGED <<root, dirs, server, pair, runs, had, forgotten, cutOff, early, overlapped>>

\* One of several accounts fails to open, and is left out.
SkipAccount ==
    /\ server.pc \in {"dir", "db", "session"} /\ server.todo # <<>>
    /\ ~server.single
    /\ Serve(server.serving)
    /\ UNCHANGED <<disk, pair, runs, history>>

\* A signal, a crash, or an error that ends the process.
Exit ==
    /\ server # Off /\ server' = Off
    /\ cutOff' = (cutOff \/ server.pc = "move")
    /\ UNCHANGED <<disk, pair, runs, had, paired, forgotten, early, overlapped>>

-----------------------------------------------------------------------------
\* pm-wa pair a
RunPair(names, a) ==
    /\ pair = Off /\ NewRun
    /\ Parses(names) /\ \E i \in 1 .. Len(parseNames(names)) : parseNames(names)[i] = a
    /\ pair' = [pc |-> "dir", account |-> a, onDisk |-> TRUE]
    /\ overlapped' = (overlapped \/ server.pc \in {"mkdir", "move"})
    /\ UNCHANGED <<disk, server, had, paired, forgotten, cutOff, early>>

PairEnsureDir ==
    /\ pair.pc = "dir"
    /\ dirs' = dirs \cup {pair.account}
    /\ early' = (early \/ (pair.account = "default" /\ root # {} /\ "default" \notin dirs))
    /\ pair' = [pair EXCEPT !.pc = "session"]
    /\ UNCHANGED <<root, data, server, runs, had, paired, forgotten, cutOff, overlapped>>

\* Mutant: a stored device is not asked about.
PairOpenSessionUnasked ==
    /\ pair.pc = "session"
    /\ data' = [data EXCEPT ![pair.account][SessionDB] = "unlinked"]
    /\ pair' = [pair EXCEPT !.pc = "link"]
    /\ UNCHANGED <<root, dirs, server, runs, history>>

\* NewClient; a stored device asks for a confirmation.
PairOpenSession ==
    /\ pair.pc = "session"
    /\ data' = [data EXCEPT ![pair.account][SessionDB] = Opened(@, "unlinked")]
    /\ pair' = [pair EXCEPT !.pc = IF HasDevice(pair.account) THEN "confirm" ELSE "link"]
    /\ UNCHANGED <<root, dirs, server, runs, history>>

\* What pair writes to its session store
Write(content) ==
    data' = IF pair.onDisk THEN [data EXCEPT ![pair.account][SessionDB] = content] ELSE data

\* confirmRePair and ResetSession, which closes the store
ConfirmRePair ==
    /\ pair.pc = "confirm"
    /\ Write("unlinked")
    /\ paired' = paired \ {pair.account}
    /\ forgotten' = forgotten \cup {pair.account}
    /\ pair' = [pair EXCEPT !.pc = "reopen", !.onDisk = TRUE]
    /\ UNCHANGED <<root, dirs, server, runs, had, cutOff, early, overlapped>>

\* A device that has come in since makes PairNew give up.
Reopen ==
    /\ pair.pc = "reopen"
    /\ data' = [data EXCEPT ![pair.account][SessionDB] = Opened(@, "unlinked")]
    /\ pair' = IF HasDevice(pair.account) THEN Off ELSE [pair EXCEPT !.pc = "link"]
    /\ UNCHANGED <<root, dirs, server, runs, history>>

PairNew ==
    /\ pair.pc = "link"
    /\ Write("linked")
    /\ paired' = paired \cup {pair.account}
    /\ pair' = Off
    /\ UNCHANGED <<root, dirs, server, runs, had, forgotten, cutOff, early, overlapped>>

\* Refused, timed out, cancelled, crashed
PairEnds ==
    /\ pair # Off /\ pair' = Off
    /\ UNCHANGED <<disk, server, runs, history>>

-----------------------------------------------------------------------------
ServerStep ==
    \/ \E names \in Declarations : Start(names)
    \/ MakeDefaultDir \/ MoveFile
    \/ EnsureDir \/ OpenAppDB \/ OpenSession \/ LinkAtStart \/ SkipAccount
    \/ Exit

PairStep ==
    \/ \E names \in Declarations, a \in Accounts : RunPair(names, a)
    \/ PairEnsureDir \/ PairOpenSession \/ ConfirmRePair \/ Reopen \/ PairNew \/ PairEnds

Next == ServerStep \/ PairStep

Spec == Init /\ [][Next]_vars

-----------------------------------------------------------------------------
\* Nothing of the old install is destroyed, wherever a start is cut off and
\* whatever pair does meanwhile: each file is at the root or in data/default, and
\* the old session is discarded only as confirmed.  (Files, not what SQLite makes of
\* them: a WAL at the root, its database in data/default, is of no use any more.
\* NothingLeftBehind says when that can be.)
NothingLost ==
    \A f \in had :
        \/ f \in root
        \/ data["default"][f] = "old"
        \/ f = SessionDB /\ "default" \in forgotten

\* "An account paired once reconnects automatically on later runs": its session
\* store keeps the device through later starts of any accounts and through other
\* pairings, unless pair ran while a start was moving files.
PairingSurvives == \A a \in paired : data[a][SessionDB] = "linked" \/ overlapped

\* "No manual step is needed when upgrading": once data/default is there, nothing
\* of the old install stays behind at the root, except when the start that moved
\* it was cut off, or data/default was made by pair before any start.
NothingLeftBehind ==
    "default" \in dirs /\ root # {} /\ server.pc # "move" => cutOff \/ early
=============================================================================
