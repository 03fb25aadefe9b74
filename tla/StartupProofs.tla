---------------------------- MODULE StartupProofs ----------------------------
(***************************************************************************)
(* Start-up and pairing lose nothing, for any accounts, any values of      *)
(* WA_ACCOUNTS, any number of starts and pairings, and ends at any point.  *)
(***************************************************************************)
EXTENDS Startup, TLAPS

Moving == server.pc \in {"mkdir", "move"}

\* What a server start has done by the time it has come so far
ServerOnItsWay ==
    /\ server.pc \in {"mkdir", "move", "dir", "db", "session"} => server.todo # <<>>
    /\ server.pc = "move" => "default" \in dirs
    /\ server.pc \in {"db", "session"} => Account \in dirs

\* The plan covers what is at the root; without a plan nothing is, unless
\* data/default was there.
PlanCovers ==
    /\ Moving => root \subseteq {legacyFiles[i] : i \in server.plan}
    /\ server.pc \in {"dir", "db", "session", "serve"} => root = {} \/ "default" \in dirs

\* A pairing that has the old install's store open never writes to it unasked.
PairOnItsWay ==
    /\ pair.pc \in {"session", "confirm", "reopen", "link"} => pair.account \in dirs
    /\ pair.pc = "link" /\ pair.onDisk => data[pair.account][SessionDB] # "old"

\* A start moves files only while data/default is not linked and nobody pairs.
MovesAlone ==
    /\ paired \subseteq dirs
    /\ Moving => overlapped \/ (pair = Off /\ "default" \notin paired)
    /\ pair # Off => overlapped \/ pair.onDisk

\* The inductive invariant
IInv ==
    /\ TypeOK
    /\ ServerOnItsWay
    /\ PlanCovers
    /\ PairOnItsWay
    /\ MovesAlone
    /\ NothingLost
    /\ PairingSurvives
    /\ NothingLeftBehind

USE StartupAssumption

LEMMA FilesType == AppDB \in Files /\ SessionDB \in Files /\ AppDB # SessionDB
BY DEF AppDB, SessionDB, Files

LEMMA LegacyFiles ==
    /\ DOMAIN legacyFiles = 1 .. 6
    /\ \A i \in 1 .. 6 : legacyFiles[i] \in Files
    /\ \A f \in Files : \E i \in 1 .. 6 : legacyFiles[i] = f
<1>1. DOMAIN legacyFiles = 1 .. 6
  BY DEF legacyFiles
<1>2. /\ legacyFiles[1] = AppDB /\ legacyFiles[2] = "pm-wa.db-wal"
      /\ legacyFiles[3] = "pm-wa.db-shm" /\ legacyFiles[4] = SessionDB
      /\ legacyFiles[5] = "wa-session.db-wal" /\ legacyFiles[6] = "wa-session.db-shm"
  BY DEF legacyFiles
<1>3. 1 .. 6 = {1, 2, 3, 4, 5, 6}
  OBVIOUS
<1>4. \A i \in 1 .. 6 : legacyFiles[i] \in Files
  BY <1>2, <1>3 DEF AppDB, SessionDB, Files
<1>5. \A f \in Files : \E i \in 1 .. 6 : legacyFiles[i] = f
  BY <1>2, <1>3 DEF AppDB, SessionDB, Files
<1> QED  BY <1>1, <1>4, <1>5

LEMMA OffType == Off \in ServerLocals /\ Off \in PairLocals /\ Off.pc = "off"
BY DEF Off, ServerLocals, PairLocals

LEMMA ServerType ==
    ASSUME TypeOK, server # Off
    PROVE  server \in [pc : {"mkdir", "move", "dir", "db", "session", "serve"},
                       plan : SUBSET (1 .. 6), todo : Seq(Accounts), single : BOOLEAN,
                       serving : SUBSET Accounts]
BY DEF TypeOK, ServerLocals

LEMMA PairType ==
    ASSUME TypeOK, pair # Off
    PROVE  pair \in [pc : {"dir", "session", "confirm", "reopen", "link"}, account : Accounts,
                     onDisk : BOOLEAN]
BY DEF TypeOK, PairLocals

LEMMA InitEstablishes == ASSUME Init PROVE IInv
<1>1. had \subseteq Files
  BY FilesType DEF Init
<1>2. TypeOK
  <2>1. server \in ServerLocals /\ pair \in PairLocals
    BY OffType DEF Init
  <2>2. data \in [Accounts -> [Files -> Contents]]
    BY DEF Init, Contents
  <2>3. \A a \in Accounts, f \in Files : data[a][f] = "none"
    BY DEF Init
  <2>4. runs \in 0 .. MaxRuns /\ root \subseteq had /\ dirs \subseteq Accounts
    BY DEF Init
  <2> QED  BY <1>1, <2>1, <2>2, <2>3, <2>4 DEF Init, TypeOK
<1> QED  BY <1>2, OffType DEF Init, IInv, ServerOnItsWay, PlanCovers, PairOnItsWay, MovesAlone,
                              NothingLost, PairingSurvives, NothingLeftBehind, Moving

-----------------------------------------------------------------------------
\* The server process
LEMMA StartStep == ASSUME IInv, NEW names \in Declarations, Start(names) PROVE IInv'
<1> DEFINE accounts == parseNames(names)
<1>1. accounts \in Seq(Accounts) /\ accounts # <<>>
  BY DEF parseNames, Parses, Start
<1>2. MoveToDefault \subseteq 1 .. 6
  BY LegacyFiles DEF MoveToDefault
<1>3. /\ server' = [pc |-> IF MoveToDefault = {} THEN "dir" ELSE "mkdir",
                    plan |-> MoveToDefault, todo |-> accounts,
                    single |-> Len(accounts) = 1, serving |-> {}]
      /\ server'.pc = IF MoveToDefault = {} THEN "dir" ELSE "mkdir"
      /\ server'.plan = MoveToDefault /\ server'.todo = accounts
  BY DEF Start
<1>4. (Len(accounts) = 1) \in BOOLEAN
  OBVIOUS
<1> HIDE DEF accounts
<1>5. server' \in ServerLocals
  BY <1>1, <1>2, <1>3, <1>4 DEF ServerLocals
<1>6. UNCHANGED <<root, dirs, data, pair, had, paired, forgotten, cutOff, early>>
  BY DEF Start, disk
<1>7. runs' \in 0 .. MaxRuns
  BY DEF IInv, TypeOK, Start, NewRun
<1>8. overlapped' \in BOOLEAN /\ (overlapped => overlapped')
      /\ (pair # Off /\ MoveToDefault # {} => overlapped')
  BY DEF IInv, TypeOK, Start
<1>9. TypeOK'
  BY <1>5, <1>6, <1>7, <1>8 DEF IInv, TypeOK
<1>10. root \subseteq Files
  BY DEF IInv, TypeOK
<1>11. /\ MoveToDefault # {} => "default" \notin dirs
       /\ MoveToDefault # {} => root \subseteq {legacyFiles[i] : i \in MoveToDefault}
       /\ MoveToDefault = {} => root = {} \/ "default" \in dirs
  BY <1>10, LegacyFiles DEF MoveToDefault
<1>12. ServerOnItsWay'
  BY <1>1, <1>3 DEF ServerOnItsWay
<1>13. PlanCovers'
  BY <1>3, <1>6, <1>11 DEF PlanCovers, Moving
<1>14. MovesAlone'
  BY <1>3, <1>6, <1>8, <1>11 DEF IInv, MovesAlone, Moving
<1>15. (PairOnItsWay /\ NothingLost /\ PairingSurvives)'
  BY <1>6, <1>8 DEF IInv, PairOnItsWay, NothingLost, PairingSurvives
<1>16. NothingLeftBehind'
  BY <1>6, OffType DEF IInv, NothingLeftBehind, Start
<1> QED  BY <1>9, <1>12, <1>13, <1>14, <1>15, <1>16 DEF IInv

\* The server process goes on to another point, or makes a directory.
LEMMA MakeDefaultDirStep == ASSUME IInv, MakeDefaultDir PROVE IInv'
<1>1. server.pc = "mkdir" /\ server # Off
  BY OffType DEF MakeDefaultDir
<1>2. server' \in ServerLocals /\ server'.pc = "move" /\ server'.plan = server.plan
      /\ server'.todo = server.todo
  BY <1>1, ServerType DEF IInv, MakeDefaultDir, Goto, ServerLocals
<1>3. /\ dirs' = dirs \cup {"default"}
      /\ UNCHANGED <<root, data, pair, runs, had, paired, forgotten, cutOff, early, overlapped>>
  BY DEF MakeDefaultDir, history
<1>4. TypeOK'
  BY <1>2, <1>3 DEF IInv, TypeOK
<1>5. (ServerOnItsWay /\ PlanCovers /\ MovesAlone /\ PairOnItsWay)'
  BY <1>1, <1>2, <1>3 DEF IInv, ServerOnItsWay, PlanCovers, MovesAlone, PairOnItsWay, Moving
<1>6. (NothingLost /\ PairingSurvives /\ NothingLeftBehind)'
  BY <1>1, <1>2, <1>3 DEF IInv, NothingLost, PairingSurvives, NothingLeftBehind
<1> QED  BY <1>4, <1>5, <1>6 DEF IInv

LEMMA MoveFileStep == ASSUME IInv, MoveFile PROVE IInv'
<1>1. server.pc = "move" /\ server # Off /\ "default" \in dirs /\ server.todo # <<>>
  BY OffType DEF IInv, ServerOnItsWay, MoveFile
<1>2. PICK i \in server.plan :
        LET f == legacyFiles[i]
            rest == server.plan \ {i}
        IN  /\ root' = root \ {f}
            /\ data' = [data EXCEPT !["default"][f] = "old"]
            /\ server' = [server EXCEPT !.plan = rest,
                                        !.pc = IF rest = {} THEN "dir" ELSE "move"]
            /\ pair' = IF f = SessionDB /\ pair.pc \in {"confirm", "link"}
                          /\ pair.account = "default"
                       THEN [pair EXCEPT !.onDisk = FALSE] ELSE pair
  BY DEF MoveFile
<1> DEFINE f == legacyFiles[i]
<1>3. f \in Files
  BY <1>1, LegacyFiles, ServerType DEF IInv
<1>4. /\ server' \in ServerLocals
      /\ server'.pc = IF server.plan \ {i} = {} THEN "dir" ELSE "move"
      /\ server'.plan = server.plan \ {i} /\ server'.todo = server.todo
  BY <1>1, <1>2, ServerType DEF IInv, ServerLocals
<1>5. /\ data' \in [Accounts -> [Files -> Contents]]
      /\ data'["default"][f] = "old"
      /\ \A a \in Accounts, g \in Files :
            a # "default" \/ g # f => data'[a][g] = data[a][g]
  BY <1>2, <1>3 DEF IInv, TypeOK, Contents
<1>6. /\ pair' \in PairLocals /\ (pair' = Off <=> pair = Off)
      /\ pair # Off => pair'.pc = pair.pc /\ pair'.account = pair.account
      /\ pair'.pc = "link" /\ pair'.onDisk =>
            pair.onDisk /\ (f # SessionDB \/ pair.account # "default")
  <2>1. CASE pair = Off
    BY <1>2, <2>1, OffType
  <2>2. CASE pair # Off
    <3>1. pair \in [pc : {"dir", "session", "confirm", "reopen", "link"}, account : Accounts,
                    onDisk : BOOLEAN]
      BY <2>2, PairType DEF IInv
    <3>2. pair' # Off
      BY <1>2, <2>2, <3>1 DEF Off
    <3> QED  BY <1>2, <2>2, <3>1, <3>2 DEF PairLocals
  <2> QED  BY <2>1, <2>2
<1>7. /\ root' = root \ {f}
      /\ UNCHANGED <<dirs, runs, had, paired, forgotten, cutOff, early, overlapped>>
  BY <1>2 DEF MoveFile, history
<1> HIDE DEF f
<1>8. TypeOK'
  BY <1>1, <1>4, <1>5, <1>6, <1>7 DEF IInv, TypeOK
<1>9. ServerOnItsWay'
  BY <1>1, <1>4, <1>7 DEF ServerOnItsWay
<1>10. PlanCovers'
  BY <1>1, <1>4, <1>7 DEF IInv, PlanCovers, Moving, f
<1>11. overlapped \/ (pair = Off /\ "default" \notin paired)
  BY <1>1 DEF IInv, MovesAlone, Moving
<1>12. MovesAlone'
  BY <1>6, <1>7, <1>11 DEF IInv, MovesAlone
<1>13. PairOnItsWay'
  <2>1. pair # Off => pair.account \in Accounts
    BY PairType DEF IInv
  <2> QED  BY <1>5, <1>6, <1>7, <2>1, OffType, FilesType DEF IInv, PairOnItsWay
<1>14. NothingLost'
  <2>1. \A g \in had : g \in Files
    BY DEF IInv, TypeOK
  <2> QED  BY <1>5, <1>7, <2>1 DEF IInv, NothingLost
<1>15. PairingSurvives'
  BY <1>5, <1>7, <1>11, FilesType DEF IInv, TypeOK, PairingSurvives
<1>16. NothingLeftBehind'
  BY <1>1, <1>4, <1>7 DEF IInv, PlanCovers, Moving, NothingLeftBehind, f
<1> QED  BY <1>8, <1>9, <1>10, <1>12, <1>13, <1>14, <1>15, <1>16 DEF IInv

LEMMA EnsureDirStep == ASSUME IInv, EnsureDir PROVE IInv'
<1>1. server.pc = "dir" /\ server # Off /\ server.todo # <<>>
  BY OffType DEF EnsureDir
<1>2. /\ server' \in ServerLocals /\ server'.pc = "db"
      /\ server'.todo = server.todo /\ server.todo \in Seq(Accounts)
  BY <1>1, ServerType DEF IInv, EnsureDir, Goto, ServerLocals
<1>3. Account \in Accounts /\ Account' = Account
  BY <1>1, <1>2 DEF Account
<1>4. /\ dirs' = dirs \cup {Account}
      /\ UNCHANGED <<root, data, pair, runs, had, paired, forgotten, cutOff, early, overlapped>>
  BY DEF EnsureDir, history
<1>5. TypeOK'
  BY <1>2, <1>3, <1>4 DEF IInv, TypeOK
<1>6. (ServerOnItsWay /\ PlanCovers /\ MovesAlone /\ PairOnItsWay)'
  BY <1>1, <1>2, <1>3, <1>4
     DEF IInv, ServerOnItsWay, PlanCovers, MovesAlone, PairOnItsWay, Moving
<1>7. (NothingLost /\ PairingSurvives)'
  BY <1>4 DEF IInv, NothingLost, PairingSurvives
<1>8. NothingLeftBehind'
  BY <1>1, <1>4 DEF IInv, PlanCovers, NothingLeftBehind
<1> QED  BY <1>5, <1>6, <1>7, <1>8 DEF IInv

\* Opening a database keeps what it holds.
LEMMA DatabaseOpened ==
    ASSUME TypeOK, NEW a \in dirs, NEW f \in Files, NEW new \in {"own", "unlinked"},
           data' = [data EXCEPT ![a][f] = Opened(@, new)]
    PROVE  /\ data' \in [Accounts -> [Files -> Contents]]
           /\ \A b \in Accounts \ dirs, g \in Files : data'[b][g] = "none"
           /\ \A b \in Accounts, g \in Files :
                 data'[b][g] = data[b][g] \/ (data[b][g] = "none" /\ data'[b][g] = new)
<1>1. a \in Accounts /\ Opened(data[a][f], new) \in Contents
  BY DEF TypeOK, Opened, Contents
<1>2. /\ data' \in [Accounts -> [Files -> Contents]]
      /\ data'[a][f] = Opened(data[a][f], new)
      /\ \A b \in Accounts, g \in Files : b # a \/ g # f => data'[b][g] = data[b][g]
  BY <1>1 DEF TypeOK
<1>3. \A b \in Accounts \ dirs, g \in Files : data'[b][g] = "none"
  BY <1>2 DEF TypeOK
<1> QED  BY <1>2, <1>3 DEF Opened

\* What holds of the stores survives the opening of any.
LEMMA StoresKept ==
    ASSUME IInv, NEW new \in {"own", "unlinked"},
           \A b \in Accounts, g \in Files :
               data'[b][g] = data[b][g] \/ (data[b][g] = "none" /\ data'[b][g] = new),
           UNCHANGED <<root, dirs, had, paired, forgotten, overlapped>>
    PROVE  /\ NothingLost' /\ PairingSurvives'
           /\ UNCHANGED pair => PairOnItsWay'
<1>1. \A f \in had : f \in Files
  BY DEF IInv, TypeOK
<1>2. NothingLost' /\ PairingSurvives'
  BY <1>1, FilesType DEF IInv, TypeOK, NothingLost, PairingSurvives
<1>3. ASSUME UNCHANGED pair PROVE PairOnItsWay'
  <2>1. pair.pc = "link" => pair.account \in Accounts
    BY PairType, OffType DEF IInv
  <2> QED  BY <1>3, <2>1, FilesType DEF IInv, PairOnItsWay
<1> QED  BY <1>2, <1>3

LEMMA OpenAppDBStep == ASSUME IInv, OpenAppDB PROVE IInv'
<1>1. server.pc = "db" /\ server # Off /\ server.todo # <<>> /\ Account \in dirs
  BY OffType DEF IInv, ServerOnItsWay, OpenAppDB
<1>2. server' \in ServerLocals /\ server'.pc = "session" /\ server'.todo = server.todo
  BY <1>1, ServerType DEF IInv, OpenAppDB, Goto, ServerLocals
<1>3. /\ data' = [data EXCEPT ![Account][AppDB] = Opened(@, "own")]
      /\ UNCHANGED <<root, dirs, pair, runs, had, paired, forgotten, cutOff, early, overlapped>>
  BY DEF OpenAppDB, history
<1>4. /\ data' \in [Accounts -> [Files -> Contents]]
      /\ \A b \in Accounts \ dirs, g \in Files : data'[b][g] = "none"
      /\ \A b \in Accounts, g \in Files :
            data'[b][g] = data[b][g] \/ (data[b][g] = "none" /\ data'[b][g] = "own")
  BY <1>1, <1>3, FilesType, DatabaseOpened DEF IInv
<1>5. TypeOK'
  BY <1>2, <1>3, <1>4 DEF IInv, TypeOK
<1>6. (NothingLost /\ PairingSurvives /\ PairOnItsWay)'
  BY <1>3, <1>4, StoresKept
<1>7. (ServerOnItsWay /\ PlanCovers /\ MovesAlone /\ NothingLeftBehind)'
  BY <1>1, <1>2, <1>3
     DEF IInv, ServerOnItsWay, PlanCovers, MovesAlone, NothingLeftBehind, Moving, Account
<1> QED  BY <1>5, <1>6, <1>7 DEF IInv

LEMMA ServeType ==
    ASSUME TypeOK, server.pc \in {"dir", "db", "session"}, server.todo # <<>>,
           NEW s \in SUBSET Accounts, Serve(s)
    PROVE  /\ server' \in ServerLocals
           /\ server'.pc \in {"off", "dir", "serve"}
           /\ server'.pc = "dir" => server'.todo # <<>>
<1>1. server # Off /\ server.todo \in Seq(Accounts)
  BY OffType, ServerType
<1> DEFINE rest == Tail(server.todo)
<1>2. rest \in Seq(Accounts)
  BY <1>1
<1> HIDE DEF rest
<1>3. server' = IF rest = <<>> /\ s = {} THEN Off
                ELSE [server EXCEPT !.todo = rest, !.serving = s,
                                    !.pc = IF rest = <<>> THEN "serve" ELSE "dir"]
  BY DEF Serve, rest
<1> QED  BY <1>1, <1>2, <1>3, ServerType, OffType DEF ServerLocals

\* The server process is through with an account, its database opened or not.
LEMMA Served ==
    ASSUME IInv, server.pc \in {"dir", "db", "session"}, server.todo # <<>>,
           NEW s \in SUBSET Accounts, Serve(s),
           UNCHANGED <<root, dirs, pair, runs, history>>,
           data' \in [Accounts -> [Files -> Contents]],
           \A b \in Accounts \ dirs, g \in Files : data'[b][g] = "none",
           \A b \in Accounts, g \in Files :
              data'[b][g] = data[b][g] \/ (data[b][g] = "none" /\ data'[b][g] = "unlinked")
    PROVE  IInv'
<1>1. /\ server' \in ServerLocals
      /\ server'.pc \in {"off", "dir", "serve"}
      /\ server'.pc = "dir" => server'.todo # <<>>
  BY ServeType DEF IInv
<1>2. UNCHANGED <<had, paired, forgotten, cutOff, early, overlapped>>
  BY DEF history
<1>3. TypeOK'
  BY <1>1, <1>2 DEF IInv, TypeOK
<1>4. (NothingLost /\ PairingSurvives /\ PairOnItsWay)'
  BY <1>2, StoresKept
<1>5. (ServerOnItsWay /\ PlanCovers /\ MovesAlone /\ NothingLeftBehind)'
  BY <1>1, <1>2
     DEF IInv, ServerOnItsWay, PlanCovers, MovesAlone, NothingLeftBehind, Moving
<1> QED  BY <1>3, <1>4, <1>5 DEF IInv

LEMMA OpenSessionStep == ASSUME IInv, OpenSession PROVE IInv'
<1>1. server.pc = "session" /\ server # Off /\ server.todo # <<>> /\ Account \in dirs
  BY OffType DEF IInv, ServerOnItsWay, OpenSession
<1>2. Account \in Accounts /\ server.serving \subseteq Accounts
  BY <1>1, ServerType DEF IInv, TypeOK
<1>3. PICK s \in SUBSET Accounts : Serve(s)
  <2>1. server.serving \cup {Account} \in SUBSET Accounts /\ server.serving \in SUBSET Accounts
    BY <1>2
  <2>2. Serve(server.serving \cup {Account}) \/ Serve(server.serving)
    BY DEF OpenSession
  <2> QED  BY <2>1, <2>2
<1>4. data' = [data EXCEPT ![Account][SessionDB] = Opened(@, "unlinked")]
  BY DEF OpenSession
<1>5. /\ data' \in [Accounts -> [Files -> Contents]]
      /\ \A b \in Accounts \ dirs, g \in Files : data'[b][g] = "none"
      /\ \A b \in Accounts, g \in Files :
            data'[b][g] = data[b][g] \/ (data[b][g] = "none" /\ data'[b][g] = "unlinked")
  BY <1>1, <1>4, FilesType, DatabaseOpened DEF IInv
<1>6. UNCHANGED <<root, dirs, pair, runs, history>>
  BY DEF OpenSession
<1> QED  BY <1>1, <1>3, <1>5, <1>6, Served

LEMMA SkipAccountStep == ASSUME IInv, SkipAccount PROVE IInv'
<1>1. server.serving \in SUBSET Accounts
  BY OffType, ServerType DEF IInv, SkipAccount
<1>2. UNCHANGED <<root, dirs, data, pair, runs, history>>
  BY DEF SkipAccount, disk
<1>3. /\ data' \in [Accounts -> [Files -> Contents]]
      /\ \A b \in Accounts \ dirs, g \in Files : data'[b][g] = "none"
  BY <1>2 DEF IInv, TypeOK
<1> QED  BY <1>1, <1>2, <1>3, Served DEF SkipAccount

LEMMA LinkAtStartStep == ASSUME IInv, LinkAtStart PROVE IInv'
<1>1. server.pc = "serve" /\ server # Off
  BY OffType DEF LinkAtStart
<1>2. PICK a \in server.serving :
          /\ data[a][SessionDB] = "unlinked"
          /\ data' = [data EXCEPT ![a][SessionDB] = "linked"]
          /\ paired' = paired \cup {a}
  BY DEF LinkAtStart
<1>3. a \in Accounts
  BY <1>1, ServerType DEF IInv
<1>4. a \in dirs
  BY <1>2, <1>3, FilesType DEF IInv, TypeOK
<1>5. /\ data' \in [Accounts -> [Files -> Contents]]
      /\ data'[a][SessionDB] = "linked"
      /\ \A b \in Accounts, g \in Files : b # a \/ g # SessionDB => data'[b][g] = data[b][g]
  BY <1>2, <1>3, FilesType DEF IInv, TypeOK, Contents
<1>6. UNCHANGED <<root, dirs, server, pair, runs, had, forgotten, cutOff, early, overlapped>>
  BY DEF LinkAtStart
<1>7. TypeOK'
  BY <1>2, <1>3, <1>4, <1>5, <1>6 DEF IInv, TypeOK
<1>8. (ServerOnItsWay /\ PlanCovers /\ NothingLeftBehind)'
  BY <1>6 DEF IInv, ServerOnItsWay, PlanCovers, NothingLeftBehind, Moving, Account
<1>9. MovesAlone'
  BY <1>1, <1>2, <1>4, <1>6 DEF IInv, MovesAlone, Moving
<1>10. PairOnItsWay'
  <2>1. pair.pc = "link" => pair.account \in Accounts
    BY PairType, OffType DEF IInv
  <2> QED  BY <1>5, <1>6, <2>1, FilesType DEF IInv, PairOnItsWay
<1>11. NothingLost'
  <2>1. \A f \in had : f \in Files
    BY DEF IInv, TypeOK
  <2> QED  BY <1>2, <1>3, <1>5, <1>6, <2>1 DEF IInv, NothingLost
<1>12. PairingSurvives'
  BY <1>2, <1>5, <1>6, FilesType DEF IInv, TypeOK, PairingSurvives
<1> QED  BY <1>7, <1>8, <1>9, <1>10, <1>11, <1>12 DEF IInv

LEMMA ExitStep == ASSUME IInv, Exit PROVE IInv'
<1>1. server' = Off /\ server'.pc = "off"
  BY OffType DEF Exit
<1>2. /\ UNCHANGED <<root, dirs, data, pair, runs, had, paired, forgotten, early, overlapped>>
      /\ cutOff' = (cutOff \/ server.pc = "move")
  BY DEF Exit, disk
<1>3. cutOff' \in BOOLEAN
  BY <1>2
<1>4. TypeOK'
  BY <1>1, <1>2, <1>3, OffType DEF IInv, TypeOK
<1>5. (ServerOnItsWay /\ PlanCovers /\ MovesAlone /\ PairOnItsWay)'
  BY <1>1, <1>2 DEF IInv, ServerOnItsWay, PlanCovers, MovesAlone, PairOnItsWay, Moving
<1>6. (NothingLost /\ PairingSurvives /\ NothingLeftBehind)'
  BY <1>1, <1>2 DEF IInv, NothingLost, PairingSurvives, NothingLeftBehind
<1> QED  BY <1>4, <1>5, <1>6 DEF IInv

-----------------------------------------------------------------------------
\* pm-wa pair
LEMMA RunPairStep ==
    ASSUME IInv, NEW names \in Declarations, NEW a \in Accounts, RunPair(names, a)
    PROVE  IInv'
<1>1. pair' = [pc |-> "dir", account |-> a, onDisk |-> TRUE] /\ pair' \in PairLocals
  BY DEF RunPair, PairLocals
<1>2. /\ overlapped' = (overlapped \/ server.pc \in {"mkdir", "move"})
      /\ overlapped' \in BOOLEAN
      /\ UNCHANGED <<root, dirs, data, server, had, paired, forgotten, cutOff, early>>
  BY DEF RunPair, disk
<1>3. runs' \in 0 .. MaxRuns
  BY DEF IInv, TypeOK, RunPair, NewRun
<1>4. TypeOK'
  BY <1>1, <1>2, <1>3 DEF IInv, TypeOK
<1>5. (ServerOnItsWay /\ PlanCovers /\ NothingLost /\ PairingSurvives /\ NothingLeftBehind)'
  BY <1>2 DEF IInv, ServerOnItsWay, PlanCovers, NothingLost, PairingSurvives,
              NothingLeftBehind, Moving, Account
<1>6. (PairOnItsWay /\ MovesAlone)'
  BY <1>1, <1>2 DEF IInv, PairOnItsWay, MovesAlone, Moving
<1> QED  BY <1>4, <1>5, <1>6 DEF IInv

LEMMA PairEnsureDirStep == ASSUME IInv, PairEnsureDir PROVE IInv'
<1>1. pair.pc = "dir" /\ pair # Off
  BY OffType DEF PairEnsureDir
<1>2. /\ pair' \in PairLocals /\ pair'.pc = "session" /\ pair' # Off
      /\ pair'.account = pair.account /\ pair'.onDisk = pair.onDisk /\ pair.account \in Accounts
  BY <1>1, PairType, OffType DEF IInv, PairEnsureDir, PairLocals
<1>3. /\ dirs' = dirs \cup {pair.account}
      /\ early' = (early \/ (pair.account = "default" /\ root # {} /\ "default" \notin dirs))
      /\ early' \in BOOLEAN
      /\ UNCHANGED <<root, data, server, runs, had, paired, forgotten, cutOff, overlapped>>
  BY DEF PairEnsureDir
<1>4. TypeOK'
  BY <1>2, <1>3 DEF IInv, TypeOK
<1>5. (ServerOnItsWay /\ PlanCovers /\ NothingLost /\ PairingSurvives)'
  BY <1>3 DEF IInv, ServerOnItsWay, PlanCovers, NothingLost, PairingSurvives, Moving, Account
<1>6. (PairOnItsWay /\ MovesAlone)'
  BY <1>1, <1>2, <1>3 DEF IInv, PairOnItsWay, MovesAlone, Moving
<1>7. NothingLeftBehind'
  BY <1>3 DEF IInv, NothingLeftBehind
<1> QED  BY <1>4, <1>5, <1>6, <1>7 DEF IInv

\* Pair opens the session store, for the first time or again.
LEMMA PairOpens ==
    ASSUME IInv, pair # Off, pair.account \in dirs,
           data' = [data EXCEPT ![pair.account][SessionDB] = Opened(@, "unlinked")],
           UNCHANGED <<root, dirs, server, runs, history>>,
           pair' \in PairLocals,
           pair' # Off => /\ pair'.account = pair.account /\ pair'.onDisk = pair.onDisk
                          /\ pair'.pc = "link" => ~HasDevice(pair.account)
    PROVE  IInv'
<1>1. /\ data' \in [Accounts -> [Files -> Contents]]
      /\ \A b \in Accounts \ dirs, g \in Files : data'[b][g] = "none"
      /\ \A b \in Accounts, g \in Files :
            data'[b][g] = data[b][g] \/ (data[b][g] = "none" /\ data'[b][g] = "unlinked")
  BY FilesType, DatabaseOpened DEF IInv
<1>2. UNCHANGED <<had, paired, forgotten, cutOff, early, overlapped>>
  BY DEF history
<1>3. TypeOK'
  BY <1>1, <1>2 DEF IInv, TypeOK
<1>4. (NothingLost /\ PairingSurvives)'
  BY <1>1, <1>2, StoresKept
<1>5. PairOnItsWay'
  <2>1. pair' = Off => pair'.pc = "off"
    BY OffType
  <2>2. pair.account \in Accounts
    BY PairType DEF IInv
  <2> QED  BY <1>1, <2>1, <2>2, FilesType DEF PairOnItsWay, HasDevice
<1>6. (ServerOnItsWay /\ PlanCovers /\ NothingLeftBehind /\ MovesAlone)'
  BY <1>2 DEF IInv, ServerOnItsWay, PlanCovers, NothingLeftBehind, MovesAlone, Moving, Account
<1> QED  BY <1>3, <1>4, <1>5, <1>6 DEF IInv

LEMMA PairOpenSessionStep == ASSUME IInv, PairOpenSession PROVE IInv'
<1>1. pair # Off /\ pair.account \in dirs
  BY OffType DEF IInv, PairOnItsWay, PairOpenSession
<1>2. /\ pair' \in PairLocals /\ pair'.account = pair.account /\ pair'.onDisk = pair.onDisk
      /\ pair'.pc = IF HasDevice(pair.account) THEN "confirm" ELSE "link"
  BY <1>1, PairType DEF IInv, PairOpenSession, PairLocals
<1> QED  BY <1>1, <1>2, PairOpens DEF PairOpenSession

LEMMA ReopenStep == ASSUME IInv, Reopen PROVE IInv'
<1>1. pair # Off /\ pair.account \in dirs
  BY OffType DEF IInv, PairOnItsWay, Reopen
<1>2. CASE HasDevice(pair.account)
  BY <1>1, <1>2, OffType, PairOpens DEF Reopen
<1>3. CASE ~HasDevice(pair.account)
  <2>1. pair' \in PairLocals /\ pair'.account = pair.account /\ pair'.onDisk = pair.onDisk
    BY <1>1, <1>3, PairType DEF IInv, Reopen, PairLocals
  <2> QED  BY <1>1, <1>3, <2>1, PairOpens DEF Reopen
<1> QED  BY <1>2, <1>3

\* What pair writes, if the file is still the account's.
LEMMA Written ==
    ASSUME TypeOK, pair # Off, pair.account \in dirs,
           NEW content \in {"linked", "unlinked"}, Write(content)
    PROVE  /\ data' \in [Accounts -> [Files -> Contents]]
           /\ \A b \in Accounts \ dirs, g \in Files : data'[b][g] = "none"
           /\ pair.onDisk => data'[pair.account][SessionDB] = content
           /\ \A b \in Accounts, g \in Files :
                 ~pair.onDisk \/ b # pair.account \/ g # SessionDB => data'[b][g] = data[b][g]
           /\ pair.account \in Accounts /\ pair.onDisk \in BOOLEAN
<1>1. pair.account \in Accounts /\ pair.onDisk \in BOOLEAN
  BY PairType
<1>2. CASE ~pair.onDisk
  BY <1>1, <1>2 DEF TypeOK, Write
<1>3. CASE pair.onDisk
  <2>1. data' = [data EXCEPT ![pair.account][SessionDB] = content]
    BY <1>3 DEF Write
  <2> QED  BY <1>1, <1>3, <2>1, FilesType DEF TypeOK, Contents
<1> QED  BY <1>1, <1>2, <1>3

LEMMA ConfirmRePairStep == ASSUME IInv, ConfirmRePair PROVE IInv'
<1>1. pair.pc = "confirm" /\ pair # Off /\ pair.account \in dirs
  BY OffType DEF IInv, PairOnItsWay, ConfirmRePair
<1>2. /\ pair' \in PairLocals /\ pair'.pc = "reopen" /\ pair'.account = pair.account
      /\ pair'.onDisk
  BY <1>1, PairType DEF IInv, ConfirmRePair, PairLocals
<1>3. /\ paired' = paired \ {pair.account} /\ forgotten' = forgotten \cup {pair.account}
      /\ UNCHANGED <<root, dirs, server, runs, had, cutOff, early, overlapped>>
  BY DEF ConfirmRePair
<1>4. /\ data' \in [Accounts -> [Files -> Contents]]
      /\ \A b \in Accounts \ dirs, g \in Files : data'[b][g] = "none"
      /\ \A b \in Accounts, g \in Files :
            b # pair.account \/ g # SessionDB => data'[b][g] = data[b][g]
      /\ pair.account \in Accounts
  BY <1>1, Written DEF IInv, ConfirmRePair
<1>5. TypeOK'
  BY <1>2, <1>3, <1>4 DEF IInv, TypeOK
<1>6. (ServerOnItsWay /\ PlanCovers /\ NothingLeftBehind)'
  BY <1>3 DEF IInv, ServerOnItsWay, PlanCovers, NothingLeftBehind, Moving, Account
<1>7. (PairOnItsWay /\ MovesAlone)'
  BY <1>1, <1>2, <1>3 DEF IInv, PairOnItsWay, MovesAlone, Moving
<1>8. NothingLost'
  <2>1. \A f \in had : f \in Files
    BY DEF IInv, TypeOK
  <2> QED  BY <1>3, <1>4, <2>1 DEF IInv, NothingLost
<1>9. PairingSurvives'
  BY <1>3, <1>4, FilesType DEF IInv, TypeOK, PairingSurvives
<1> QED  BY <1>5, <1>6, <1>7, <1>8, <1>9 DEF IInv

LEMMA PairNewStep == ASSUME IInv, PairNew PROVE IInv'
<1>1. pair.pc = "link" /\ pair # Off /\ pair.account \in dirs
  BY OffType DEF IInv, PairOnItsWay, PairNew
<1>2. /\ pair' = Off /\ paired' = paired \cup {pair.account}
      /\ UNCHANGED <<root, dirs, server, runs, had, forgotten, cutOff, early, overlapped>>
  BY DEF PairNew
<1>3. /\ data' \in [Accounts -> [Files -> Contents]]
      /\ \A b \in Accounts \ dirs, g \in Files : data'[b][g] = "none"
      /\ pair.onDisk => data'[pair.account][SessionDB] = "linked"
      /\ \A b \in Accounts, g \in Files :
            ~pair.onDisk \/ b # pair.account \/ g # SessionDB => data'[b][g] = data[b][g]
      /\ pair.account \in Accounts /\ pair.onDisk \in BOOLEAN
  BY <1>1, Written DEF IInv, PairNew
<1>4. TypeOK'
  BY <1>2, <1>3, OffType DEF IInv, TypeOK
<1>5. (ServerOnItsWay /\ PlanCovers /\ NothingLeftBehind)'
  BY <1>2 DEF IInv, ServerOnItsWay, PlanCovers, NothingLeftBehind, Moving, Account
<1>6. (PairOnItsWay /\ MovesAlone)'
  BY <1>1, <1>2, OffType DEF IInv, PairOnItsWay, MovesAlone, Moving
<1>7. NothingLost'
  <2>1. \A f \in had : f \in Files
    BY DEF IInv, TypeOK
  <2> QED  BY <1>1, <1>2, <1>3, <2>1 DEF IInv, NothingLost, PairOnItsWay
<1>8. PairingSurvives'
  BY <1>1, <1>2, <1>3, FilesType DEF IInv, TypeOK, PairingSurvives, MovesAlone
<1> QED  BY <1>4, <1>5, <1>6, <1>7, <1>8 DEF IInv

LEMMA PairEndsStep == ASSUME IInv, PairEnds PROVE IInv'
<1>1. /\ pair' = Off
      /\ UNCHANGED <<root, dirs, data, server, runs, had, paired, forgotten, cutOff, early,
                     overlapped>>
  BY DEF PairEnds, disk, history
<1>2. TypeOK'
  BY <1>1, OffType DEF IInv, TypeOK
<1>3. (ServerOnItsWay /\ PlanCovers /\ NothingLeftBehind /\ NothingLost /\ PairingSurvives)'
  BY <1>1 DEF IInv, ServerOnItsWay, PlanCovers, NothingLeftBehind, NothingLost, PairingSurvives,
              Moving, Account
<1>4. (PairOnItsWay /\ MovesAlone)'
  BY <1>1, OffType DEF IInv, PairOnItsWay, MovesAlone, Moving
<1> QED  BY <1>2, <1>3, <1>4 DEF IInv

-----------------------------------------------------------------------------
LEMMA NextPreserves == ASSUME IInv, [Next]_vars PROVE IInv'
<1>1. CASE UNCHANGED vars
  <2>1. TypeOK'
    BY <1>1 DEF IInv, TypeOK, vars
  <2>2. (ServerOnItsWay /\ PlanCovers /\ PairOnItsWay /\ MovesAlone)'
    BY <1>1 DEF IInv, ServerOnItsWay, PlanCovers, PairOnItsWay, MovesAlone, vars, Moving, Account
  <2>3. (NothingLost /\ PairingSurvives /\ NothingLeftBehind)'
    BY <1>1 DEF IInv, NothingLost, PairingSurvives, NothingLeftBehind, vars
  <2> QED  BY <2>1, <2>2, <2>3 DEF IInv
<1>2. CASE ServerStep
  BY <1>2, StartStep, MakeDefaultDirStep, MoveFileStep, EnsureDirStep, OpenAppDBStep,
     OpenSessionStep, LinkAtStartStep, SkipAccountStep, ExitStep DEF ServerStep
<1>3. CASE PairStep
  BY <1>3, RunPairStep, PairEnsureDirStep, PairOpenSessionStep, ConfirmRePairStep, ReopenStep,
     PairNewStep, PairEndsStep DEF PairStep
<1> QED  BY <1>1, <1>2, <1>3 DEF Next

LEMMA Invariance == Spec => []IInv
<1>1. Init => IInv
  BY InitEstablishes
<1>2. IInv /\ [Next]_vars => IInv'
  BY NextPreserves
<1> QED  BY <1>1, <1>2, PTL DEF Spec

\* Type correctness of start-up and pairing.
THEOREM TypeCorrect == Spec => []TypeOK
<1>1. IInv => TypeOK
  BY DEF IInv
<1> QED  BY <1>1, Invariance, PTL

\* Nothing of the old install is destroyed, wherever starts and pairings end and
\* however they interleave.
THEOREM OldInstallIsKept == Spec => []NothingLost
<1>1. IInv => NothingLost
  BY DEF IInv
<1> QED  BY <1>1, Invariance, PTL

\* An account paired once stays paired, unless pair ran while a start was moving
\* files.
THEOREM PairedStaysPaired == Spec => []PairingSurvives
<1>1. IInv => PairingSurvives
  BY DEF IInv
<1> QED  BY <1>1, Invariance, PTL

\* Once data/default is there, nothing of the old install stays at the root,
\* except after a start that was cut off and after an early pair.
THEOREM MigrationIsComplete == Spec => []NothingLeftBehind
<1>1. IInv => NothingLeftBehind
  BY DEF IInv
<1> QED  BY <1>1, Invariance, PTL
=============================================================================
