---------------------------- MODULE Sessions_proofs ----------------------------
(***************************************************************************)
(* Sessions: the tables hold what is served, simultaneous dials converge,  *)
(* the refused stay out, and no session is forgotten by one end, for any   *)
(* nodes, connections, dials and limits.                                   *)
(***************************************************************************)
EXTENDS Sessions, FiniteSetTheorems, TLAPS

\* The shapes the proofs go by.
Shapes ==
    /\ conn \in [Connections -> ConnectionType]
    /\ table \in [Nodes -> [Nodes -> Held]]
    /\ letgo \in [Nodes -> SUBSET Connections]
    /\ chose \subseteq Nodes \X Connections \X Connections

\* A connection in use joins two nodes, and only its ends have a stage.
Joined(r) ==
    \/ r = NoConnection
    \/ /\ r.dialer \in Nodes /\ r.acceptor \in Nodes /\ r.dialer # r.acceptor
       /\ \A n \in Nodes : r.stage[n] # "absent" => n \in {r.dialer, r.acceptor}

AllJoined == \A c \in Connections : Joined(conn[c])

\* Of two live connections the one with the lower dialer was kept, wherever.
LowerKept ==
    \A x \in chose :
      /\ conn[x[2]].dialer \in Nodes /\ conn[x[3]].dialer \in Nodes
      /\ conn[x[2]].dialer <= conn[x[3]].dialer

\* A node lets go of connections it is an end of.
LetGoHere == \A n \in Nodes : \A c \in letgo[n] : n \in Ends(c)

IInv == Shapes /\ AllJoined /\ LetGoHere /\ ServedIsHeld /\ LowerKept

-----------------------------------------------------------------------------
(* Steps that change one connection *)

\* One connection becomes r and nothing else about connections changes.
Becomes(c, r) == conn' = [conn EXCEPT ![c] = r]

JudgedAt(c, n)     == [conn[c] EXCEPT !.stage = [conn[c].stage EXCEPT ![n] = "judged"], !.answered = TRUE]
StagedAt(c, n, s)  == [conn[c] EXCEPT !.stage = [conn[c].stage EXCEPT ![n] = s]]
ClosedAt(c, n)     == [conn[c] EXCEPT !.closed = conn[c].closed \cup {n}]
ClosedTo(c, n, s)  == [conn[c] EXCEPT !.stage = [conn[c].stage EXCEPT ![n] = s],
                                      !.closed = conn[c].closed \cup {n}]

LEMMA ConnectionShapes ==
    ASSUME NEW c \in Connections, conn[c] \in ConnectionType, NEW n \in Nodes, NEW s \in Stages
    PROVE  /\ JudgedAt(c, n) \in ConnectionType
           /\ StagedAt(c, n, s) \in ConnectionType
           /\ ClosedAt(c, n) \in ConnectionType
           /\ ClosedTo(c, n, s) \in ConnectionType
<1>1. "judged" \in Stages
  BY DEF Stages
<1>2. [conn[c].stage EXCEPT ![n] = s] \in [Nodes -> Stages]
      /\ [conn[c].stage EXCEPT ![n] = "judged"] \in [Nodes -> Stages]
  BY <1>1 DEF ConnectionType
<1>3. conn[c].closed \cup {n} \in SUBSET Nodes
  BY DEF ConnectionType
<1>4. \A f \in [Nodes -> Stages], C \in SUBSET Nodes :
         /\ [conn[c] EXCEPT !.stage = f, !.answered = TRUE] \in ConnectionType
         /\ [conn[c] EXCEPT !.stage = f] \in ConnectionType
         /\ [conn[c] EXCEPT !.closed = C] \in ConnectionType
         /\ [conn[c] EXCEPT !.stage = f, !.closed = C] \in ConnectionType
  BY DEF ConnectionType
<1> QED
  BY <1>2, <1>3, <1>4 DEF JudgedAt, StagedAt, ClosedAt, ClosedTo

LEMMA FreshShape ==
    /\ NoConnection \in ConnectionType
    /\ \A n, p \in Nodes : DialedBy(n, p) \in ConnectionType
<1>1. [m \in Nodes |-> "absent"] \in [Nodes -> Stages]
  BY DEF Stages
<1>2. \A a, b \in Nodes \cup {None}, f \in [Nodes -> Stages] :
         [dialer |-> a, acceptor |-> b, answered |-> FALSE, stage |-> f, closed |-> {}] \in ConnectionType
  BY DEF ConnectionType
<1>3. NoConnection \in ConnectionType
  BY <1>1, <1>2 DEF NoConnection
<1>4. ASSUME NEW n \in Nodes, NEW p \in Nodes
      PROVE  DialedBy(n, p) \in ConnectionType
  <2> DEFINE f == [m \in Nodes |-> IF m \in {n, p} THEN "hello" ELSE "absent"]
  <2>1. f \in [Nodes -> Stages]
    BY DEF Stages
  <2>2. DialedBy(n, p) = [dialer |-> n, acceptor |-> p, answered |-> FALSE, stage |-> f, closed |-> {}]
    BY DEF DialedBy
  <2> HIDE DEF f
  <2> QED
    BY <1>2, <2>1, <2>2
<1> QED
  BY <1>3, <1>4

\* What each action makes of its connection.
LEMMA ActionsBecome ==
    ASSUME Shapes, NEW c \in Connections, NEW n \in Nodes
    PROVE  /\ \A p \in Nodes : Dial(n, p, c) => Becomes(c, DialedBy(n, p))
           /\ Judge(n, c) => Becomes(c, JudgedAt(c, n))
           /\ GiveUp(n, c) => Becomes(c, ClosedTo(c, n, "gone"))
           /\ Install(n, c) => Becomes(c, StagedAt(c, n, "serving"))
           /\ CloseLetGo(n, c) \/ Learn(n, c) \/ Lose(n, c) => Becomes(c, ClosedAt(c, n))
           /\ ServeEnds(n, c) => Becomes(c, StagedAt(c, n, "gone"))
<1> USE DEF Becomes, Shapes
<1>1. \A p \in Nodes : Dial(n, p, c) => Becomes(c, DialedBy(n, p))
  BY DEF Dial, DialedBy
<1>2. Judge(n, c) => Becomes(c, JudgedAt(c, n))
  BY DEF Judge, JudgedAt
<1>3. GiveUp(n, c) => Becomes(c, ClosedTo(c, n, "gone"))
  BY DEF GiveUp, ClosedTo, Closing
<1>4. Install(n, c) => Becomes(c, StagedAt(c, n, "serving"))
  BY DEF Install, StagedAt
<1>5. CloseLetGo(n, c) \/ Learn(n, c) \/ Lose(n, c) => Becomes(c, ClosedAt(c, n))
  BY DEF CloseLetGo, Learn, Lose, ClosedAt
<1>6. ServeEnds(n, c) => Becomes(c, StagedAt(c, n, "gone"))
  BY DEF ServeEnds, StagedAt
<1> QED
  BY <1>1, <1>2, <1>3, <1>4, <1>5, <1>6

\* Where an end is, and who knows of the close, in the next state.
LEMMA FieldsAfter ==
    ASSUME Shapes, NEW c \in Connections, NEW n \in Nodes, NEW s \in Stages,
           NEW d \in Connections, NEW m \in Nodes
    PROVE  /\ Becomes(c, JudgedAt(c, n)) =>
                /\ Ends(d)' = Ends(d) /\ PeerOf(d, m)' = PeerOf(d, m) /\ (LiveAt(d, m)' <=> LiveAt(d, m))
                /\ conn'[d].dialer = conn[d].dialer /\ conn'[d].acceptor = conn[d].acceptor
                /\ Stage(d, m)' = IF d = c /\ m = n THEN "judged" ELSE Stage(d, m)
           /\ Becomes(c, StagedAt(c, n, s)) =>
                /\ Ends(d)' = Ends(d) /\ PeerOf(d, m)' = PeerOf(d, m) /\ (LiveAt(d, m)' <=> LiveAt(d, m))
                /\ conn'[d].dialer = conn[d].dialer /\ conn'[d].acceptor = conn[d].acceptor
                /\ Stage(d, m)' = IF d = c /\ m = n THEN s ELSE Stage(d, m)
           /\ Becomes(c, ClosedAt(c, n)) =>
                /\ Ends(d)' = Ends(d) /\ PeerOf(d, m)' = PeerOf(d, m)
                /\ conn'[d].dialer = conn[d].dialer /\ conn'[d].acceptor = conn[d].acceptor
                /\ LiveAt(d, m)' <=> LiveAt(d, m) /\ ~(d = c /\ m = n)
                /\ Stage(d, m)' = Stage(d, m)
           /\ Becomes(c, ClosedTo(c, n, s)) =>
                /\ Ends(d)' = Ends(d) /\ PeerOf(d, m)' = PeerOf(d, m)
                /\ conn'[d].dialer = conn[d].dialer /\ conn'[d].acceptor = conn[d].acceptor
                /\ LiveAt(d, m)' <=> LiveAt(d, m) /\ ~(d = c /\ m = n)
                /\ Stage(d, m)' = IF d = c /\ m = n THEN s ELSE Stage(d, m)
<1> USE DEF Shapes, Becomes, Ends, PeerOf, LiveAt, Stage, ConnectionType
<1>1. conn[c] \in ConnectionType /\ conn[d] \in ConnectionType
  OBVIOUS
<1>2. \A r : Becomes(c, r) => conn'[d] = IF d = c THEN r ELSE conn[d]
  OBVIOUS
<1>3. /\ JudgedAt(c, n).dialer = conn[c].dialer /\ JudgedAt(c, n).acceptor = conn[c].acceptor
      /\ JudgedAt(c, n).closed = conn[c].closed
      /\ JudgedAt(c, n).stage[m] = IF m = n THEN "judged" ELSE conn[c].stage[m]
  BY <1>1 DEF JudgedAt
<1>4. /\ StagedAt(c, n, s).dialer = conn[c].dialer /\ StagedAt(c, n, s).acceptor = conn[c].acceptor
      /\ StagedAt(c, n, s).closed = conn[c].closed
      /\ StagedAt(c, n, s).stage[m] = IF m = n THEN s ELSE conn[c].stage[m]
  BY <1>1 DEF StagedAt
<1>5. /\ ClosedAt(c, n).dialer = conn[c].dialer /\ ClosedAt(c, n).acceptor = conn[c].acceptor
      /\ ClosedAt(c, n).closed = conn[c].closed \cup {n}
      /\ ClosedAt(c, n).stage[m] = conn[c].stage[m]
  BY <1>1 DEF ClosedAt
<1>6. /\ ClosedTo(c, n, s).dialer = conn[c].dialer /\ ClosedTo(c, n, s).acceptor = conn[c].acceptor
      /\ ClosedTo(c, n, s).closed = conn[c].closed \cup {n}
      /\ ClosedTo(c, n, s).stage[m] = IF m = n THEN s ELSE conn[c].stage[m]
  BY <1>1 DEF ClosedTo
<1>7. CASE d # c
  BY <1>2, <1>7
<1>8. CASE d = c
  <2>1. ASSUME NEW r, Becomes(c, r), r.dialer = conn[c].dialer, r.acceptor = conn[c].acceptor
        PROVE  /\ Ends(d)' = Ends(d) /\ PeerOf(d, m)' = PeerOf(d, m)
               /\ conn'[d].dialer = conn[d].dialer /\ conn'[d].acceptor = conn[d].acceptor
               /\ (LiveAt(d, m)' <=> m \notin r.closed)
               /\ Stage(d, m)' = r.stage[m]
    BY <1>2, <1>8, <2>1
  <2> QED
    BY <1>3, <1>4, <1>5, <1>6, <1>8, <2>1
<1> QED
  BY <1>7, <1>8

\* Only ends have a stage, and only connections in use have ends.
LEMMA EndsInUse ==
    ASSUME Shapes, AllJoined, NEW c \in Connections, NEW n \in Nodes
    PROVE  /\ Stage(c, n) # "absent" => n \in Ends(c)
           /\ n \in Ends(c) => /\ conn[c] # NoConnection
                              /\ conn[c].dialer \in Nodes /\ conn[c].acceptor \in Nodes
                              /\ conn[c].dialer # conn[c].acceptor
                              /\ PeerOf(c, n) \in Nodes
<1>1. NoConnection.stage[n] = "absent" /\ NoConnection.dialer = None /\ NoConnection.acceptor = None
  BY DEF NoConnection
<1>2. Joined(conn[c])
  BY DEF AllJoined
<1>3. None \notin Nodes
  BY SessionsAssumption
<1> QED
  BY <1>1, <1>2, <1>3 DEF Joined, Stage, Ends, PeerOf

\* A connection keeps its ends and their stages stay theirs.
LEMMA JoinedAfter ==
    ASSUME Shapes, AllJoined, NEW c \in Connections, NEW n \in Nodes, NEW s \in Stages,
           n \in Ends(c),
           \/ Becomes(c, JudgedAt(c, n)) \/ Becomes(c, StagedAt(c, n, s))
           \/ Becomes(c, ClosedAt(c, n)) \/ Becomes(c, ClosedTo(c, n, s))
    PROVE  conn' \in [Connections -> ConnectionType] /\ AllJoined'
<1>1. conn' \in [Connections -> ConnectionType]
  BY ConnectionShapes DEF Shapes, Becomes
<1>2. ASSUME NEW d \in Connections
      PROVE  Joined(conn'[d])
  <2>1. CASE d # c
    BY <2>1 DEF Becomes, Shapes, AllJoined
  <2>2. CASE d = c
    <3>1. conn[c] # NoConnection /\ conn[c].dialer \in Nodes /\ conn[c].acceptor \in Nodes
          /\ conn[c].dialer # conn[c].acceptor
          /\ \A m \in Nodes : Stage(c, m) # "absent" => m \in Ends(c)
      <4>1. Joined(conn[c])
        BY DEF AllJoined
      <4>2. conn[c] # NoConnection
        BY SessionsAssumption DEF Ends, NoConnection
      <4> QED
        BY <4>1, <4>2 DEF Joined, Stage, Ends
    <3>2. conn'[c].dialer = conn[c].dialer /\ conn'[c].acceptor = conn[c].acceptor
      BY FieldsAfter
    <3>3. \A m \in Nodes : Stage(c, m)' # "absent" => Stage(c, m) # "absent" \/ m = n
      BY FieldsAfter
    <3> QED
      BY <2>2, <3>1, <3>2, <3>3 DEF Joined, Stage, Ends
  <2> QED
    BY <2>1, <2>2
<1> QED
  BY <1>1, <1>2 DEF AllJoined

\* An order of ids once kept is kept while connections keep their dialers.
LEMMA OrderAfter ==
    ASSUME Shapes, LowerKept, chose' = chose, NEW c \in Connections, NEW n \in Nodes, NEW s \in Stages,
           \/ Becomes(c, JudgedAt(c, n)) \/ Becomes(c, StagedAt(c, n, s))
           \/ Becomes(c, ClosedAt(c, n)) \/ Becomes(c, ClosedTo(c, n, s))
    PROVE  LowerKept'
<1>1. \A d \in Connections : conn'[d].dialer = conn[d].dialer
  BY FieldsAfter
<1> QED
  BY <1>1 DEF LowerKept, Shapes

-----------------------------------------------------------------------------
(* The actions, one by one *)

LEMMA DialKeeps ==
    ASSUME IInv, NEW c \in Connections, NEW n \in Nodes, NEW p \in Nodes, Dial(n, p, c)
    PROVE  IInv'
<1> USE DEF IInv
<1>1. Becomes(c, DialedBy(n, p)) /\ conn[c] = NoConnection
      /\ table' = table /\ letgo' = letgo /\ chose' = chose
  BY ActionsBecome DEF Dial
<1>2. n # p
  BY SessionsAssumption DEF Dial
<1>3. Shapes'
  BY <1>1, FreshShape DEF Shapes, Becomes
<1>4. \A m \in Nodes : NoConnection.stage[m] = "absent" /\ DialedBy(n, p).stage[m] \in {"absent", "hello"}
      /\ (DialedBy(n, p).stage[m] # "absent" => m \in {n, p})
  BY DEF NoConnection, DialedBy
<1>5. AllJoined'
  <2>1. DialedBy(n, p).dialer = n /\ DialedBy(n, p).acceptor = p
    BY DEF DialedBy
  <2>2. Joined(DialedBy(n, p))
    BY <1>2, <1>4, <2>1 DEF Joined
  <2> QED
    BY <1>1, <2>2 DEF AllJoined, Becomes, Shapes
<1>6. ServedIsHeld'
  <2>1. \A d \in Connections : d # c => conn'[d] = conn[d]
    BY <1>1 DEF Becomes, Shapes
  <2>2. \A m \in Nodes : Stage(c, m) = "absent" /\ Stage(c, m)' # "serving"
    BY <1>1, <1>4 DEF Stage, Becomes, Shapes
  <2> QED
    BY <1>1, <2>1, <2>2 DEF ServedIsHeld, Ends, PeerOf, Stage, LiveAt
<1>7. LetGoHere'
  <2>1. \A m \in Nodes : c \notin letgo[m]
    BY <1>1, SessionsAssumption DEF LetGoHere, Ends, NoConnection
  <2> QED
    BY <1>1, <2>1 DEF LetGoHere, Becomes, Shapes, Ends
<1>8. LowerKept'
  <2>1. \A d \in Connections : conn[d].dialer \in Nodes => d # c
    BY <1>1, SessionsAssumption DEF NoConnection
  <2> QED
    BY <1>1, <2>1 DEF LowerKept, Becomes, Shapes
<1> QED
  BY <1>3, <1>5, <1>6, <1>7, <1>8

\* A step that serves nothing and closes at most, away from the tables.
LEMMA QuietKeeps ==
    ASSUME IInv, NEW c \in Connections, NEW n \in Nodes,
           Judge(n, c) \/ GiveUp(n, c) \/ CloseLetGo(n, c) \/ Learn(n, c) \/ Lose(n, c)
    PROVE  IInv'
<1> USE DEF IInv
<1>1. /\ table' = table /\ chose' = chose
      /\ letgo' = letgo \/ (Becomes(c, ClosedAt(c, n)) /\ letgo' = [letgo EXCEPT ![n] = letgo[n] \ {c}])
  BY ActionsBecome DEF Judge, GiveUp, CloseLetGo, Learn, Lose
<1>2. \/ Judge(n, c) /\ Becomes(c, JudgedAt(c, n)) /\ Stage(c, n) = "hello" /\ letgo' = letgo
      \/ GiveUp(n, c) /\ Becomes(c, ClosedTo(c, n, "gone")) /\ Stage(c, n) \in {"hello", "judged"} /\ letgo' = letgo
      \/ Becomes(c, ClosedAt(c, n))
  BY ActionsBecome DEF Judge, GiveUp, CloseLetGo, Learn, Lose
<1>3. "gone" \in Stages
  BY DEF Stages
<1>4. letgo' \in [Nodes -> SUBSET Connections]
  BY <1>1 DEF Shapes
<1>5. n \in Ends(c)
  <2>1. Stage(c, n) # "absent" => n \in Ends(c)
    BY EndsInUse
  <2>2. c \in letgo[n] => n \in Ends(c)
    BY DEF LetGoHere
  <2> QED
    BY <2>1, <2>2 DEF Judge, GiveUp, CloseLetGo, Learn, Lose
<1>6. Shapes' /\ AllJoined'
  BY <1>1, <1>2, <1>3, <1>4, <1>5, JoinedAfter DEF Shapes
<1>7. LowerKept'
  BY <1>1, <1>2, <1>3, OrderAfter
<1>8. ASSUME NEW d \in Connections, NEW m \in Nodes
      PROVE  /\ Ends(d)' = Ends(d) /\ PeerOf(d, m)' = PeerOf(d, m)
             /\ LiveAt(d, m)' => LiveAt(d, m)
             /\ Stage(d, m)' = "serving" <=> Stage(d, m) = "serving"
             /\ Becomes(c, ClosedAt(c, n)) => (LiveAt(d, m)' => ~(d = c /\ m = n))
  <2> HIDE DEF IInv
  <2>0. Shapes
    BY DEF IInv
  <2>1. CASE Becomes(c, JudgedAt(c, n)) /\ Stage(c, n) = "hello"
    BY <2>0, <1>3, <2>1, FieldsAfter
  <2>2. CASE Becomes(c, ClosedTo(c, n, "gone")) /\ Stage(c, n) \in {"hello", "judged"}
    BY <2>0, <2>2, <1>3, FieldsAfter
  <2>3. CASE Becomes(c, ClosedAt(c, n))
    BY <2>0, <1>3, <2>3, FieldsAfter
  <2> QED
    BY <1>2, <2>1, <2>2, <2>3
<1>9. LetGoHere'
  BY <1>1, <1>8 DEF LetGoHere, Shapes
<1>10. ServedIsHeld'
  <2>1. \A d \in Connections, m \in Nodes : LiveAt(d, m)' /\ d \notin letgo'[m] => d \notin letgo[m]
    BY <1>1, <1>8 DEF Shapes
  <2> QED
    BY <1>1, <1>8, <2>1 DEF ServedIsHeld
<1> QED
  BY <1>6, <1>7, <1>9, <1>10

\* The three ways a connection is installed, in terms of what the table
\* holds of its peer.
LEMMA InstallKeepsServed ==
    ASSUME IInv, NEW c \in Connections, NEW n \in Nodes, Install(n, c)
    PROVE  Shapes' /\ AllJoined' /\ LetGoHere' /\ ServedIsHeld'
<1> DEFINE p == PeerOf(c, n)
<1>1. Shapes /\ AllJoined /\ LetGoHere /\ ServedIsHeld
  BY DEF IInv
<1>2. Becomes(c, StagedAt(c, n, "serving")) /\ "serving" \in Stages
  BY <1>1, ActionsBecome DEF Stages
<1>3. n \in Ends(c) /\ Stage(c, n) # "serving"
  BY DEF Install, Ready, Ends
<1>4. p \in Nodes
  BY <1>1, <1>3, EndsInUse
<1>5. ASSUME NEW d \in Connections, NEW m \in Nodes
      PROVE  /\ Ends(d)' = Ends(d) /\ PeerOf(d, m)' = PeerOf(d, m)
             /\ LiveAt(d, m)' <=> LiveAt(d, m)
             /\ Stage(d, m)' = IF d = c /\ m = n THEN "serving" ELSE Stage(d, m)
  BY <1>1, <1>2, FieldsAfter
<1>6. PICK gone \in Held :
        /\ \/ table' = [table EXCEPT ![n] = [table[n] EXCEPT ![p] = c]] /\ gone = table[n][p]
           \/ \E v \in Nodes : /\ table' = [table EXCEPT ![n] = [[table[n] EXCEPT ![v] = None] EXCEPT ![p] = c]]
                              /\ gone = table[n][v] /\ table[n][p] = None
           \/ table' = table /\ gone = c
        /\ letgo' = [letgo EXCEPT ![n] = letgo[n] \cup ({gone} \ {None})]
  <2> HIDE DEF p
  <2>0. None \in Held /\ c \in Held /\ \A v \in Nodes : table[n][v] \in Held
    BY <1>1 DEF Shapes, Held
  <2>1. CASE InstallLoser(n, c)
    <3>1. table' = table /\ letgo' = [letgo EXCEPT ![n] = letgo[n] \cup ({c} \ {None})]
      BY <2>1, <1>1, SessionsAssumption DEF InstallLoser, Shapes
    <3> QED
      BY <3>1, <2>0
  <2>2. CASE InstallOver(n, c)
    <3>1. /\ table' = [table EXCEPT ![n] = [table[n] EXCEPT ![p] = c]]
          /\ letgo' = [letgo EXCEPT ![n] = letgo[n] \cup ({table[n][p]} \ {None})]
      BY <2>2, <1>1, <1>4 DEF InstallOver, Shapes, p
    <3> QED
      BY <3>1, <2>0, <1>4
  <2>3. CASE InstallFirst(n, c)
    <3>1. table[n][p] = None
      BY <2>3 DEF InstallFirst, p
    <3>2. CASE table' = [table EXCEPT ![n] = [table[n] EXCEPT ![p] = c]] /\ letgo' = letgo
      <4>1. letgo' = [letgo EXCEPT ![n] = letgo[n] \cup ({table[n][p]} \ {None})]
        BY <3>1, <3>2, <1>1 DEF Shapes
      <4> QED
        BY <3>2, <4>1, <2>0, <1>4
    <3>3. CASE \E v \in Peers(n) :
                 /\ table' = [table EXCEPT ![n] = [[table[n] EXCEPT ![v] = None] EXCEPT ![p] = c]]
                 /\ letgo' = [letgo EXCEPT ![n] = letgo[n] \cup {table[n][v]}]
      <4>1. PICK v \in Nodes :
                 /\ table' = [table EXCEPT ![n] = [[table[n] EXCEPT ![v] = None] EXCEPT ![p] = c]]
                 /\ letgo' = [letgo EXCEPT ![n] = letgo[n] \cup {table[n][v]}]
                 /\ table[n][v] # None
        BY <3>3 DEF Peers
      <4>2. {table[n][v]} = {table[n][v]} \ {None}
        BY <4>1
      <4> QED
        BY <4>1, <4>2, <2>0, <3>1
    <3> QED
      BY <2>3, <1>1, <1>4, <3>2, <3>3 DEF InstallFirst, Shapes, p
  <2> QED
    BY <2>1, <2>2, <2>3 DEF Install
<1>7. \A d \in Connections : d # None
  BY SessionsAssumption
<1>8. /\ \A m \in Nodes : m # n => table'[m] = table[m] /\ letgo'[m] = letgo[m]
      /\ \A d \in Connections : d \in letgo'[n] <=> d \in letgo[n] \/ d = gone
      /\ gone \in Connections => gone = c \/ \E q \in Nodes : table[n][q] = gone
      /\ \A q \in Nodes : table'[n][q] = table[n][q] \/ (table'[n][q] = c /\ q = p) \/ table'[n][q] = None
      /\ gone = c \/ table'[n][p] = c
      /\ \A q \in Nodes : table[n][q] \in Connections /\ table[n][q] # gone /\ ~(table'[n][p] = c /\ q = p) =>
            table'[n][q] = table[n][q]
  <2> HIDE DEF p
  <2>1. CASE table' = table /\ gone = c
    BY <1>1, <1>6, <1>7, <2>1 DEF Shapes
  <2>2. CASE table' = [table EXCEPT ![n] = [table[n] EXCEPT ![p] = c]] /\ gone = table[n][p]
    BY <1>1, <1>4, <1>6, <1>7, <2>2 DEF Shapes
  <2>3. ASSUME NEW v \in Nodes,
               table' = [table EXCEPT ![n] = [[table[n] EXCEPT ![v] = None] EXCEPT ![p] = c]],
               gone = table[n][v], table[n][p] = None
        PROVE  <1>8!:
    BY <1>1, <1>4, <1>6, <1>7, <2>3 DEF Shapes
  <2> QED
    BY <1>6, <2>1, <2>2, <2>3
<1>9. Shapes'
  <2> HIDE DEF p
  <2>1. table' \in [Nodes -> [Nodes -> Held]]
    BY SMTT(40), <1>1, <1>4, <1>6 DEF Shapes, Held
  <2>2. letgo' \in [Nodes -> SUBSET Connections]
    BY <1>1, <1>6 DEF Shapes, Held
  <2>3. chose' \subseteq Nodes \X Connections \X Connections
    <3>1. \A old \in Held : old # None => old \in Connections
      BY DEF Held
    <3>2. table[n][p] \in Held
      BY <1>1, <1>4 DEF Shapes
    <3> QED
      BY <1>1, <3>1, <3>2 DEF Install, InstallLoser, InstallOver, InstallFirst, Shapes, p
  <2>4. conn' \in [Connections -> ConnectionType]
    BY <1>1, <1>2, <1>3, JoinedAfter
  <2> QED
    BY <2>1, <2>2, <2>3, <2>4 DEF Shapes
<1>10. AllJoined'
  BY <1>1, <1>2, <1>3, JoinedAfter
<1> HIDE DEF p
<1>11. LetGoHere'
  <2>1. gone \in Connections => n \in Ends(gone)
    BY <1>1, <1>3, <1>8 DEF ServedIsHeld
  <2>2. ASSUME NEW m \in Nodes, NEW d \in Connections, d \in letgo'[m]
        PROVE  m \in Ends(d)
    BY <1>1, <1>8, <2>1, <2>2 DEF LetGoHere
  <2> QED
    BY <1>5, <1>9, <2>2 DEF LetGoHere, Shapes
<1>12. ASSUME NEW d \in Connections, NEW m \in Nodes
       PROVE  /\ \A q \in Nodes : table'[m][q] = d => m \in Ends(d)' /\ q = PeerOf(d, m)' /\ Stage(d, m)' = "serving"
              /\ Stage(d, m)' = "serving" /\ LiveAt(d, m)' /\ d \notin letgo'[m] => table'[m][PeerOf(d, m)'] = d
  <2>1. CASE m # n
    BY <1>1, <1>5, <1>8, <2>1 DEF ServedIsHeld
  <2>2. CASE m = n
    <3>1. ASSUME NEW q \in Nodes, table'[n][q] = d
          PROVE  n \in Ends(d)' /\ q = PeerOf(d, n)' /\ Stage(d, n)' = "serving"
      <4>1. CASE d = c /\ q = p
        BY <1>3, <1>5, <2>2, <4>1 DEF p
      <4>2. CASE table[n][q] = d
        BY <1>1, <1>5, <2>2, <4>2 DEF ServedIsHeld
      <4> QED
        BY <1>7, <1>8, <3>1, <4>1, <4>2
    <3>2. ASSUME Stage(d, n)' = "serving", LiveAt(d, n)', d \notin letgo'[n]
          PROVE  table'[n][PeerOf(d, n)'] = d
      <4>1. CASE d = c
        BY <1>5, <1>8, <3>2, <4>1, <2>2 DEF p
      <4>2. CASE d # c
        <5>1. Stage(d, n) = "serving" /\ LiveAt(d, n) /\ d \notin letgo[n] /\ d # gone
          BY <1>5, <1>8, <2>2, <3>2, <4>2
        <5>2. table[n][PeerOf(d, n)] = d
          BY <1>1, <5>1 DEF ServedIsHeld
        <5>3. PeerOf(d, n) \in Nodes
          BY <1>1, <5>1, EndsInUse
        <5>4. ~(table'[n][p] = c /\ PeerOf(d, n) = p)
          BY <1>6, <1>7, <4>2, <5>1, <5>2, <1>4, <1>1 DEF Shapes
        <5> QED
          BY <1>5, <1>8, <2>2, <5>1, <5>2, <5>3, <5>4
      <4> QED
        BY <4>1, <4>2
    <3> QED
      BY <2>2, <3>1, <3>2
  <2> QED
    BY <2>1, <2>2
<1>13. ServedIsHeld'
  BY <1>12 DEF ServedIsHeld
<1> QED
  BY <1>9, <1>10, <1>11, <1>13

\* Whichever of two is kept, the other has no lower dialer.
LEMMA InstallKeepsOrder ==
    ASSUME IInv, NEW c \in Connections, NEW n \in Nodes, Install(n, c)
    PROVE  LowerKept'
<1> DEFINE old == table[n][PeerOf(c, n)]
<1>1. Shapes /\ AllJoined /\ ServedIsHeld /\ LowerKept
  BY DEF IInv
<1>2. n \in Ends(c)
  BY DEF Install, Ready, Ends
<1>3. PeerOf(c, n) \in Nodes /\ conn[c].dialer \in Nodes
  BY <1>1, <1>2, EndsInUse
<1>4. old \in Held
  BY <1>1, <1>3 DEF Shapes
<1>5. old # None => old \in Connections /\ conn[old].dialer \in Nodes
  <2>1. ASSUME old # None
        PROVE  n \in Ends(old) /\ old \in Connections
    BY <1>1, <1>3, <1>4, <2>1 DEF ServedIsHeld, Held
  <2> QED
    BY <1>1, <2>1, EndsInUse
<1> HIDE DEF old
<1>6. \A d \in Connections : conn'[d].dialer = conn[d].dialer
  <2>1. Becomes(c, StagedAt(c, n, "serving")) /\ "serving" \in Stages
    BY <1>1, ActionsBecome DEF Stages
  <2> QED
    BY <1>1, <2>1, FieldsAfter
<1>7. \/ chose' = chose
      \/ /\ old # None /\ chose' = chose \cup {<<n, old, c>>}
         /\ ~(conn[old].dialer = conn[c].dialer) /\ ~(conn[c].dialer < conn[old].dialer)
      \/ /\ old # None /\ chose' = chose \cup {<<n, c, old>>}
         /\ conn[old].dialer = conn[c].dialer \/ conn[c].dialer < conn[old].dialer
  BY DEF Install, InstallLoser, InstallOver, InstallFirst, NewWins, old
<1>8. \A a, b \in Nodes : (~(b < a) => a <= b) /\ (a = b \/ b < a => b <= a)
  BY SessionsAssumption
<1>9. ASSUME NEW x \in chose'
      PROVE  /\ conn[x[2]].dialer \in Nodes /\ conn[x[3]].dialer \in Nodes
             /\ conn[x[2]].dialer <= conn[x[3]].dialer
             /\ x[2] \in Connections /\ x[3] \in Connections
  <2>1. CASE x \in chose
    BY <1>1, <2>1 DEF LowerKept, Shapes
  <2>2. CASE x = <<n, old, c>> /\ old # None /\ conn[old].dialer <= conn[c].dialer
    BY <1>3, <1>5, <2>2
  <2>3. CASE x = <<n, c, old>> /\ old # None /\ conn[c].dialer <= conn[old].dialer
    BY <1>3, <1>5, <2>3
  <2> QED
    BY <1>3, <1>5, <1>7, <1>8, <2>1, <2>2, <2>3
<1> QED
  BY <1>6, <1>9 DEF LowerKept

\* A session removed if it is still the same.
LEMMA RemovalKeeps ==
    ASSUME IInv, NEW c \in Connections, NEW n \in Nodes,
           ServeEnds(n, c) \/ Evict(n, c)
    PROVE  IInv'
<1>1. Shapes /\ AllJoined /\ LetGoHere /\ ServedIsHeld /\ LowerKept
  BY DEF IInv
<1>2. /\ Stage(c, n) = "serving" /\ ~LiveAt(c, n)
      /\ table' = WithoutSame(n, c) /\ letgo' = letgo /\ chose' = chose
      /\ conn' = conn \/ Becomes(c, StagedAt(c, n, "gone"))
  BY <1>1, ActionsBecome DEF ServeEnds, Evict
<1>3. n \in Ends(c) /\ PeerOf(c, n) \in Nodes /\ "gone" \in Stages
  BY <1>1, <1>2, EndsInUse DEF Stages
<1>4. ASSUME NEW d \in Connections, NEW m \in Nodes
      PROVE  /\ Ends(d)' = Ends(d) /\ PeerOf(d, m)' = PeerOf(d, m)
             /\ conn'[d].dialer = conn[d].dialer
             /\ LiveAt(d, m)' <=> LiveAt(d, m)
             /\ ~(d = c /\ m = n) => Stage(d, m)' = Stage(d, m)
             /\ Stage(d, m)' = "serving" => Stage(d, m) = "serving"
  <2>1. CASE conn' = conn
    BY <2>1 DEF Ends, PeerOf, LiveAt, Stage
  <2>2. CASE Becomes(c, StagedAt(c, n, "gone"))
    BY <1>1, <1>3, <2>2, FieldsAfter
  <2> QED
    BY <1>2, <2>1, <2>2
<1>5. /\ \A m, q \in Nodes : table'[m][q] # None => table'[m][q] = table[m][q]
      /\ \A m, q \in Nodes : table[m][q] # c => table'[m][q] = table[m][q]
      /\ \A m, q \in Nodes : m # n => table'[m][q] = table[m][q]
      /\ table' \in [Nodes -> [Nodes -> Held]]
  BY <1>1, <1>2, <1>3 DEF WithoutSame, Shapes, Held
<1>6. \A q \in Nodes : table'[n][q] # c
  BY <1>1, <1>2, <1>3, SessionsAssumption DEF WithoutSame, ServedIsHeld, Shapes
<1>7. Shapes' /\ AllJoined'
  <2>1. CASE conn' = conn
    BY <1>1, <1>2, <1>5, <2>1 DEF Shapes, AllJoined
  <2>2. CASE Becomes(c, StagedAt(c, n, "gone"))
    BY <1>1, <1>2, <1>3, <1>5, <2>2, JoinedAfter DEF Shapes
  <2> QED
    BY <1>2, <2>1, <2>2
<1>8. LetGoHere'
  BY <1>1, <1>2, <1>4 DEF LetGoHere, Shapes
<1>9. LowerKept'
  BY <1>1, <1>2, <1>4 DEF LowerKept, Shapes
<1>10. ASSUME NEW d \in Connections, NEW m \in Nodes
       PROVE  /\ \A q \in Nodes : table'[m][q] = d => m \in Ends(d)' /\ q = PeerOf(d, m)' /\ Stage(d, m)' = "serving"
              /\ Stage(d, m)' = "serving" /\ LiveAt(d, m)' /\ d \notin letgo'[m] => table'[m][PeerOf(d, m)'] = d
  <2>1. d # None
    BY SessionsAssumption
  <2>2. CASE d = c /\ m = n
    BY <1>2, <1>4, <1>6, <2>2
  <2>3. CASE ~(d = c /\ m = n)
    <3>1. Stage(d, m) = "serving" => PeerOf(d, m) \in Nodes
      BY <1>1, EndsInUse
    <3>2. \A q \in Nodes : table'[m][q] = d <=> table[m][q] = d
      BY <1>5, <2>1, <2>3
    <3> QED
      BY <1>1, <1>2, <1>4, <2>3, <3>1, <3>2 DEF ServedIsHeld
  <2> QED
    BY <2>2, <2>3
<1> QED
  BY <1>7, <1>8, <1>9, <1>10 DEF IInv, ServedIsHeld

\* A session removed to be closed.
LEMMA DisconnectKeeps ==
    ASSUME IInv, NEW n \in Nodes, NEW p \in Nodes, Disconnect(n, p)
    PROVE  IInv'
<1>1. Shapes /\ AllJoined /\ LetGoHere /\ ServedIsHeld /\ LowerKept
  BY DEF IInv
<1> DEFINE c == table[n][p]
<1>2. c \in Connections /\ n \in Ends(c)
  BY <1>1 DEF Disconnect, Shapes, Held, ServedIsHeld
<1>3. /\ conn' = conn /\ chose' = chose
      /\ letgo' = [letgo EXCEPT ![n] = letgo[n] \cup {c}]
      /\ table' = [table EXCEPT ![n] = [table[n] EXCEPT ![p] = None]]
  BY <1>1 DEF Disconnect, Shapes
<1> HIDE DEF c
<1>4. Shapes' /\ AllJoined' /\ LowerKept' /\ LetGoHere'
  BY <1>1, <1>2, <1>3 DEF Shapes, Held, AllJoined, LowerKept, LetGoHere, Ends
<1>5. \A d \in Connections, m \in Nodes : /\ Ends(d)' = Ends(d) /\ PeerOf(d, m)' = PeerOf(d, m)
                                        /\ Stage(d, m)' = Stage(d, m) /\ (LiveAt(d, m)' <=> LiveAt(d, m))
  BY <1>3 DEF Ends, PeerOf, Stage, LiveAt
<1>6. ASSUME NEW d \in Connections, NEW m \in Nodes
      PROVE  /\ \A q \in Nodes : table'[m][q] = d => table[m][q] = d
             /\ d \notin letgo'[m] => d \notin letgo[m]
             /\ \A q \in Nodes : d \notin letgo'[m] /\ table[m][q] = d => table'[m][q] = d
  BY <1>1, <1>2, <1>3, SessionsAssumption DEF Shapes, c
<1>7. \A d \in Connections, m \in Nodes : Stage(d, m) = "serving" => PeerOf(d, m) \in Nodes
  BY <1>1, EndsInUse
<1>8. ServedIsHeld'
  BY <1>1, <1>5, <1>6, <1>7 DEF ServedIsHeld
<1> QED
  BY <1>4, <1>8 DEF IInv

\* All of one node's ends are gone, and its table with them.
LEMMA RestartKeeps ==
    ASSUME IInv, NEW n \in Nodes, Restart(n)
    PROVE  IInv'
<1>1. Shapes /\ AllJoined /\ LetGoHere /\ ServedIsHeld /\ LowerKept
  BY DEF IInv
<1>2. "gone" \in Stages
  BY DEF Stages
<1>3. ASSUME NEW d \in Connections
      PROVE  conn'[d] = IF n \in Ends(d) THEN ClosedTo(d, n, "gone") ELSE conn[d]
  BY <1>1 DEF Restart, Closing, ClosedTo, Shapes
<1>4. /\ conn' \in [Connections -> ConnectionType]
      /\ table' = [table EXCEPT ![n] = [q \in Nodes |-> None]]
      /\ letgo' = [letgo EXCEPT ![n] = {}] /\ chose' = chose
  <2>1. \A d \in Connections : conn'[d] \in ConnectionType
    BY <1>1, <1>2, <1>3, ConnectionShapes DEF Shapes
  <2>2. \E f : conn' = [d \in Connections |-> f[d]]
    <3> DEFINE f == [d \in Connections |-> IF n \in Ends(d) THEN Closing(d, n, "gone") ELSE conn[d]]
    <3>1. conn' = f
      BY DEF Restart
    <3>2. f = [d \in Connections |-> f[d]]
      OBVIOUS
    <3> QED
      BY <3>1, <3>2
  <2> QED
    BY <2>1, <2>2 DEF Restart
<1>5. ASSUME NEW d \in Connections, NEW m \in Nodes
      PROVE  /\ Ends(d)' = Ends(d) /\ PeerOf(d, m)' = PeerOf(d, m)
             /\ conn'[d].dialer = conn[d].dialer /\ conn'[d].acceptor = conn[d].acceptor
             /\ m # n => Stage(d, m)' = Stage(d, m) /\ (LiveAt(d, m)' <=> LiveAt(d, m))
             /\ Stage(d, n)' # "serving"
             /\ Stage(d, m)' # "absent" => Stage(d, m) # "absent" \/ m \in Ends(d)
  <2>1. conn[d] \in ConnectionType
    BY <1>1 DEF Shapes
  <2>2. /\ ClosedTo(d, n, "gone").dialer = conn[d].dialer /\ ClosedTo(d, n, "gone").acceptor = conn[d].acceptor
        /\ ClosedTo(d, n, "gone").closed = conn[d].closed \cup {n}
        /\ ClosedTo(d, n, "gone").stage[m] = IF m = n THEN "gone" ELSE conn[d].stage[m]
        /\ ClosedTo(d, n, "gone").stage[n] = "gone"
    BY <2>1 DEF ClosedTo, ConnectionType
  <2>3. n \notin Ends(d) => Stage(d, n) = "absent"
    BY <1>1, EndsInUse
  <2> QED
    BY <1>3, <2>2, <2>3 DEF Ends, PeerOf, Stage, LiveAt
<1>6. Shapes'
  BY <1>1, <1>4 DEF Shapes, Held
<1>7. AllJoined'
  <2>1. ASSUME NEW d \in Connections
        PROVE  Joined(conn'[d])
    <3>1. CASE n \notin Ends(d)
      BY <1>1, <1>3, <3>1 DEF AllJoined
    <3>2. CASE n \in Ends(d)
      <4>1. /\ conn[d].dialer \in Nodes /\ conn[d].acceptor \in Nodes /\ conn[d].dialer # conn[d].acceptor
            /\ \A m \in Nodes : Stage(d, m) # "absent" => m \in Ends(d)
        BY <1>1, <3>2, EndsInUse
      <4> QED
        BY <1>5, <4>1 DEF Joined, Stage, Ends
    <3> QED
      BY <3>1, <3>2
  <2> QED
    BY <2>1 DEF AllJoined
<1>8. LetGoHere' /\ LowerKept'
  BY <1>1, <1>4, <1>5 DEF LetGoHere, LowerKept, Shapes
<1>9. \A d \in Connections, m \in Nodes : Stage(d, m) = "serving" => PeerOf(d, m) \in Nodes
  BY <1>1, EndsInUse
<1>10. ServedIsHeld'
  <2>1. \A d \in Connections, q \in Nodes : table'[n][q] # d
    BY <1>1, <1>4, SessionsAssumption DEF Shapes
  <2>2. \A m \in Nodes : m # n => table'[m] = table[m] /\ letgo'[m] = letgo[m]
    BY <1>1, <1>4 DEF Shapes
  <2> QED
    BY <1>1, <1>5, <1>9, <2>1, <2>2 DEF ServedIsHeld
<1> QED
  BY <1>6, <1>7, <1>8, <1>10 DEF IInv

\* A connection both ends are done with.
LEMMA ForgetKeeps ==
    ASSUME IInv, NEW c \in Connections, Forget(c)
    PROVE  IInv'
<1>1. Shapes /\ AllJoined /\ LetGoHere /\ ServedIsHeld /\ LowerKept
  BY DEF IInv
<1>2. /\ Becomes(c, NoConnection) /\ table' = table /\ letgo' = letgo
      /\ \A m \in Ends(c) : Stage(c, m) = "gone" /\ c \notin letgo[m]
      /\ \A x \in chose' : x \in chose /\ x[2] # c /\ x[3] # c
  BY DEF Forget, Becomes
<1>3. \A d \in Connections : conn'[d] = IF d = c THEN NoConnection ELSE conn[d]
  BY <1>1, <1>2 DEF Becomes, Shapes
<1>4. \A m \in Nodes : NoConnection.stage[m] = "absent"
  BY DEF NoConnection
<1>5. Shapes'
  BY <1>1, <1>2, FreshShape DEF Shapes, Becomes
<1>6. AllJoined' /\ LowerKept'
  BY <1>1, <1>2, <1>3 DEF AllJoined, Joined, LowerKept, Shapes
<1>7. LetGoHere'
  BY <1>1, <1>2, <1>3 DEF LetGoHere, Shapes, Ends
<1>8. \A m \in Nodes : Stage(c, m) # "serving"
  BY <1>1, <1>2, EndsInUse
<1>9. ServedIsHeld'
  BY <1>1, <1>2, <1>3, <1>4, <1>8 DEF ServedIsHeld, Ends, PeerOf, Stage, LiveAt
<1> QED
  BY <1>5, <1>6, <1>7, <1>9 DEF IInv

LEMMA InitIInv == Init => IInv
<1> SUFFICES ASSUME Init PROVE IInv
  OBVIOUS
<1>1. Shapes
  BY FreshShape DEF Init, Shapes, Held
<1>2. AllJoined /\ LetGoHere /\ LowerKept
  BY DEF Init, AllJoined, Joined, LetGoHere, LowerKept
<1>3. \A n \in Nodes, c \in Connections : Stage(c, n) = "absent"
  BY DEF Init, Stage, NoConnection
<1>4. ServedIsHeld
  BY <1>3, SessionsAssumption DEF Init, ServedIsHeld
<1> QED
  BY <1>1, <1>2, <1>4 DEF IInv

LEMMA NextIInv == IInv /\ [Next]_vars => IInv'
<1> SUFFICES ASSUME IInv, [Next]_vars PROVE IInv'
  OBVIOUS
<1>1. CASE Dialing
  BY <1>1, DialKeeps DEF Dialing
<1>2. ASSUME NEW n \in Nodes, NEW c \in Connections,
             \/ Progress(n, c) \/ CloseLetGo(n, c)
             \/ Learn(n, c) \/ Lose(n, c) \/ ServeEnds(n, c) \/ Evict(n, c)
      PROVE  IInv'
  <2>1. CASE Install(n, c)
    BY <2>1, InstallKeepsServed, InstallKeepsOrder DEF IInv
  <2>2. CASE Judge(n, c) \/ GiveUp(n, c) \/ CloseLetGo(n, c) \/ Learn(n, c) \/ Lose(n, c)
    BY <2>2, QuietKeeps
  <2>3. CASE ServeEnds(n, c) \/ Evict(n, c)
    BY <2>3, RemovalKeeps
  <2> QED
    BY <1>2, <2>1, <2>2, <2>3 DEF Progress
<1>3. ASSUME NEW n \in Nodes, NEW p \in Nodes, Disconnect(n, p)
      PROVE  IInv'
  BY <1>3, DisconnectKeeps
<1>4. CASE \/ \E n, p \in Nodes : Refuse(n, p) \/ Relent(n, p)
           \/ UNCHANGED vars
  <2>1. conn' = conn /\ table' = table /\ letgo' = letgo /\ chose' = chose
    BY <1>4 DEF Refuse, Relent, vars
  <2> QED
    BY <2>1 DEF IInv, Shapes, AllJoined, LetGoHere, LowerKept, ServedIsHeld,
                Ends, PeerOf, Stage, LiveAt
<1>5. CASE \E n \in Nodes : Restart(n)
  BY <1>5, RestartKeeps
<1>6. CASE \E c \in Connections : Forget(c)
  BY <1>6, ForgetKeeps
<1> QED
  BY <1>1, <1>2, <1>3, <1>4, <1>5, <1>6 DEF Next

LEMMA SessionsAreSound == Spec => []IInv
  BY InitIInv, NextIInv, PTL DEF Spec

\* What a table holds is served, and what is served and open is held: no
\* connection lives on that could be neither reused, evicted nor
\* disconnected, whatever serve loops, evictions and installs overtake one
\* another (SessionTable::remove_if_same and insert).
THEOREM ServedAreHeld == Spec => []ServedIsHeld
  BY SessionsAreSound, PTL DEF IInv

\* Two nodes that dialed each other never each drop the live connection the
\* other kept (new_session_wins).
THEOREM BothKeepOne == Spec => []DialsConverge
<1>1. IInv => DialsConverge
  <2> SUFFICES ASSUME IInv, NEW x \in chose, NEW y \in chose, x[2] = y[3], x[3] = y[2]
               PROVE  conn[x[2]].dialer = conn[x[3]].dialer
    BY DEF DialsConverge
  <2>1. /\ conn[x[2]].dialer \in Nat /\ conn[x[3]].dialer \in Nat
        /\ conn[x[2]].dialer <= conn[x[3]].dialer /\ conn[x[3]].dialer <= conn[x[2]].dialer
    BY SessionsAssumption DEF IInv, LowerKept
  <2> QED
    BY <2>1
<1> QED
  BY <1>1, SessionsAreSound, PTL

-----------------------------------------------------------------------------
(* The refused *)

\* What a step can change of the judged handshakes and of the tables.
ChangesLittle ==
    /\ \A c \in Connections, m \in Nodes : Stage(c, m)' = "judged" =>
         /\ Stage(c, m) = "judged" \/ (conn[c].acceptor = m /\ <<m, conn[c].dialer>> \notin refused)
         /\ conn'[c].dialer = conn[c].dialer /\ conn'[c].acceptor = conn[c].acceptor
    /\ \A m, q \in Nodes : table'[m][q] # None =>
         /\ table'[m][q] = table[m][q] \/ \E c \in Connections :
               /\ table'[m][q] = c /\ m \in Ends(c) /\ q = PeerOf(c, m)
               /\ conn[c].dialer = m \/ (conn[c].acceptor = m /\ Stage(c, m) = "judged")
         /\ conn'[table'[m][q]].dialer = conn[table'[m][q]].dialer

LEMMA StepsChangeLittle ==
    ASSUME IInv, [Next]_vars
    PROVE  ChangesLittle
<1>1. Shapes /\ AllJoined /\ ServedIsHeld
  BY DEF IInv
<1>2. \A m, q \in Nodes : table[m][q] # None => table[m][q] \in Connections
  BY <1>1 DEF Shapes, Held
<1>3. ASSUME NEW n \in Nodes, NEW p \in Nodes, NEW c \in Connections, Dial(n, p, c)
      PROVE  ChangesLittle
  <2>1. /\ Becomes(c, DialedBy(n, p)) /\ conn[c] = NoConnection
        /\ table' = table /\ refused' = refused
    BY <1>1, <1>3, ActionsBecome DEF Dial
  <2>2. \A m \in Nodes : NoConnection.stage[m] = "absent" /\ DialedBy(n, p).stage[m] \in {"absent", "hello"}
    BY DEF NoConnection, DialedBy
  <2>3. \A d \in Connections : conn'[d] = IF d = c THEN DialedBy(n, p) ELSE conn[d]
    BY <1>1, <2>1 DEF Becomes, Shapes
  <2>4. \A m, q \in Nodes : table[m][q] # c
    BY <1>1, <2>1, <2>2 DEF ServedIsHeld, Stage
  <2> QED
    BY <1>2, <2>1, <2>2, <2>3, <2>4 DEF ChangesLittle, Stage
<1>4. ASSUME NEW n \in Nodes, NEW c \in Connections,
             \/ Progress(n, c) \/ CloseLetGo(n, c)
             \/ Learn(n, c) \/ Lose(n, c) \/ ServeEnds(n, c) \/ Evict(n, c)
      PROVE  ChangesLittle
  <2>1. \A d \in Connections, m \in Nodes :
           /\ conn'[d].dialer = conn[d].dialer /\ conn'[d].acceptor = conn[d].acceptor
           /\ Stage(d, m)' = "judged" => Stage(d, m) = "judged" \/ (d = c /\ m = n /\ Judge(n, c))
    <3>1. "gone" \in Stages /\ "serving" \in Stages /\ "gone" # "judged" /\ "serving" # "judged"
      BY DEF Stages
    <3>2. CASE Judge(n, c)
      BY <1>1, <3>1, <3>2, ActionsBecome, FieldsAfter
    <3>3. CASE GiveUp(n, c)
      BY <1>1, <3>1, <3>3, ActionsBecome, FieldsAfter
    <3>4. CASE Install(n, c)
      BY <1>1, <3>1, <3>4, ActionsBecome, FieldsAfter
    <3>5. CASE CloseLetGo(n, c) \/ Learn(n, c) \/ Lose(n, c)
      BY <1>1, <3>1, <3>5, ActionsBecome, FieldsAfter
    <3>6. CASE ServeEnds(n, c)
      BY <1>1, <3>1, <3>6, ActionsBecome, FieldsAfter
    <3>7. CASE Evict(n, c)
      BY <3>7 DEF Evict, Stage
    <3> QED
      BY <1>4, <3>2, <3>3, <3>4, <3>5, <3>6, <3>7 DEF Progress
  <2>2. refused' = refused /\ (Judge(n, c) => conn[c].acceptor = n /\ <<n, conn[c].dialer>> \notin refused)
    BY <1>4 DEF Progress, GiveUp, Install, Judge, CloseLetGo, Learn, Lose, ServeEnds, Evict
  <2>3. ASSUME NEW m \in Nodes, NEW q \in Nodes, table'[m][q] # None
        PROVE  /\ table'[m][q] = table[m][q] \/
                    /\ table'[m][q] = c /\ m \in Ends(c) /\ q = PeerOf(c, m)
                    /\ conn[c].dialer = m \/ (conn[c].acceptor = m /\ Stage(c, m) = "judged")
               /\ table'[m][q] \in Connections
    <3>1. CASE table' = table
      BY <1>2, <2>3, <3>1
    <3>2. CASE table' = WithoutSame(n, c)
      BY <1>1, <1>2, <2>3, <3>2 DEF WithoutSame, Shapes
    <3>3. CASE Install(n, c)
      <4>1. n \in Ends(c) /\ (conn[c].dialer = n \/ (conn[c].acceptor = n /\ Stage(c, n) = "judged"))
        BY <3>3 DEF Install, Ready, Ends
      <4>2. PeerOf(c, n) \in Nodes
        BY <1>1, <4>1, EndsInUse
      <4>3. table'[m][q] = table[m][q] \/ (m = n /\ q = PeerOf(c, n) /\ table'[m][q] = c)
        <5> DEFINE r == PeerOf(c, n)
        <5>1. PICK v \in Nodes :
                 \/ table' = table
                 \/ table' = [table EXCEPT ![n] = [table[n] EXCEPT ![r] = c]]
                 \/ table' = [table EXCEPT ![n] = [[table[n] EXCEPT ![v] = None] EXCEPT ![r] = c]]
          <6>1. CASE InstallLoser(n, c) \/ InstallOver(n, c)
            BY <1>1, <4>2, <6>1 DEF InstallLoser, InstallOver, Shapes
          <6>2. CASE InstallFirst(n, c)
            BY ZenonT(40), <1>1, <4>2, <6>2 DEF InstallFirst, Shapes, Peers
          <6> QED
            BY <3>3, <6>1, <6>2 DEF Install
        <5>2. r \in Nodes
          BY <4>2
        <5> HIDE DEF r
        <5>3. table'[m][q] = table[m][q] \/ (m = n /\ q = r /\ table'[m][q] = c)
          BY <1>1, <2>3, <5>1, <5>2 DEF Shapes
        <5> QED
          BY <5>3 DEF r
      <4> QED
        BY <1>2, <2>3, <4>1, <4>3
    <3> QED
      BY <1>4, <3>1, <3>2, <3>3
      DEF Progress, GiveUp, Judge, CloseLetGo, Learn, Lose, ServeEnds, Evict
  <2> QED
    BY <2>1, <2>2, <2>3 DEF ChangesLittle
<1>5. ASSUME NEW n \in Nodes, NEW p \in Nodes, Disconnect(n, p) \/ Refuse(n, p) \/ Relent(n, p)
      PROVE  ChangesLittle
  <2>1. conn' = conn
        /\ \A m, q \in Nodes : table'[m][q] = table[m][q] \/ table'[m][q] = None
    BY <1>1, <1>5 DEF Disconnect, Refuse, Relent, Shapes
  <2> QED
    BY <2>1 DEF ChangesLittle, Stage
<1>6. ASSUME NEW n \in Nodes, Restart(n)
      PROVE  ChangesLittle
  <2>1. refused' = refused
        /\ \A m, q \in Nodes : table'[m][q] = table[m][q] \/ table'[m][q] = None
    BY <1>1, <1>6 DEF Restart, Shapes
  <2>2. ASSUME NEW d \in Connections, NEW m \in Nodes
        PROVE  /\ conn'[d].dialer = conn[d].dialer /\ conn'[d].acceptor = conn[d].acceptor
               /\ Stage(d, m)' = "judged" => Stage(d, m) = "judged"
    <3>1. conn[d] \in ConnectionType
      BY <1>1 DEF Shapes
    <3>2. conn'[d] = IF n \in Ends(d) THEN ClosedTo(d, n, "gone") ELSE conn[d]
      BY <1>1, <1>6 DEF Restart, Closing, ClosedTo, Shapes
    <3>3. /\ ClosedTo(d, n, "gone").dialer = conn[d].dialer /\ ClosedTo(d, n, "gone").acceptor = conn[d].acceptor
          /\ ClosedTo(d, n, "gone").stage[m] = IF m = n THEN "gone" ELSE conn[d].stage[m]
      BY <3>1 DEF ClosedTo, ConnectionType
    <3> QED
      BY <3>2, <3>3 DEF Stage
  <2> QED
    BY <1>2, <2>1, <2>2 DEF ChangesLittle
<1>7. ASSUME NEW c \in Connections, Forget(c)
      PROVE  ChangesLittle
  <2>1. table' = table /\ refused' = refused
        /\ \A d \in Connections : conn'[d] = IF d = c THEN NoConnection ELSE conn[d]
    BY <1>1, <1>7 DEF Forget, Shapes
  <2>2. \A m \in Nodes : NoConnection.stage[m] = "absent"
    BY DEF NoConnection
  <2>3. \A m, q \in Nodes : table[m][q] # c
    BY <1>1, <1>7 DEF ServedIsHeld, Forget
  <2> QED
    BY <1>2, <2>1, <2>2, <2>3 DEF ChangesLittle, Stage
<1>8. CASE UNCHANGED vars
  BY <1>8 DEF vars, ChangesLittle, Stage
<1> QED
  BY <1>3, <1>4, <1>5, <1>6, <1>7, <1>8 DEF Next, Dialing

\* For as long as a node refuses a peer it has disconnected, of which no
\* handshake is past its judgement, the peer has no session it dialed
\* (admission_handshake asks the policy on every connection).
THEOREM TheRefusedStayOut == Spec => RefusedStayOut
<1>1. IInv /\ [Next]_vars =>
        [\A n, p \in Nodes : ShutOut(n, p) => ShutOut(n, p)' \/ <<n, p>> \notin refused']_vars
  <2> SUFFICES ASSUME IInv, [Next]_vars, NEW n \in Nodes, NEW p \in Nodes, ShutOut(n, p),
                      <<n, p>> \in refused'
               PROVE  ShutOut(n, p)'
    OBVIOUS
  <2>1. ChangesLittle
    BY StepsChangeLittle
  <2>2. <<n, p>> \in refused'
    OBVIOUS
  <2>3. ~Judged(n, p)'
    <3>1. \A c \in Connections : conn[c].dialer = p /\ conn[c].acceptor = n => Stage(c, n) # "judged"
      BY DEF ShutOut, Judged
    <3>2. <<n, p>> \in refused
      BY DEF ShutOut
    <3>3. ASSUME NEW c \in Connections, conn'[c].dialer = p, conn'[c].acceptor = n
          PROVE  Stage(c, n)' # "judged"
      BY <2>1, <3>1, <3>2, <3>3 DEF ChangesLittle
    <3> QED
      BY <3>3 DEF Judged
  <2>4. Out(n, p)'
    <3>1. CASE table'[n][p] = None
      BY <3>1 DEF Out
    <3>2. CASE table'[n][p] = table[n][p] /\ table[n][p] # None
      BY <2>1, <3>2 DEF ChangesLittle, ShutOut, Out
    <3>3. ASSUME NEW c \in Connections, table'[n][p] = c, table'[n][p] # None, n \in Ends(c), p = PeerOf(c, n),
                 conn[c].dialer = n \/ (conn[c].acceptor = n /\ Stage(c, n) = "judged")
          PROVE  Out(n, p)'
      <4>1. conn[c].dialer = n
        BY <3>3 DEF ShutOut, Judged, PeerOf, Ends
      <4>2. conn'[c].dialer = conn[c].dialer
        BY <2>1, <3>3 DEF ChangesLittle
      <4> QED
        BY <3>3, <4>1, <4>2 DEF Out
    <3> QED
      BY <2>1, <3>1, <3>2, <3>3 DEF ChangesLittle
  <2> QED
    BY <2>2, <2>3, <2>4 DEF ShutOut
<1> QED
  BY <1>1, SessionsAreSound, PTL DEF Spec, RefusedStayOut

-----------------------------------------------------------------------------
(* The tables are bounded *)

\* A table has no more sessions than it may, and only who can be is refused.
Bounded ==
    /\ \A n \in Nodes : IsFiniteSet(Peers(n)) /\ Cardinality(Peers(n)) <= SessionsMax
    /\ refused \subseteq Nodes \X Nodes

\* A table from which sessions are only taken has room for those that stay.
LEMMA FewerPeers ==
    ASSUME Bounded, \A n \in Nodes : Peers(n)' \subseteq Peers(n), refused' = refused
    PROVE  Bounded'
<1>1. SessionsMax \in Nat
  BY SessionsAssumption
<1>2. ASSUME NEW n \in Nodes
      PROVE  IsFiniteSet(Peers(n)') /\ Cardinality(Peers(n)') <= SessionsMax
  <2>1. /\ IsFiniteSet(Peers(n)') /\ Cardinality(Peers(n)') <= Cardinality(Peers(n))
        /\ IsFiniteSet(Peers(n)) /\ Cardinality(Peers(n)) <= SessionsMax
    BY FS_Subset DEF Bounded
  <2>2. Cardinality(Peers(n)') \in Nat /\ Cardinality(Peers(n)) \in Nat
    BY <2>1, FS_CardinalityType
  <2> QED
    BY <1>1, <2>1, <2>2
<1> QED
  BY <1>2 DEF Bounded

\* A table with room takes one more peer; a full one lets another go first.
LEMMA OnePeerMore ==
    ASSUME NEW S, IsFiniteSet(S), Cardinality(S) <= SessionsMax, NEW p, p \notin S
    PROVE  /\ Cardinality(S) < SessionsMax =>
                IsFiniteSet(S \cup {p}) /\ Cardinality(S \cup {p}) <= SessionsMax
           /\ \A v \in S : /\ IsFiniteSet((S \ {v}) \cup {p})
                           /\ Cardinality((S \ {v}) \cup {p}) <= SessionsMax
<1>1. SessionsMax \in Nat /\ Cardinality(S) \in Nat
  BY SessionsAssumption, FS_CardinalityType
<1>2. IsFiniteSet(S \cup {p}) /\ Cardinality(S \cup {p}) = Cardinality(S) + 1
  BY FS_AddElement
<1>3. ASSUME NEW v \in S
      PROVE  IsFiniteSet((S \ {v}) \cup {p}) /\ Cardinality((S \ {v}) \cup {p}) <= SessionsMax
  <2>1. IsFiniteSet(S \ {v}) /\ Cardinality(S \ {v}) = Cardinality(S) - 1
    BY FS_RemoveElement
  <2>2. p \notin S \ {v}
    OBVIOUS
  <2>3. IsFiniteSet((S \ {v}) \cup {p}) /\ Cardinality((S \ {v}) \cup {p}) = (Cardinality(S) - 1) + 1
    BY <2>1, <2>2, FS_AddElement
  <2> QED
    BY <1>1, <2>3
<1> QED
  BY <1>1, <1>2, <1>3

\* An installed session takes a place in the table that is free, or freed.
LEMMA InstallKeepsBound ==
    ASSUME IInv, Bounded, NEW c \in Connections, NEW n \in Nodes, Install(n, c)
    PROVE  Bounded'
<1> DEFINE p == PeerOf(c, n)
<1>1. Shapes /\ AllJoined
  BY DEF IInv
<1>2. p \in Nodes /\ c # None
  BY <1>1, EndsInUse, SessionsAssumption DEF Install, Ready, Ends
<1>3. refused' = refused
  BY DEF Install
<1> HIDE DEF p
<1>4. CASE table[n][p] # None
  <2>1. \A m \in Nodes : Peers(m)' \subseteq Peers(m)
    <3>1. table' = table \/ table' = [table EXCEPT ![n][p] = c]
      BY <1>4 DEF Install, InstallFirst, InstallOver, InstallLoser, p
    <3> QED
      BY <1>1, <1>2, <1>4, <3>1 DEF Shapes, Peers
  <2> QED
    BY <1>3, <2>1, FewerPeers
<1>5. CASE table[n][p] = None
  <2>1. p \notin Peers(n)
    BY <1>5 DEF Peers
  <2>2. IsFiniteSet(Peers(n)) /\ Cardinality(Peers(n)) <= SessionsMax
    BY DEF Bounded
  <2>3. IsFiniteSet(Peers(n)') /\ Cardinality(Peers(n)') <= SessionsMax
    <3>1. CASE /\ Cardinality(Peers(n)) < SessionsMax
               /\ table' = [table EXCEPT ![n][p] = c]
      <4>1. Peers(n)' = Peers(n) \cup {p}
        BY <1>1, <1>2, <3>1 DEF Shapes, Peers
      <4> QED
        BY <2>1, <2>2, <3>1, <4>1, OnePeerMore
    <3>2. ASSUME NEW v \in Peers(n), table' = [table EXCEPT ![n][v] = None, ![n][p] = c]
          PROVE  IsFiniteSet(Peers(n)') /\ Cardinality(Peers(n)') <= SessionsMax
      <4>1. Peers(n)' = (Peers(n) \ {v}) \cup {p}
        BY <1>1, <1>2, <2>1, <3>2 DEF Shapes, Peers
      <4>2. \A x \in Peers(n) : /\ IsFiniteSet((Peers(n) \ {x}) \cup {p})
                                /\ Cardinality((Peers(n) \ {x}) \cup {p}) <= SessionsMax
        BY <2>1, <2>2, OnePeerMore
      <4> QED
        BY <4>1, <4>2
    <3> QED
      BY <1>5, <3>1, <3>2 DEF Install, InstallFirst, InstallOver, InstallLoser, p
  <2>4. \A m \in Nodes : m # n => Peers(m)' = Peers(m)
    <3>1. \A m \in Nodes : m # n => table'[m] = table[m]
      BY <1>1, <1>5 DEF Install, InstallFirst, InstallOver, InstallLoser, Shapes, p
    <3> QED
      BY <3>1 DEF Peers
  <2> QED
    BY <1>3, <2>3, <2>4 DEF Bounded
<1> QED
  BY <1>4, <1>5

LEMMA NextBounded == IInv /\ Bounded /\ [Next]_vars => Bounded'
<1> SUFFICES ASSUME IInv, Bounded, [Next]_vars PROVE Bounded'
  OBVIOUS
<1>1. Shapes
  BY DEF IInv
<1>2. ASSUME NEW n \in Nodes, NEW c \in Connections, Install(n, c) PROVE Bounded'
  BY <1>2, InstallKeepsBound
<1>3. CASE table' = table /\ refused' = refused
  <2>1. \A n \in Nodes : Peers(n)' \subseteq Peers(n)
    BY <1>3 DEF Peers
  <2> QED
    BY <1>3, <2>1, FewerPeers
<1>4. ASSUME NEW n \in Nodes, NEW c \in Connections, ServeEnds(n, c) \/ Evict(n, c)
      PROVE  Bounded'
  <2>1. /\ table' = table \/ table' = [table EXCEPT ![n][PeerOf(c, n)] = None]
        /\ refused' = refused
    BY <1>4 DEF ServeEnds, Evict, WithoutSame
  <2>2. \A m \in Nodes : Peers(m)' \subseteq Peers(m)
    BY <1>1, <2>1 DEF Shapes, Peers
  <2> QED
    BY <2>1, <2>2, FewerPeers
<1>5. ASSUME NEW n \in Nodes, NEW p \in Nodes, Disconnect(n, p)
      PROVE  Bounded'
  <2>1. \A m \in Nodes : Peers(m)' \subseteq Peers(m)
    BY <1>1, <1>5 DEF Disconnect, Shapes, Peers
  <2> QED
    BY <1>5, <2>1, FewerPeers DEF Disconnect
<1>6. ASSUME NEW n \in Nodes, NEW p \in Nodes, Refuse(n, p) \/ Relent(n, p)
      PROVE  Bounded'
  <2>1. table' = table /\ refused' \subseteq Nodes \X Nodes
    BY <1>6 DEF Refuse, Relent, Bounded
  <2>2. \A m \in Nodes : Peers(m)' = Peers(m)
    BY <2>1 DEF Peers
  <2> QED
    BY <2>1, <2>2 DEF Bounded
<1>7. ASSUME NEW n \in Nodes, Restart(n)
      PROVE  Bounded'
  <2>1. \A m \in Nodes : Peers(m)' \subseteq Peers(m)
    BY <1>1, <1>7 DEF Restart, Shapes, Peers
  <2> QED
    BY <1>7, <2>1, FewerPeers DEF Restart
<1>8. ASSUME NEW n \in Nodes, NEW c \in Connections,
             \/ GiveUp(n, c) \/ Judge(n, c) \/ CloseLetGo(n, c) \/ Learn(n, c) \/ Lose(n, c)
      PROVE  Bounded'
  BY <1>3, <1>8 DEF GiveUp, Judge, CloseLetGo, Learn, Lose
<1>9. CASE Dialing \/ (\E c \in Connections : Forget(c)) \/ UNCHANGED vars
  BY <1>3, <1>9 DEF Dialing, Dial, Forget, vars
<1> QED
  BY <1>2, <1>4, <1>5, <1>6, <1>7, <1>8, <1>9 DEF Next, Progress

\* Every variable has its shape, and no table outgrows SESSIONS_MAX, whoever
\* dials whom at once (SessionTable::insert evicts before it inserts).
THEOREM TablesAreBounded == Spec => []TypeOK
<1>1. Init => Bounded
  <2> SUFFICES ASSUME Init PROVE Bounded
    OBVIOUS
  <2>1. \A n \in Nodes : Peers(n) = {}
    BY DEF Init, Peers
  <2>2. SessionsMax \in Nat /\ refused = {}
    BY SessionsAssumption DEF Init
  <2> QED
    BY <2>1, <2>2, FS_EmptySet DEF Bounded
<1>2. Spec => []Bounded
  BY <1>1, NextBounded, SessionsAreSound, PTL DEF Spec
<1>3. IInv /\ Bounded => TypeOK
  BY DEF IInv, Shapes, Bounded, TypeOK
<1> QED
  BY <1>2, <1>3, SessionsAreSound, PTL

-----------------------------------------------------------------------------
(* The two ends of a connection *)

\* Each end of a connection in use is somewhere, and one that is gone has
\* closed its handle.
EndsAreStaged ==
    \A c \in Connections, n \in Nodes :
      n \in Ends(c) => Stage(c, n) # "absent" /\ (Stage(c, n) = "gone" => ~LiveAt(c, n))

\* An end that goes on serving, or ends, or only learns of a close, is staged
\* as it was, and gone only when it is closed.
LEMMA StagedAfter ==
    ASSUME IInv, EndsAreStaged, NEW c \in Connections, NEW n \in Nodes,
           \/ Becomes(c, JudgedAt(c, n))
           \/ Becomes(c, StagedAt(c, n, "serving"))
           \/ Becomes(c, StagedAt(c, n, "gone")) /\ ~LiveAt(c, n)
           \/ Becomes(c, ClosedAt(c, n))
           \/ Becomes(c, ClosedTo(c, n, "gone"))
    PROVE  EndsAreStaged'
<1>1. Shapes /\ "gone" \in Stages /\ "serving" \in Stages
  BY DEF IInv, Stages
<1>2. ASSUME NEW d \in Connections, NEW m \in Nodes, m \in Ends(d)'
      PROVE  Stage(d, m)' # "absent" /\ (Stage(d, m)' = "gone" => ~LiveAt(d, m)')
  <2>1. m \in Ends(d) => Stage(d, m) # "absent" /\ (Stage(d, m) = "gone" => ~LiveAt(d, m))
    BY DEF EndsAreStaged
  <2>2. CASE Becomes(c, JudgedAt(c, n))
    BY <1>1, <1>2, <2>1, <2>2, FieldsAfter
  <2>3. CASE Becomes(c, StagedAt(c, n, "serving"))
    BY <1>1, <1>2, <2>1, <2>3, FieldsAfter
  <2>4. CASE Becomes(c, StagedAt(c, n, "gone")) /\ ~LiveAt(c, n)
    BY <1>1, <1>2, <2>1, <2>4, FieldsAfter
  <2>5. CASE Becomes(c, ClosedAt(c, n))
    BY <1>1, <1>2, <2>1, <2>5, FieldsAfter
  <2>6. CASE Becomes(c, ClosedTo(c, n, "gone"))
    BY <1>1, <1>2, <2>1, <2>6, FieldsAfter
  <2> QED
    BY <2>2, <2>3, <2>4, <2>5, <2>6
<1> QED
  BY <1>2 DEF EndsAreStaged

LEMMA NextStaged == IInv /\ EndsAreStaged /\ [Next]_vars => EndsAreStaged'
<1> SUFFICES ASSUME IInv, EndsAreStaged, [Next]_vars PROVE EndsAreStaged'
  OBVIOUS
<1>1. Shapes
  BY DEF IInv
<1>2. ASSUME NEW n \in Nodes, NEW p \in Nodes, NEW c \in Connections, Dial(n, p, c)
      PROVE  EndsAreStaged'
  <2>1. \A d \in Connections : conn'[d] = IF d = c THEN DialedBy(n, p) ELSE conn[d]
    BY <1>1, <1>2, ActionsBecome DEF Becomes, Shapes
  <2>2. /\ DialedBy(n, p).dialer = n /\ DialedBy(n, p).acceptor = p
        /\ \A m \in {n, p} : m \in Nodes => DialedBy(n, p).stage[m] = "hello"
    BY DEF DialedBy
  <2>3. ASSUME NEW d \in Connections, NEW m \in Nodes, m \in Ends(d)'
        PROVE  Stage(d, m)' # "absent" /\ (Stage(d, m)' = "gone" => ~LiveAt(d, m)')
    <3>1. CASE d = c
      BY <2>1, <2>2, <2>3, <3>1 DEF Ends, Stage
    <3>2. CASE d # c
      BY <2>1, <2>3, <3>2 DEF Ends, Stage, LiveAt, EndsAreStaged
    <3> QED
      BY <3>1, <3>2
  <2> QED
    BY <2>3 DEF EndsAreStaged
<1>3. ASSUME NEW n \in Nodes, NEW c \in Connections,
             \/ Progress(n, c) \/ CloseLetGo(n, c)
             \/ Learn(n, c) \/ Lose(n, c) \/ ServeEnds(n, c) \/ Evict(n, c)
      PROVE  EndsAreStaged'
  <2>1. CASE Evict(n, c)
    BY <2>1 DEF Evict, EndsAreStaged, Ends, Stage, LiveAt
  <2>2. CASE ServeEnds(n, c)
    <3>1. Becomes(c, StagedAt(c, n, "gone")) /\ ~LiveAt(c, n)
      BY <1>1, <2>2, ActionsBecome DEF ServeEnds
    <3> QED
      BY <3>1, StagedAfter
  <2>3. CASE Judge(n, c)
    BY <1>1, <2>3, ActionsBecome, StagedAfter
  <2>4. CASE GiveUp(n, c)
    BY <1>1, <2>4, ActionsBecome, StagedAfter
  <2>5. CASE Install(n, c)
    BY <1>1, <2>5, ActionsBecome, StagedAfter
  <2>6. CASE CloseLetGo(n, c) \/ Learn(n, c) \/ Lose(n, c)
    BY <1>1, <2>6, ActionsBecome, StagedAfter
  <2> QED
    BY <1>3, <2>1, <2>2, <2>3, <2>4, <2>5, <2>6 DEF Progress
<1>4. ASSUME NEW n \in Nodes, Restart(n)
      PROVE  EndsAreStaged'
  <2>1. ASSUME NEW d \in Connections, NEW m \in Nodes, m \in Ends(d)'
        PROVE  Stage(d, m)' # "absent" /\ (Stage(d, m)' = "gone" => ~LiveAt(d, m)')
    <3>1. conn[d] \in ConnectionType
      BY <1>1 DEF Shapes
    <3>2. conn'[d] = IF n \in Ends(d) THEN ClosedTo(d, n, "gone") ELSE conn[d]
      BY <1>1, <1>4 DEF Restart, Closing, ClosedTo, Shapes
    <3>3. /\ ClosedTo(d, n, "gone").dialer = conn[d].dialer /\ ClosedTo(d, n, "gone").acceptor = conn[d].acceptor
          /\ ClosedTo(d, n, "gone").closed = conn[d].closed \cup {n}
          /\ ClosedTo(d, n, "gone").stage[m] = IF m = n THEN "gone" ELSE conn[d].stage[m]
      BY <3>1 DEF ClosedTo, ConnectionType
    <3> QED
      BY <2>1, <3>2, <3>3 DEF Ends, Stage, LiveAt, EndsAreStaged
  <2> QED
    BY <2>1 DEF EndsAreStaged
<1>5. ASSUME NEW c \in Connections, Forget(c)
      PROVE  EndsAreStaged'
  <2>1. \A d \in Connections : conn'[d] = IF d = c THEN NoConnection ELSE conn[d]
    BY <1>1, <1>5 DEF Forget, Shapes
  <2>2. \A m \in Nodes : m \notin {NoConnection.dialer, NoConnection.acceptor}
    BY SessionsAssumption DEF NoConnection
  <2> QED
    BY <2>1, <2>2 DEF EndsAreStaged, Ends, Stage, LiveAt
<1>6. CASE conn' = conn
  BY <1>6 DEF EndsAreStaged, Ends, Stage, LiveAt
<1> QED
  BY <1>2, <1>3, <1>4, <1>5, <1>6 DEF Next, Dialing, Disconnect, Refuse, Relent, vars

LEMMA EndsStayStaged == Spec => []EndsAreStaged
<1>1. Init => EndsAreStaged
  BY SessionsAssumption DEF Init, EndsAreStaged, Ends, NoConnection
<1> QED
  BY <1>1, NextStaged, SessionsAreSound, PTL DEF Spec

\* What the other end makes of a session that n holds with p.
KnownToPeer(n, p, c) ==
    \/ table[p][n] = c
    \/ c \in letgo[p] \/ conn[c].closed # {}
    \/ Stage(c, p) \in {"hello", "judged"}

HalfSessionsPass ==
    \A n, p \in Nodes : table[n][p] # None => KnownToPeer(n, p, table[n][p])

\* A node never has a session that its peer has silently dropped: the peer
\* holds the same connection, or is still in its handshake, or is about to
\* close it, or it is closed at an end and the other will learn of it.  No
\* race of dials, evictions, disconnects and restarts leaves one node sending
\* into a connection the other has forgotten (install_session closes whatever
\* a table lets go of).
THEOREM NoSessionIsForgotten == Spec => []HalfSessionsPass
<1>1. IInv /\ EndsAreStaged => HalfSessionsPass
  <2> SUFFICES ASSUME IInv, EndsAreStaged, NEW n \in Nodes, NEW p \in Nodes, table[n][p] # None
               PROVE  KnownToPeer(n, p, table[n][p])
    BY DEF HalfSessionsPass
  <2> DEFINE c == table[n][p]
  <2>1. Shapes /\ AllJoined /\ ServedIsHeld
    BY DEF IInv
  <2>2. c \in Connections
    BY <2>1 DEF Shapes, Held
  <2>3. n \in Ends(c) /\ p = PeerOf(c, n)
    BY <2>1, <2>2 DEF ServedIsHeld
  <2> HIDE DEF c
  <2>4. p \in Ends(c) /\ PeerOf(c, p) = n
    <3>1. conn[c].dialer # conn[c].acceptor
      BY <2>1, <2>2, <2>3, EndsInUse
    <3> QED
      BY <2>3, <3>1 DEF Ends, PeerOf
  <2>5. Stage(c, p) # "absent" /\ (Stage(c, p) = "gone" => ~LiveAt(c, p))
    BY <2>2, <2>4 DEF EndsAreStaged
  <2>6. Stage(c, p) \in {"hello", "judged", "serving", "gone"}
    BY <2>1, <2>2, <2>5 DEF Shapes, ConnectionType, Stage, Stages
  <2>7. ~LiveAt(c, p) => conn[c].closed # {}
    BY DEF LiveAt
  <2>8. Stage(c, p) = "serving" /\ LiveAt(c, p) /\ c \notin letgo[p] => table[p][n] = c
    BY <2>1, <2>2, <2>4 DEF ServedIsHeld
  <2> QED
    BY <2>5, <2>6, <2>7, <2>8 DEF KnownToPeer, c
<1> QED
  BY <1>1, SessionsAreSound, EndsStayStaged, PTL

\* Nothing is under way: no handshake, no close that one end has yet to carry
\* out or to learn of, no closed connection that is still served.
AtRest ==
    \A c \in Connections :
      /\ conn[c].closed = {} \/ Ends(c) \subseteq conn[c].closed
      /\ \A n \in Nodes : /\ Stage(c, n) \notin {"hello", "judged"} /\ c \notin letgo[n]
                          /\ Stage(c, n) = "serving" => LiveAt(c, n)

AgreeAtRest == AtRest => \A n, p \in Nodes : table[n][p] = table[p][n]

\* Whenever nothing is under way, the two ends of every pair hold the same
\* connection, or none.  This is TablesAgree without its fairness: what is
\* left for the run to show is that the nodes come to rest.
THEOREM RestingTablesAgree == Spec => []AgreeAtRest
<1>1. IInv /\ HalfSessionsPass => AgreeAtRest
  <2> SUFFICES ASSUME IInv, HalfSessionsPass, AtRest
               PROVE  \A n, p \in Nodes : table[n][p] = table[p][n]
    BY DEF AgreeAtRest
  <2>1. Shapes /\ ServedIsHeld
    BY DEF IInv
  <2>2. ASSUME NEW n \in Nodes, NEW p \in Nodes, table[n][p] # None
        PROVE  table[p][n] = table[n][p]
    <3> DEFINE c == table[n][p]
    <3>1. c \in Connections /\ KnownToPeer(n, p, c)
      BY <2>1, <2>2 DEF Shapes, Held, HalfSessionsPass
    <3>2. n \in Ends(c) /\ Stage(c, n) = "serving"
      BY <2>1, <3>1 DEF ServedIsHeld
    <3> HIDE DEF c
    <3>3. LiveAt(c, n) /\ c \notin letgo[p] /\ Stage(c, p) \notin {"hello", "judged"}
      BY <3>1, <3>2 DEF AtRest
    <3>4. conn[c].closed = {}
      BY <3>1, <3>2, <3>3 DEF AtRest, LiveAt
    <3>5. table[p][n] = c
      BY <3>1, <3>3, <3>4 DEF KnownToPeer
    <3> QED
      BY <3>5 DEF c
  <2> QED
    BY <2>2
<1> QED
  BY <1>1, SessionsAreSound, NoSessionIsForgotten, PTL
=============================================================================
