------------------------------- MODULE Sessions -------------------------------
(***************************************************************************)
(* The session tables of the nodes' transports                             *)
(* (inseam-plugins/src/transport_iroh): who holds which connection to whom *)
(* after simultaneous dials, closes, evictions, disconnects and restarts.  *)
(*                                                                         *)
(* A connection has two ends, and each end learns of the other's close     *)
(* later.  Neither end knows when the other installs it: the acceptor      *)
(* answers the hello before it installs the connection, the dialer after.  *)
(* Who is let in is the roster's admission view (RosterAdmission), here    *)
(* the peers a node refuses at the moment.                                    *)
(***************************************************************************)
EXTENDS Integers, FiniteSets

CONSTANTS Nodes,         \* node ids, which are ordered
          Connections,   \* bound: the connections there can be at a time
          Dials,         \* who has an endpoint of whom: <<dialer, acceptor>>
          Expellable,    \* the expulsions there can be: <<node, peer it refuses>>
          SessionsMax,   \* SESSIONS_MAX
          HandshakesMax, \* HANDSHAKES_IN_FLIGHT_MAX
          None           \* no session, no node

ASSUME SessionsAssumption ==
    /\ Nodes \subseteq Nat
    /\ Dials \cup Expellable \subseteq {e \in Nodes \X Nodes : e[1] # e[2]}
    /\ None \notin Connections \cup Nodes
    /\ SessionsMax \in Nat \ {0} /\ HandshakesMax \in Nat \ {0}

VARIABLES conn,    \* each connection: its ends, how far each is, which know it closed
          table,   \* SessionTable: table[n][p] is the session of n with p
          letgo,   \* the connections a table let go of, about to be closed
          chose,   \* history variable: <<node, kept, dropped>>, of two live ones
          refused  \* <<node, peer>>: the policy of the node refuses the peer

vars == <<conn, table, letgo, chose, refused>>

\* How far an end of a connection is.
Stages == {"absent", "hello", "judged", "serving", "gone"}

NoConnection == [dialer |-> None, acceptor |-> None, answered |-> FALSE,
                 stage |-> [n \in Nodes |-> "absent"], closed |-> {}]

DialedBy(n, p) == [dialer |-> n, acceptor |-> p, answered |-> FALSE,
                   stage |-> [m \in Nodes |-> IF m \in {n, p} THEN "hello" ELSE "absent"],
                   closed |-> {}]

Ends(c)    == {conn[c].dialer, conn[c].acceptor}
Stage(c,n) == conn[c].stage[n]
PeerOf(c,n) == IF n = conn[c].dialer THEN conn[c].acceptor ELSE conn[c].dialer
LiveAt(c,n) == n \notin conn[c].closed

\* The handle is closed, or dropped by its last holder, which closes it too.
Closing(c,n,stage) == [conn[c] EXCEPT !.stage[n] = stage, !.closed = @ \cup {n}]

Peers(n) == {p \in Nodes : table[n][p] # None}

Init ==
    /\ conn = [c \in Connections |-> NoConnection]
    /\ table = [n \in Nodes |-> [p \in Nodes |-> None]]
    /\ letgo = [n \in Nodes |-> {}]
    /\ chose = {}
    /\ refused = {}

-----------------------------------------------------------------------------
(* Dialing and the hello *)

Handshaking(p) == {c \in Connections : conn[c].acceptor = p /\ Stage(c,p) \in {"hello", "judged"}}

\* A request finds no session and connects; others of the same node may be
\* on their way.  Past the limit the acceptor refuses at the door.
Dial(n, p, c) ==
    /\ <<n, p>> \in Dials
    /\ table[n][p] = None
    /\ conn[c] = NoConnection
    /\ Cardinality(Handshaking(p)) < HandshakesMax
    /\ conn' = [conn EXCEPT ![c] = DialedBy(n, p)]
    /\ UNCHANGED <<table, letgo, chose, refused>>

\* WRONG: the policy is not asked.
JudgeAnyone(n, c) ==
    /\ conn[c].acceptor = n /\ Stage(c,n) = "hello"
    /\ LiveAt(c,n)
    /\ conn' = [conn EXCEPT ![c].stage[n] = "judged", ![c].answered = TRUE]
    /\ UNCHANGED <<table, letgo, chose, refused>>

\* The acceptor reads the hello, asks the policy and answers.
Judge(n, c) ==
    /\ conn[c].acceptor = n /\ Stage(c,n) = "hello"
    /\ LiveAt(c,n)
    /\ <<n, conn[c].dialer>> \notin refused
    /\ conn' = [conn EXCEPT ![c].stage[n] = "judged", ![c].answered = TRUE]
    /\ UNCHANGED <<table, letgo, chose, refused>>

\* A handshake ends without a session: the policy refuses, the hello is not
\* one, the connection is closed, or either side's timeout passes.
GiveUp(n, c) ==
    /\ Stage(c,n) \in {"hello", "judged"}
    /\ conn' = [conn EXCEPT ![c] = Closing(c, n, "gone")]
    /\ UNCHANGED <<table, letgo, chose, refused>>

\* The dialer needs the answer, which may have come before a close; the
\* acceptor has judged.
Ready(n, c) ==
    \/ conn[c].dialer = n /\ Stage(c,n) = "hello" /\ conn[c].answered
    \/ conn[c].acceptor = n /\ Stage(c,n) = "judged"

\* WRONG: each node prefers the connection it dialed itself.
OwnDialWins(n, old, new) ==
    \/ ~LiveAt(old, n)
    \/ conn[old].dialer = conn[new].dialer
    \/ conn[new].dialer = n

\* new_session_wins.
NewWins(n, old, new) ==
    \/ ~LiveAt(old, n)
    \/ conn[old].dialer = conn[new].dialer
    \/ conn[new].dialer < conn[old].dialer

\* WRONG: the loser is not closed.
LeaveLoser(n, c) ==
    LET old == table[n][PeerOf(c,n)] IN
    /\ old # None /\ ~NewWins(n, old, c)
    /\ chose' = chose \cup {<<n, old, c>>}
    /\ UNCHANGED <<table, letgo>>

\* The connection is not the winner: it is let go of itself.
InstallLoser(n, c) ==
    LET old == table[n][PeerOf(c,n)] IN
    /\ old # None /\ ~NewWins(n, old, c)
    /\ letgo' = [letgo EXCEPT ![n] = @ \cup {c}]
    /\ chose' = chose \cup {<<n, old, c>>}
    /\ UNCHANGED table

\* It replaces the one that is there.
InstallOver(n, c) ==
    LET old == table[n][PeerOf(c,n)] IN
    /\ old # None /\ NewWins(n, old, c)
    /\ letgo' = [letgo EXCEPT ![n] = @ \cup {old}]
    /\ chose' = IF LiveAt(old, n) THEN chose \cup {<<n, c, old>>} ELSE chose
    /\ table' = [table EXCEPT ![n][PeerOf(c,n)] = c]

\* WRONG: there is always room.
InstallUnbounded(n, c) ==
    /\ table[n][PeerOf(c,n)] = None
    /\ table' = [table EXCEPT ![n][PeerOf(c,n)] = c]
    /\ UNCHANGED <<letgo, chose>>

\* It is the first with this peer; a full table evicts the least recently
\* used, of whole seconds, which is anyone.
InstallFirst(n, c) ==
    /\ table[n][PeerOf(c,n)] = None
    /\ \/ /\ Cardinality(Peers(n)) < SessionsMax
          /\ table' = [table EXCEPT ![n][PeerOf(c,n)] = c]
          /\ UNCHANGED letgo
       \/ /\ Cardinality(Peers(n)) >= SessionsMax
          /\ \E victim \in Peers(n) :
               /\ table' = [table EXCEPT ![n][victim] = None, ![n][PeerOf(c,n)] = c]
               /\ letgo' = [letgo EXCEPT ![n] = @ \cup {table[n][victim]}]
    /\ UNCHANGED chose

\* install_session: whoever wins, the connection's streams are served from
\* now on, until it is known to be closed.
Install(n, c) ==
    /\ Ready(n, c)
    /\ conn' = [conn EXCEPT ![c].stage[n] = "serving"]
    /\ InstallFirst(n, c) \/ InstallOver(n, c) \/ InstallLoser(n, c)
    /\ UNCHANGED refused

\* What the table let go of is closed outside its lock.
CloseLetGo(n, c) ==
    /\ c \in letgo[n]
    /\ letgo' = [letgo EXCEPT ![n] = @ \ {c}]
    /\ conn' = [conn EXCEPT ![c].closed = @ \cup {n}]
    /\ UNCHANGED <<table, chose, refused>>

-----------------------------------------------------------------------------
(* Ends of connections *)

\* The other end's close arrives, or an idle timeout passes.
Learn(n, c) ==
    /\ n \in Ends(c) /\ LiveAt(c,n)
    /\ conn[c].closed # {}
    /\ conn' = [conn EXCEPT ![c].closed = @ \cup {n}]
    /\ UNCHANGED <<table, letgo, chose, refused>>

\* The path between the nodes is gone for longer than the idle timeout.
Lose(n, c) ==
    /\ n \in Ends(c) /\ Stage(c,n) # "gone" /\ LiveAt(c,n)
    /\ conn' = [conn EXCEPT ![c].closed = @ \cup {n}]
    /\ UNCHANGED <<table, letgo, chose, refused>>

\* WRONG: the session with the peer is removed, whichever it is now.
WithoutAny(n, c) == [table EXCEPT ![n][PeerOf(c,n)] = None]

\* remove_if_same.
WithoutSame(n, c) ==
    IF table[n][PeerOf(c,n)] = c THEN [table EXCEPT ![n][PeerOf(c,n)] = None] ELSE table

\* serve_connection comes to its end.
ServeEnds(n, c) ==
    /\ Stage(c,n) = "serving" /\ ~LiveAt(c,n)
    /\ conn' = [conn EXCEPT ![c].stage[n] = "gone"]
    /\ table' = WithoutSame(n, c)
    /\ UNCHANGED <<letgo, chose, refused>>

\* A request finds its connection closed, before or after opening a stream.
Evict(n, c) ==
    /\ Stage(c,n) = "serving" /\ ~LiveAt(c,n)
    /\ table' = WithoutSame(n, c)
    /\ UNCHANGED <<conn, letgo, chose, refused>>

\* Expulsion's local half.
Disconnect(n, p) ==
    /\ <<n, p>> \in Expellable
    /\ table[n][p] # None
    /\ letgo' = [letgo EXCEPT ![n] = @ \cup {table[n][p]}]
    /\ table' = [table EXCEPT ![n][p] = None]
    /\ UNCHANGED <<conn, chose, refused>>

\* The admission view has the expulsion, of this node's call or another's.
Refuse(n, p) ==
    /\ <<n, p>> \in Expellable
    /\ refused' = refused \cup {<<n, p>>}
    /\ UNCHANGED <<conn, table, letgo, chose>>

\* A refresh that read before the expulsion replaces the view after it did,
\* or the peer's record comes back to the store.
Relent(n, p) ==
    /\ <<n, p>> \in refused
    /\ refused' = refused \ {<<n, p>>}
    /\ UNCHANGED <<conn, table, letgo, chose>>

\* A process ends, with or without closing its sessions first; the peers
\* learn of it now or by their idle timeouts.
Restart(n) ==
    /\ conn' = [c \in Connections |->
                  IF n \in Ends(c) THEN Closing(c, n, "gone") ELSE conn[c]]
    /\ table' = [table EXCEPT ![n] = [p \in Nodes |-> None]]
    /\ letgo' = [letgo EXCEPT ![n] = {}]
    /\ UNCHANGED <<chose, refused>>

\* Neither end has a handle of the connection any more.
Forget(c) ==
    /\ conn[c] # NoConnection
    /\ \A n \in Ends(c) : Stage(c,n) = "gone" /\ c \notin letgo[n]
    /\ conn' = [conn EXCEPT ![c] = NoConnection]
    /\ chose' = {x \in chose : c \notin {x[2], x[3]}}
    /\ UNCHANGED <<table, letgo, refused>>

-----------------------------------------------------------------------------
Dialing == \E n, p \in Nodes, c \in Connections : Dial(n, p, c)

Progress(n, c) == GiveUp(n, c) \/ Install(n, c) \/ Judge(n, c)

Next ==
    \/ Dialing
    \/ \E n \in Nodes, c \in Connections :
         \/ Progress(n, c) \/ CloseLetGo(n, c)
         \/ Learn(n, c) \/ Lose(n, c) \/ ServeEnds(n, c) \/ Evict(n, c)
    \/ \E n, p \in Nodes : Disconnect(n, p) \/ Refuse(n, p) \/ Relent(n, p)
    \/ \E n \in Nodes : Restart(n)
    \/ \E c \in Connections : Forget(c)

Spec == Init /\ [][Next]_vars

\* Handshakes run under a timeout; closing and serving are plain code; a
\* close is delivered or the idle timeout passes.
Fairness == \A n \in Nodes, c \in Connections :
    /\ WF_vars(Progress(n, c))
    /\ WF_vars(CloseLetGo(n, c))
    /\ WF_vars(Learn(n, c))
    /\ WF_vars(ServeEnds(n, c))

FairSpec == Spec /\ Fairness

-----------------------------------------------------------------------------
(* What must hold *)

Held == Connections \cup {None}

ConnectionType ==
    [dialer : Nodes \cup {None}, acceptor : Nodes \cup {None}, answered : BOOLEAN,
     stage : [Nodes -> Stages], closed : SUBSET Nodes]

\* Every variable has its shape, and no table outgrows its limit.
TypeOK ==
    /\ conn \in [Connections -> ConnectionType]
    /\ table \in [Nodes -> [Nodes -> Held]]
    /\ letgo \in [Nodes -> SUBSET Connections]
    /\ chose \subseteq Nodes \X Connections \X Connections
    /\ refused \subseteq Nodes \X Nodes
    /\ \A n \in Nodes : Cardinality(Peers(n)) <= SessionsMax

\* The table and the served connections are the same thing: what a table
\* holds is served there, and what is served and open is held, or about to
\* be closed.  A served connection outside the table could be neither
\* reused, evicted nor disconnected.
ServedIsHeld ==
    \A n \in Nodes, c \in Connections :
      /\ \A p \in Nodes : table[n][p] = c => n \in Ends(c) /\ p = PeerOf(c,n) /\ Stage(c,n) = "serving"
      /\ Stage(c,n) = "serving" /\ LiveAt(c,n) /\ c \notin letgo[n] => table[n][PeerOf(c,n)] = c

\* Two nodes that dialed each other never end up each dropping the live
\* connection the other kept.
DialsConverge ==
    \A x, y \in chose :
      x[2] = y[3] /\ x[3] = y[2] => conn[x[2]].dialer = conn[x[3]].dialer

Out(n, p)     == table[n][p] = None \/ conn[table[n][p]].dialer = n
Judged(n, p)  == \E c \in Connections : conn[c].dialer = p /\ conn[c].acceptor = n /\ Stage(c,n) = "judged"
ShutOut(n, p) == <<n, p>> \in refused /\ Out(n, p) /\ ~Judged(n, p)

\* Once the policy refuses a peer that is disconnected and whose last judged
\* handshake is over, it does not get in for as long as the policy goes on
\* refusing it: nothing it began before, and nothing it begins, becomes a
\* session, unless the node itself dials.
RefusedStayOut ==
    [][\A n, p \in Nodes : ShutOut(n, p) => ShutOut(n, p)' \/ <<n, p>> \notin refused']_vars

\* Once nobody dials any more, the two ends of every pair come to hold the
\* same connection, or none: no half session stays, whoever closed what when.
TablesAgree ==
    <>[][~Dialing]_vars => <>[](\A n, p \in Nodes : table[n][p] = table[p][n])
=============================================================================
