---------------------------- MODULE Grants_proofs ----------------------------
(***************************************************************************)
(* Grants: the provider refuses only what was lost, what is revoked stays  *)
(* revoked, and the places that keep a grant agree; for any calls,         *)
(* attempts, redirects, rotations and remounts, and with calls that fail   *)
(* or are dropped and crashes at any step.                                 *)
(***************************************************************************)
EXTENDS Grants, TLAPS

-----------------------------------------------------------------------------
(* What the calls are: shapes, and the lock *)

Tokens == [auth : Attempts \cup {Nobody}, refresh : Nat]

Phases == {"idle", "locking", "asking"} \cup StoringPhases

CallRecords == [kind : Kinds \cup {"idle"}, phase : Phases, handle : Nat,
                attempt : Attempts \cup {Nobody}, got : Tokens, fd : {"none", "tmp", "file"},
                detached : BOOLEAN, sole : BOOLEAN]

AttemptRecords == [held : BOOLEAN, listening : BOOLEAN, handle : Nat, resolved : BOOLEAN]

TypeOK ==
    /\ spent \in [Attempts -> Nat]
    /\ attempt \in [Attempts -> AttemptRecords]
    /\ current \in Handles
    /\ memory \in [Handles -> Tokens]
    /\ holder \in [Handles -> Calls \cup {Nobody}]
    /\ file \in Tokens /\ tmp \in Tokens
    /\ told \in Attempts \cup {Nobody}
    /\ call \in [Calls -> CallRecords]
    /\ ghosts \in [lost : SUBSET Attempts, refused : SUBSET Attempts, forgotten : SUBSET Attempts]
    /\ crossed \in BOOLEAN

\* Tokens of nobody are none.
Sound(tokens) == tokens.auth = Nobody => tokens = NoTokens

IsContent(content) == content = Half \/ Sound(content)

IsFinish(c) == call[c].kind = "finish"
IsToken(c)  == call[c].kind = "token"
IsRevoke(c) == call[c].kind = "revoke"

\* An authorization that was exchanged and is not yet stored.
IsUnset(c) == IsFinish(c) /\ call[c].phase \in {"opening", "filling", "renaming", "setting"}

\* A consumer's call past the lock.
IsRefreshing(c) == IsToken(c) /\ call[c].phase # "locking"

\* What a call may be at, by its kind, and whose tokens it holds then.
CallOK(r) ==
    /\ r.kind = "idle" => r.phase = "idle" /\ r.got = NoTokens
    /\ r.kind = "finish" =>
         /\ r.attempt \in Attempts
         /\ r.phase \in {"asking", "opening", "filling", "renaming", "setting", "announcing"}
         /\ r.got.refresh \in {0, 1}
         /\ IF r.phase = "asking" THEN r.got = NoTokens ELSE r.got.auth = r.attempt
    /\ r.kind = "token" =>
         /\ r.phase \in {"locking", "asking", "opening", "filling", "renaming", "setting"}
         /\ IF r.phase = "locking" THEN r.got = NoTokens
            ELSE r.got.auth # Nobody /\ r.got.refresh # 0
    /\ r.kind = "revoke" =>
         /\ r.phase \in {"locking", "taking", "announcing"}
         /\ r.got = NoTokens

\* Calls and attempts have handles that were registered.
Registered ==
    /\ \A c \in Calls : call[c].kind # "idle" => call[c].handle \in 1..current
    /\ \A a \in Attempts : attempt[a].held \/ attempt[a].listening => attempt[a].handle \in 1..current

\* Who refreshes, and who takes the tokens, holds the lock; the handle's
\* tokens are the ones refreshed until the new are set.
IsLocked(c) ==
    /\ IsRefreshing(c) =>
         /\ holder[Handle(c)] = c
         /\ memory[Handle(c)].auth = call[c].got.auth
         /\ call[c].phase = "asking" => memory[Handle(c)] = call[c].got
    /\ call[c].phase = "taking" => holder[Handle(c)] = c

Locked == \A c \in Calls : IsLocked(c)

\* A temporary file is there only while somebody is about to rename it.
TmpInUse == tmp # Absent => \E c \in Calls : call[c].phase \in {"filling", "renaming"}

\* What is held of an authorization is held since its code was exchanged.
Exchanged ==
    \A a \in Attempts :
        spent[a] = 0 => /\ file.auth # a /\ tmp.auth # a
                        /\ \A h \in Handles : memory[h].auth # a
                        /\ \A c \in Calls : call[c].got.auth # a

CallsInv ==
    /\ TypeOK
    /\ \A c \in Calls : CallOK(call[c])
    /\ \A h \in Handles : Sound(memory[h])
    /\ IsContent(file) /\ IsContent(tmp)
    /\ Registered /\ Locked /\ TmpInUse /\ Exchanged

-----------------------------------------------------------------------------
(* The places that keep the grant *)

\* The file and the handle hold the same but between their two updates, and
\* the listeners are told before the call ends.
FileAgrees == Parsed(file) = memory[current] \/ \E c \in Calls : call[c].phase \in {"setting", "taking"}
ToldAgrees == told = memory[current].auth \/ \E c \in Calls : call[c].phase = "announcing"

\* How far a call that stores is says where its tokens are.
IsStoredFor(c) ==
    /\ InPhase(c, "filling")  => call[c].fd = "tmp" /\ tmp = Half
    /\ InPhase(c, "renaming") => tmp = call[c].got
    /\ InPhase(c, "setting")  => file = call[c].got
    /\ InPhase(c, "taking")   => file = Absent
    /\ InPhase(c, "announcing") => memory[current] = call[c].got

\* What holds while no stores cross: who stores does so at the registered
\* handle and is alone, but for revocations that come after one another.
Undisturbed ==
    /\ ~Crossing
    /\ FileAgrees /\ ToldAgrees
    /\ \A c \in Calls : IsStoredFor(c)

StoreInv == ~crossed => Undisturbed

\* A revocation that is the sole to have an authorization: nobody gets it
\* before it is taken.
IsLast(c) ==
    LET a == memory[Handle(c)].auth IN
    a # Nobody => file.auth # a /\ ~IsElsewhere(a, c)

SoleInv == \A c \in Calls : InPhase(c, "taking") /\ call[c].sole => IsLast(c)

\* A revoked authorization is nowhere a load or a call could take it from.
ForgottenInv ==
    \A a \in ghosts.forgotten :
        /\ spent[a] # 0
        /\ file.auth # a /\ tmp.auth # a /\ memory[current].auth # a
        /\ \A c \in Calls : call[c].got.auth # a
        /\ \A c \in Calls : IsToken(c) => memory[Handle(c)].auth # a

-----------------------------------------------------------------------------
(* Which refresh tokens the provider still takes *)

\* Of an authorization whose rotations all arrived, the one token it takes.
FreshIn(tokens, lost, taken) ==
    tokens.auth \in Attempts \ lost => tokens.refresh \in {0, taken[tokens.auth]}

Fresh(tokens) == FreshIn(tokens, ghosts.lost, spent)

\* The provider has replaced the token, and its successor is on its way.
Rotating(c, a, phases) == IsUnsaved(c) /\ call[c].got.auth = a /\ call[c].phase \in phases

\* Handles that tokens are, or may yet be, refreshed for.
IsServed(h) == h = current \/ \E c \in Calls : IsToken(c) /\ Handle(c) = h

FreshInv ==
    /\ \A c \in Calls : IsRefreshing(c) => Fresh(call[c].got)
    /\ \A h \in Handles :
         IsServed(h) => Fresh(memory[h]) \/ \E c \in Calls : IsUnsaved(c) /\ Handle(c) = h
    /\ Fresh(file) \/ \E c \in Calls : Rotating(c, file.auth, {"opening", "filling", "renaming"})
    /\ Fresh(tmp) \/ \E c \in Calls : Rotating(c, tmp.auth, {"opening"})

\* An authorization on its way from its exchange to the file is nowhere else.
IsNowhereElse(c) ==
    LET a == call[c].got.auth IN
    /\ file.auth # a /\ tmp.auth # a
    /\ \A h \in Handles : memory[h].auth # a
    /\ \A d \in Calls : IsToken(d) => call[d].got.auth # a

\* One that is not in the handle yet: only a later handle can have loaded it,
\* and only there can it have been refreshed.
IsApart(c) ==
    LET a == call[c].got.auth IN
    /\ call[c].phase \in {"opening", "filling"} => IsNowhereElse(c) /\ spent[a] = 1
    /\ \A h \in 1..Handle(c) : memory[h].auth # a
    /\ \A d \in Calls : IsToken(d) /\ Handle(d) <= Handle(c) => call[d].got.auth # a
    /\ IsServed(Handle(c)) /\ a \notin ghosts.lost => spent[a] = 1

UnsetInv ==
    /\ \A c, d \in Calls : IsFinish(c) /\ IsFinish(d) /\ call[c].got.auth = call[d].got.auth
                             => c = d \/ call[c].got.auth = Nobody
    /\ \A c \in Calls : IsUnset(c) => IsApart(c)

IInv == CallsInv /\ StoreInv /\ SoleInv /\ ForgottenInv /\ FreshInv /\ UnsetInv /\ RefusedOnlyIfLost

-----------------------------------------------------------------------------
(* What the steps make of the calls *)

\* But for the file it has open, which another's rename moves.
Alike(r, q) == /\ r.kind = q.kind /\ r.phase = q.phase /\ r.handle = q.handle
               /\ r.attempt = q.attempt /\ r.got = q.got /\ r.sole = q.sole

\* The others go on as they were, and c is another.
Becomes(c, r) ==
    /\ call' \in [Calls -> CallRecords] /\ call'[c] = r
    /\ \A d \in Calls \ {c} : call'[d] = call[d]

\* The records that stand for nothing are of the shapes above.
LEMMA Shapes ==
  /\ NoTokens \in Tokens /\ Half \in Tokens /\ Half # NoTokens
  /\ Idle \in CallRecords /\ CallOK(Idle)
  /\ Idle.kind = "idle" /\ Idle.phase = "idle" /\ Idle.handle = 0 /\ Idle.got = NoTokens
  /\ NoTokens.auth = Nobody /\ NoTokens.refresh = 0 /\ Half.auth = Nobody
<1>1. NoTokens \in Tokens /\ Half \in Tokens
  BY DEF NoTokens, Half, Tokens
<1>2. Half # NoTokens
  <2>1. Half.refresh = 1 /\ NoTokens.refresh = 0
    BY DEF Half, NoTokens
  <2> QED
    BY <2>1
<1>3. Idle \in CallRecords
  BY <1>1 DEF Idle, CallRecords, Phases
<1>4. /\ Idle.kind = "idle" /\ Idle.phase = "idle" /\ Idle.handle = 0 /\ Idle.got = NoTokens
      /\ NoTokens.auth = Nobody /\ NoTokens.refresh = 0 /\ Half.auth = Nobody
  BY DEF Idle, NoTokens, Half
<1>5. CallOK(Idle)
  BY <1>4 DEF CallOK
<1> QED
  BY <1>1, <1>2, <1>3, <1>4, <1>5

\* A call that becomes another record.
LEMMA Changed ==
  ASSUME TypeOK, NEW c \in Calls, NEW r \in CallRecords, call' = [call EXCEPT ![c] = r]
  PROVE  Becomes(c, r)
  BY DEF TypeOK, Becomes

\* A call that ends leaves an idle slot.
LEMMA EndedIs ==
  ASSUME TypeOK, NEW c \in Calls, call' = Ended(c)
  PROVE  Becomes(c, Idle)
  BY Shapes, Changed DEF Ended

\* A call that begins: of the kind, at the phase, on the handle.
Begun(kind, phase, h, a, detached) ==
    [kind |-> kind, phase |-> phase, handle |-> h, attempt |-> a, got |-> NoTokens, fd |-> "none",
     detached |-> detached, sole |-> FALSE]

\* The three ways a call begins.
LEMMA BegunIs ==
  ASSUME TypeOK, NEW c \in Calls
  PROVE  /\ AskToken(c) => Becomes(c, Begun("token", "locking", current, Nobody, FALSE))
         /\ AskRevoke(c) => Becomes(c, Begun("revoke", "locking", current, Nobody, FALSE))
         /\ \A a \in Attempts, k \in BOOLEAN : StartFinish(c, a, k) =>
              Becomes(c, Begun("finish", "asking", attempt[a].handle, a, k))
<1>0. current \in Nat /\ \A a \in Attempts : attempt[a].handle \in Nat
  BY GrantsAssumption DEF TypeOK, Handles, AttemptRecords
<1>1. /\ Begun("token", "locking", current, Nobody, FALSE) \in CallRecords
      /\ Begun("revoke", "locking", current, Nobody, FALSE) \in CallRecords
      /\ \A a \in Attempts, k \in BOOLEAN : Begun("finish", "asking", attempt[a].handle, a, k) \in CallRecords
  BY <1>0, Shapes DEF Begun, CallRecords, Kinds, Phases
<1>2. /\ AskToken(c) => call' = [call EXCEPT ![c] = Begun("token", "locking", current, Nobody, FALSE)]
      /\ AskRevoke(c) => call' = [call EXCEPT ![c] = Begun("revoke", "locking", current, Nobody, FALSE)]
      /\ \A a \in Attempts, k \in BOOLEAN : StartFinish(c, a, k) =>
           call' = [call EXCEPT ![c] = Begun("finish", "asking", attempt[a].handle, a, k)]
  BY DEF AskToken, AskRevoke, StartFinish, Begun, Idle
<1> QED
  BY <1>1, <1>2, Changed

\* A call that goes on, with the tokens it has or gets.
Onward(c, phase, tokens, fd) == [call[c] EXCEPT !.phase = phase, !.got = tokens, !.fd = fd]

\* A call that goes on keeps what it is.
LEMMA OnwardIs ==
  ASSUME TypeOK, NEW c \in Calls, NEW phase \in Phases, NEW tokens \in Tokens,
         NEW fd \in {"none", "tmp", "file"}
  PROVE  /\ Onward(c, phase, tokens, fd) \in CallRecords
         /\ Onward(c, phase, tokens, fd).kind = call[c].kind
         /\ Onward(c, phase, tokens, fd).phase = phase
         /\ Onward(c, phase, tokens, fd).handle = call[c].handle
         /\ Onward(c, phase, tokens, fd).attempt = call[c].attempt
         /\ Onward(c, phase, tokens, fd).got = tokens
         /\ Onward(c, phase, tokens, fd).fd = fd
<1>1. call[c] \in CallRecords
  BY DEF TypeOK
<1> QED
  BY <1>1 DEF Onward, CallRecords

\* The updates of the source that carry a call on.
LEMMA Advances ==
  ASSUME TypeOK, NEW c \in Calls, NEW phase \in Phases, NEW tokens \in Tokens
  PROVE  /\ call' = [call EXCEPT ![c].phase = phase] =>
              Becomes(c, Onward(c, phase, call[c].got, call[c].fd))
         /\ call' = [call EXCEPT ![c].phase = phase, ![c].got = tokens] =>
              Becomes(c, Onward(c, phase, tokens, call[c].fd))
         /\ \A fd \in {"tmp"} : call' = [call EXCEPT ![c].phase = phase, ![c].fd = fd] =>
              Becomes(c, Onward(c, phase, call[c].got, fd))
         /\ \A n \in Nat : call' = [call EXCEPT ![c].phase = phase, ![c].got.refresh = n] =>
              Becomes(c, Onward(c, phase, [auth |-> call[c].got.auth, refresh |-> n], call[c].fd))
<1>1. call[c] \in CallRecords /\ call[c].got \in Tokens /\ call[c].fd \in {"none", "tmp", "file"}
      /\ call \in [Calls -> CallRecords]
  BY DEF TypeOK, CallRecords
<1>2. ASSUME call' = [call EXCEPT ![c].phase = phase]
      PROVE  Becomes(c, Onward(c, phase, call[c].got, call[c].fd))
  <2>1. [call[c] EXCEPT !.phase = phase] = Onward(c, phase, call[c].got, call[c].fd)
    BY <1>1 DEF Onward, CallRecords
  <2>2. call' = [call EXCEPT ![c] = [call[c] EXCEPT !.phase = phase]]
    BY <1>2
  <2>3. Onward(c, phase, call[c].got, call[c].fd) \in CallRecords
    BY <1>1, OnwardIs
  <2>4. call' = [call EXCEPT ![c] = Onward(c, phase, call[c].got, call[c].fd)]
    BY <2>1, <2>2
  <2> QED
    BY <2>3, <2>4, Changed
<1>3. ASSUME call' = [call EXCEPT ![c].phase = phase, ![c].got = tokens]
      PROVE  Becomes(c, Onward(c, phase, tokens, call[c].fd))
  <2>1. [call[c] EXCEPT !.phase = phase, !.got = tokens] = Onward(c, phase, tokens, call[c].fd)
    BY <1>1 DEF Onward, CallRecords
  <2>2. call' = [call EXCEPT ![c] = [call[c] EXCEPT !.phase = phase, !.got = tokens]]
    BY <1>3
  <2>3. Onward(c, phase, tokens, call[c].fd) \in CallRecords
    BY <1>1, OnwardIs
  <2>4. call' = [call EXCEPT ![c] = Onward(c, phase, tokens, call[c].fd)]
    BY <2>1, <2>2
  <2> QED
    BY <2>3, <2>4, Changed
<1>4. ASSUME NEW fd \in {"tmp"}, call' = [call EXCEPT ![c].phase = phase, ![c].fd = fd]
      PROVE  Becomes(c, Onward(c, phase, call[c].got, fd))
  <2>1. [call[c] EXCEPT !.phase = phase, !.fd = fd] = Onward(c, phase, call[c].got, fd)
    BY <1>1 DEF Onward, CallRecords
  <2>2. call' = [call EXCEPT ![c] = [call[c] EXCEPT !.phase = phase, !.fd = fd]]
    BY <1>4
  <2>3. Onward(c, phase, call[c].got, fd) \in CallRecords
    BY <1>1, OnwardIs
  <2>4. call' = [call EXCEPT ![c] = Onward(c, phase, call[c].got, fd)]
    BY <2>1, <2>2
  <2> QED
    BY <2>3, <2>4, Changed
<1>5. ASSUME NEW n \in Nat, call' = [call EXCEPT ![c].phase = phase, ![c].got.refresh = n]
      PROVE  Becomes(c, Onward(c, phase, [auth |-> call[c].got.auth, refresh |-> n], call[c].fd))
  <2> DEFINE t == [auth |-> call[c].got.auth, refresh |-> n]
  <2>1. t \in Tokens /\ t = [call[c].got EXCEPT !.refresh = n]
    BY <1>1 DEF Tokens
  <2>2. [call[c] EXCEPT !.phase = phase, !.got = [call[c].got EXCEPT !.refresh = n]]
          = Onward(c, phase, t, call[c].fd)
    BY <1>1, <2>1 DEF Onward, CallRecords
  <2>3. call' = [call EXCEPT ![c] =
                   [call[c] EXCEPT !.phase = phase, !.got = [call[c].got EXCEPT !.refresh = n]]]
    BY <1>5
  <2>4. Onward(c, phase, t, call[c].fd) \in CallRecords
    BY <1>1, <2>1, OnwardIs
  <2>5. call' = [call EXCEPT ![c] = Onward(c, phase, t, call[c].fd)]
    BY <2>2, <2>3
  <2> QED
    BY <2>4, <2>5, Changed
<1> QED
  BY <1>2, <1>3, <1>4, <1>5

\* The others but for what file they have open; c with what it comes to.
Others(c) == /\ call' \in [Calls -> CallRecords]
             /\ \A d \in Calls \ {c} : Alike(call'[d], call[d])

FdsStay(c) == \A d \in Calls \ {c} : call'[d].fd = call[d].fd

Goes(c, phase, tokens) ==
    /\ Others(c)
    /\ call'[c].kind = call[c].kind /\ call'[c].handle = call[c].handle
    /\ call'[c].attempt = call[c].attempt
    /\ call'[c].phase = phase /\ call'[c].got = tokens

Starts(c, kind, phase, h) ==
    /\ Others(c) /\ FdsStay(c)
    /\ call[c].kind = "idle" /\ call'[c].kind = kind /\ call'[c].phase = phase
    /\ call'[c].handle = h /\ call'[c].got = NoTokens

Stops(c) ==
    /\ Others(c) /\ FdsStay(c)
    /\ call'[c].kind = "idle" /\ call'[c].phase = "idle" /\ call'[c].got = NoTokens

\* The same updates, as the step descriptions below say them.
LEMMA StepsOfCalls ==
  ASSUME TypeOK, NEW c \in Calls
  PROVE  /\ call' = Ended(c) => Stops(c)
         /\ \A phase \in Phases : call' = To(c, phase) =>
              Goes(c, phase, call[c].got) /\ FdsStay(c) /\ call'[c].fd = call[c].fd
         /\ \A phase \in Phases, tokens \in Tokens :
              call' = [call EXCEPT ![c].phase = phase, ![c].got = tokens] =>
                Goes(c, phase, tokens) /\ FdsStay(c) /\ call'[c].fd = call[c].fd
         /\ \A phase \in Phases : call' = [call EXCEPT ![c].phase = phase, ![c].fd = "tmp"] =>
              Goes(c, phase, call[c].got) /\ FdsStay(c) /\ call'[c].fd = "tmp"
         /\ \A phase \in Phases, n \in Nat :
              call' = [call EXCEPT ![c].phase = phase, ![c].got.refresh = n] =>
                /\ Goes(c, phase, [auth |-> call[c].got.auth, refresh |-> n])
                /\ FdsStay(c) /\ call'[c].fd = call[c].fd
         /\ AskToken(c) => Starts(c, "token", "locking", current)
         /\ AskRevoke(c) => Starts(c, "revoke", "locking", current)
         /\ \A a \in Attempts, k \in BOOLEAN : StartFinish(c, a, k) =>
              Starts(c, "finish", "asking", attempt[a].handle) /\ call'[c].attempt = a
<1>1. call' = Ended(c) => Stops(c)
  BY EndedIs, Shapes DEF Becomes, Stops, Others, Alike, FdsStay
<1>2. ASSUME NEW phase \in Phases, NEW tokens \in Tokens, NEW fd \in {"none", "tmp", "file"},
             Becomes(c, Onward(c, phase, tokens, fd))
      PROVE  Goes(c, phase, tokens) /\ FdsStay(c) /\ call'[c].fd = fd
  BY <1>2, OnwardIs DEF Becomes, Goes, Others, Alike, FdsStay
<1>3. call[c].got \in Tokens /\ call[c].fd \in {"none", "tmp", "file"}
      /\ \A n \in Nat : [auth |-> call[c].got.auth, refresh |-> n] \in Tokens
  BY DEF TypeOK, CallRecords, Tokens
<1>4. ASSUME NEW phase \in Phases, call' = To(c, phase)
      PROVE  Goes(c, phase, call[c].got) /\ FdsStay(c) /\ call'[c].fd = call[c].fd
  <2>1. Becomes(c, Onward(c, phase, call[c].got, call[c].fd))
    BY <1>3, <1>4, Advances DEF To
  <2> QED
    BY <1>2, <1>3, <2>1
<1>5. ASSUME NEW phase \in Phases, NEW tokens \in Tokens,
             call' = [call EXCEPT ![c].phase = phase, ![c].got = tokens]
      PROVE  Goes(c, phase, tokens) /\ FdsStay(c) /\ call'[c].fd = call[c].fd
  <2>1. Becomes(c, Onward(c, phase, tokens, call[c].fd))
    BY <1>5, Advances
  <2> QED
    BY <1>2, <1>3, <2>1
<1>6. ASSUME NEW phase \in Phases, call' = [call EXCEPT ![c].phase = phase, ![c].fd = "tmp"]
      PROVE  Goes(c, phase, call[c].got) /\ FdsStay(c) /\ call'[c].fd = "tmp"
  <2>1. Becomes(c, Onward(c, phase, call[c].got, "tmp"))
    BY <1>3, <1>6, Advances
  <2> QED
    BY <1>2, <1>3, <2>1
<1>7. ASSUME NEW phase \in Phases, NEW n \in Nat,
             call' = [call EXCEPT ![c].phase = phase, ![c].got.refresh = n]
      PROVE  /\ Goes(c, phase, [auth |-> call[c].got.auth, refresh |-> n])
             /\ FdsStay(c) /\ call'[c].fd = call[c].fd
  <2>1. Becomes(c, Onward(c, phase, [auth |-> call[c].got.auth, refresh |-> n], call[c].fd))
    BY <1>3, <1>7, Advances
  <2> QED
    BY <1>2, <1>3, <2>1
<1>8. ASSUME NEW kind, NEW phase, NEW h, NEW a, NEW k, call[c] = Idle,
             Becomes(c, Begun(kind, phase, h, a, k))
      PROVE  Starts(c, kind, phase, h) /\ call'[c].attempt = a
  BY <1>8, Shapes DEF Becomes, Begun, Starts, Others, Alike, FdsStay
<1>9. AskToken(c) => Starts(c, "token", "locking", current)
  BY <1>8, BegunIs DEF AskToken, IsFree
<1>10. AskRevoke(c) => Starts(c, "revoke", "locking", current)
  BY <1>8, BegunIs DEF AskRevoke, IsFree
<1>11. \A a \in Attempts, k \in BOOLEAN : StartFinish(c, a, k) =>
          Starts(c, "finish", "asking", attempt[a].handle) /\ call'[c].attempt = a
  <2> SUFFICES ASSUME NEW a \in Attempts, NEW k \in BOOLEAN, StartFinish(c, a, k)
               PROVE  Starts(c, "finish", "asking", attempt[a].handle) /\ call'[c].attempt = a
    OBVIOUS
  <2>1. call[c] = Idle
    BY DEF StartFinish, IsFree
  <2>2. Becomes(c, Begun("finish", "asking", attempt[a].handle, a, k))
    BY BegunIs
  <2> QED
    BY <1>8, <2>1, <2>2
<1> QED
  BY <1>1, <1>4, <1>5, <1>6, <1>7, <1>9, <1>10, <1>11

-----------------------------------------------------------------------------
(* The steps by what they do *)

AttemptsOK(at) ==
    /\ at \in [Attempts -> AttemptRecords]
    /\ \A a \in Attempts : at[a].held \/ at[a].listening => at[a].handle \in 1..current

\* Only the attempts change.
QuietStep ==
    /\ UNCHANGED <<spent, current, memory, holder, file, tmp, told, call, ghosts>>
    /\ AttemptsOK(attempt')

\* A call begins.
StartStep(c, kind, phase) ==
    /\ UNCHANGED <<spent, current, memory, holder, file, tmp, told, ghosts>>
    /\ AttemptsOK(attempt')
    /\ \E h \in 1..current : Starts(c, kind, phase, h)
    /\ \/ kind = "finish" /\ phase = "asking" /\ call'[c].attempt \in Attempts
       \/ kind \in {"token", "revoke"} /\ phase = "locking" /\ call'[c].handle = current

\* The provider's refusal tells of a token that it no longer takes.
IsRefused(c, a) ==
    /\ IsToken(c) /\ InPhase(c, "asking")
    /\ a = call[c].got.auth /\ a \notin ghosts.lost /\ call[c].got.refresh # spent[a]

\* A call ends: what it still had to save is counted as lost.
EndStep(c) ==
    /\ UNCHANGED <<spent, current, memory, file>>
    /\ AttemptsOK(attempt')
    /\ Stops(c)
    /\ holder' \in {holder, Released(c)}
    /\ tmp' = tmp \/ LeftBy({c})
    /\ call[c].phase \in {"filling", "renaming"} => LeftBy({c})
    /\ \/ told' = told /\ call[c].phase \notin {"setting", "taking", "announcing"}
       \/ told' = call[c].got.auth /\ InPhase(c, "announcing")
       \/ told' = told /\ crossed'
    /\ ghosts' \in [lost : SUBSET Attempts, refused : SUBSET Attempts, forgotten : SUBSET Attempts]
    /\ ghosts'.forgotten = ghosts.forgotten
    /\ ghosts.lost \cup UnsavedOf({c}) \subseteq ghosts'.lost
    /\ \A a \in ghosts'.refused \ ghosts.refused : IsRefused(c, a)

\* The provider gives tokens for a code.
ExchangeStep(c) ==
    /\ UNCHANGED <<attempt, current, memory, holder, file, tmp, told, ghosts>>
    /\ IsFinish(c) /\ InPhase(c, "asking") /\ spent[call[c].attempt] = 0
    /\ spent' = [spent EXCEPT ![call[c].attempt] = 1]
    /\ FdsStay(c)
    /\ \E n \in {0, 1} : Goes(c, "opening", [auth |-> call[c].attempt, refresh |-> n])

\* The provider refreshes, and replaces the refresh token or does not.
RefreshStep(c, n) ==
    /\ UNCHANGED <<attempt, current, memory, holder, file, tmp, told>>
    /\ IsToken(c) /\ InPhase(c, "asking") /\ call[c].got.refresh = spent[call[c].got.auth]
    /\ n \in {call[c].got.refresh, call[c].got.refresh + 1}
    /\ spent' = [spent EXCEPT ![call[c].got.auth] = n]
    /\ FdsStay(c)
    /\ Goes(c, "opening", [auth |-> call[c].got.auth, refresh |-> n])
    /\ ghosts' \in [lost : SUBSET Attempts, refused : SUBSET Attempts, forgotten : SUBSET Attempts]
    /\ ghosts'.forgotten = ghosts.forgotten /\ ghosts'.refused = ghosts.refused
    /\ ghosts.lost \subseteq ghosts'.lost
    /\ IsAside(c) /\ n # call[c].got.refresh => call[c].got.auth \in ghosts'.lost

\* A call stores: the temporary file, its contents, its name, the handle.
OpenStep(c) ==
    /\ UNCHANGED <<spent, attempt, current, memory, holder, file, told, ghosts>>
    /\ InPhase(c, "opening") /\ tmp' = Half
    /\ Goes(c, "filling", call[c].got) /\ FdsStay(c) /\ call'[c].fd = "tmp"

FillStep(c) ==
    /\ UNCHANGED <<spent, attempt, current, memory, holder, told, ghosts>>
    /\ InPhase(c, "filling")
    /\ tmp' = tmp \/ tmp' \in WrittenOver(tmp, call[c].got)
    /\ call[c].fd = "tmp" => tmp' \in WrittenOver(tmp, call[c].got)
    /\ file' = file \/ file' \in WrittenOver(file, call[c].got)
    /\ call[c].fd # "file" => file' = file
    /\ Goes(c, "renaming", call[c].got) /\ FdsStay(c)

RenameStep(c) ==
    /\ UNCHANGED <<spent, attempt, current, memory, holder, told, ghosts>>
    /\ InPhase(c, "renaming") /\ tmp # Absent
    /\ file' = tmp /\ tmp' = Absent
    /\ Goes(c, "setting", call[c].got)

SetAuthorizedStep(c) ==
    /\ UNCHANGED <<spent, attempt, current, holder, file, tmp, told, ghosts>>
    /\ InPhase(c, "setting") /\ IsFinish(c) /\ holder[Handle(c)] = Nobody
    /\ memory' = [memory EXCEPT ![Handle(c)] = call[c].got]
    /\ Goes(c, "announcing", call[c].got) /\ FdsStay(c)

SetRefreshedStep(c) ==
    /\ UNCHANGED <<spent, attempt, current, file, tmp, told, ghosts>>
    /\ InPhase(c, "setting") /\ IsToken(c)
    /\ memory' = [memory EXCEPT ![Handle(c)] = call[c].got]
    /\ holder' = Released(c)
    /\ Stops(c)

\* A call takes the handle's lock: to refresh, or to revoke.
LockStep(c) ==
    /\ UNCHANGED <<spent, attempt, current, memory, file, tmp, told, ghosts>>
    /\ InPhase(c, "locking") /\ IsToken(c) /\ holder[Handle(c)] = Nobody
    /\ memory[Handle(c)].refresh # 0
    /\ holder' = [holder EXCEPT ![Handle(c)] = c]
    /\ Goes(c, "asking", memory[Handle(c)]) /\ FdsStay(c)

RemoveStep(c) ==
    /\ UNCHANGED <<spent, attempt, current, memory, tmp, told, ghosts>>
    /\ InPhase(c, "locking") /\ IsRevoke(c) /\ holder[Handle(c)] = Nobody
    /\ file' = Absent
    /\ holder' = [holder EXCEPT ![Handle(c)] = c]
    /\ Goes(c, "taking", call[c].got)
    /\ call'[c].sole = ~IsElsewhere(memory[Handle(c)].auth, c)
    /\ \A d \in Calls \ {c} : call[d].fd = "tmp" => call'[d].fd = "tmp"

TakeStep(c) ==
    /\ UNCHANGED <<spent, attempt, current, file, tmp, told>>
    /\ InPhase(c, "taking")
    /\ memory' = [memory EXCEPT ![Handle(c)] = NoTokens]
    /\ holder' = Released(c)
    /\ FdsStay(c)
    /\ LET a == memory[Handle(c)].auth IN
       /\ \/ a = Nobody /\ Stops(c)
          \/ a # Nobody /\ Goes(c, "announcing", call[c].got)
       /\ ghosts' = IF a = Nobody \/ ~call[c].sole THEN ghosts
                    ELSE [ghosts EXCEPT !.forgotten = @ \cup {a}]

\* Attempts keep their shape when one is resolved or concluded.
LEMMA AttemptsStand ==
  ASSUME CallsInv
  PROVE  /\ AttemptsOK(attempt)
         /\ \A a \in Attempts : AttemptsOK(Resolved(a))
         /\ \A c \in Calls : AttemptsOK(Concluded(c))
<1>1. AttemptsOK(attempt)
  BY DEF CallsInv, TypeOK, Registered, AttemptsOK
<1>2. ASSUME NEW a \in Attempts PROVE AttemptsOK(Resolved(a))
  BY <1>1 DEF AttemptsOK, Resolved, AttemptRecords
<1>3. ASSUME NEW c \in Calls PROVE AttemptsOK(Concluded(c))
  <2>1. call[c].kind = "finish" => call[c].attempt \in Attempts
    BY DEF CallsInv, CallOK
  <2> QED
    BY <1>1, <1>2, <2>1 DEF Concluded
<1> QED
  BY <1>1, <1>2, <1>3

\* The owner's authorizations begin calls, or do not.
LEMMA OwnerDoes ==
  ASSUME CallsInv, Owner
  PROVE  QuietStep \/ \E c \in Calls : StartStep(c, "finish", "asking")
<1>0. TypeOK /\ AttemptsOK(attempt)
  BY AttemptsStand DEF CallsInv
<1>1. ASSUME NEW a \in Attempts, NEW redirect \in Redirects[a], Authorize(a, redirect)
      PROVE  QuietStep
  <2>1. current \in Nat /\ current \in 1..current
    <3>1. HandlesMax \in Nat
      BY GrantsAssumption
    <3>2. current \in 1..HandlesMax
      BY <1>0 DEF TypeOK, Handles
    <3> QED
      BY <1>1, <3>1, <3>2
  <2> DEFINE new == [Unmade EXCEPT !.held = TRUE, !.handle = current,
                                   !.listening = redirect = "loopback"]
  <2>2. new \in AttemptRecords /\ new.handle = current
    BY <2>1, Zenon DEF Unmade, AttemptRecords
  <2>3. PICK kept \in SUBSET Held :
          attempt' = [b \in Attempts |->
                        IF b = a /\ Cardinality(kept) < AttemptsMax THEN new
                        ELSE [attempt[b] EXCEPT !.held = b \in kept]]
    BY <1>1 DEF Authorize
  <2> HIDE DEF new
  <2>4. ASSUME NEW b \in Attempts
        PROVE  /\ [attempt[b] EXCEPT !.held = b \in kept] \in AttemptRecords
               /\ [attempt[b] EXCEPT !.held = b \in kept].handle = attempt[b].handle
               /\ [attempt[b] EXCEPT !.held = b \in kept].listening = attempt[b].listening
               /\ [attempt[b] EXCEPT !.held = b \in kept].held => attempt[b].held
    <3>1. attempt[b] \in AttemptRecords /\ (b \in kept => attempt[b].held)
      BY <1>0, <2>3 DEF TypeOK, Held
    <3> DEFINE h == b \in kept
    <3>2. h \in BOOLEAN
      OBVIOUS
    <3> HIDE DEF h
    <3>3. /\ [attempt[b] EXCEPT !.held = h] \in AttemptRecords
          /\ [attempt[b] EXCEPT !.held = h].handle = attempt[b].handle
          /\ [attempt[b] EXCEPT !.held = h].listening = attempt[b].listening
          /\ [attempt[b] EXCEPT !.held = h].held = h
      BY <3>1, <3>2 DEF AttemptRecords
    <3> QED
      BY <3>1, <3>3 DEF h
  <2>5. AttemptsOK(attempt')
    BY <1>0, <2>1, <2>2, <2>3, <2>4 DEF AttemptsOK
  <2> QED
    BY <1>1, <2>5 DEF Authorize, QuietStep, handleVars, diskVars
<1>2. ASSUME NEW a \in Attempts, Return(a)
      PROVE  QuietStep \/ \E c \in Calls : StartStep(c, "finish", "asking")
  <2>1. /\ attempt[a].listening
        /\ UNCHANGED <<spent, current, memory, holder, file, tmp, told, ghosts>>
    BY <1>2 DEF Return, handleVars, diskVars
  <2>2. /\ AttemptsOK([attempt EXCEPT ![a].listening = FALSE])
        /\ AttemptsOK([Resolved(a) EXCEPT ![a].listening = FALSE])
    BY ZenonT(60), <1>0 DEF AttemptsOK, Resolved, AttemptRecords
  <2>3. ASSUME NEW c \in Calls, StartFinish(c, a, TRUE), attempt' = [attempt EXCEPT ![a].listening = FALSE]
        PROVE  StartStep(c, "finish", "asking")
    <3>1. Starts(c, "finish", "asking", attempt[a].handle) /\ call'[c].attempt = a
      BY <1>0, <2>3, StepsOfCalls
    <3>2. attempt[a].handle \in 1..current /\ call'[c].attempt \in Attempts
      BY <1>0, <2>1, <3>1 DEF AttemptsOK
    <3>3. \E h \in 1..current : Starts(c, "finish", "asking", h)
      BY <3>1, <3>2
    <3>4. AttemptsOK(attempt')
      BY <2>2, <2>3
    <3> QED
      BY <2>1, <3>2, <3>3, <3>4 DEF StartStep
  <2> QED
    BY <1>2, <2>1, <2>2, <2>3 DEF Return, QuietStep
<1>3. ASSUME NEW a \in Attempts, Deliver(a)
      PROVE  QuietStep \/ \E c \in Calls : StartStep(c, "finish", "asking")
  <2>1. /\ attempt[a].held
        /\ UNCHANGED <<spent, current, memory, holder, file, tmp, told, ghosts>>
    BY <1>3 DEF Deliver, handleVars, diskVars
  <2>2. AttemptsOK(Resolved(a))
    BY AttemptsStand
  <2>3. ASSUME NEW c \in Calls, StartFinish(c, a, FALSE), attempt' = attempt
        PROVE  StartStep(c, "finish", "asking")
    <3>1. Starts(c, "finish", "asking", attempt[a].handle) /\ call'[c].attempt = a
      BY <1>0, <2>3, StepsOfCalls
    <3>2. attempt[a].handle \in 1..current /\ call'[c].attempt \in Attempts
      BY <1>0, <2>1, <3>1 DEF AttemptsOK
    <3>3. \E h \in 1..current : Starts(c, "finish", "asking", h)
      BY <3>1, <3>2
    <3>4. AttemptsOK(attempt')
      BY <1>0, <2>3
    <3> QED
      BY <2>1, <3>2, <3>3, <3>4 DEF StartStep
  <2> QED
    BY <1>3, <2>1, <2>2, <2>3 DEF Deliver, QuietStep
<1> QED
  BY <1>1, <1>2, <1>3 DEF Owner

\* What is lost or refused is only ever added to.
LEMMA GhostsGrow ==
  ASSUME TypeOK, NEW lost \in SUBSET Attempts, NEW refused \in SUBSET Attempts
  PROVE  /\ [ghosts EXCEPT !.lost = @ \cup lost].lost = ghosts.lost \cup lost
         /\ [ghosts EXCEPT !.lost = @ \cup lost].refused = ghosts.refused
         /\ [ghosts EXCEPT !.lost = @ \cup lost].forgotten = ghosts.forgotten
         /\ [ghosts EXCEPT !.lost = @ \cup lost] \in
              [lost : SUBSET Attempts, refused : SUBSET Attempts, forgotten : SUBSET Attempts]
         /\ [ghosts EXCEPT !.refused = @ \cup refused].lost = ghosts.lost
         /\ [ghosts EXCEPT !.refused = @ \cup refused].refused = ghosts.refused \cup refused
         /\ [ghosts EXCEPT !.refused = @ \cup refused].forgotten = ghosts.forgotten
         /\ [ghosts EXCEPT !.refused = @ \cup refused] \in
              [lost : SUBSET Attempts, refused : SUBSET Attempts, forgotten : SUBSET Attempts]
         /\ ghosts \in [lost : SUBSET Attempts, refused : SUBSET Attempts, forgotten : SUBSET Attempts]
  BY DEF TypeOK

\* What a call can lose is an authorization.
LEMMA UnsavedAre ==
  ASSUME CallsInv, NEW cs \in SUBSET Calls
  PROVE  UnsavedOf(cs) \in SUBSET Attempts
<1>1. ASSUME NEW c \in Calls, IsUnsaved(c) PROVE call[c].got.auth \in Attempts
  <2>1. IsRefreshing(c) /\ call[c].phase # "locking" /\ IsToken(c)
    BY <1>1 DEF IsUnsaved, IsStoring, StoringPhases, IsRefreshing, IsToken
  <2>2. call[c].got.auth # Nobody
    BY <2>1 DEF CallsInv, CallOK, IsToken
  <2>3. call[c].got.auth \in Attempts \cup {Nobody}
    BY DEF CallsInv, TypeOK, CallRecords, Tokens
  <2> QED
    BY <2>2, <2>3
<1> QED
  BY <1>1 DEF UnsavedOf

\* Whatever ends a call only ends it.
LEMMA EndsDo ==
  ASSUME CallsInv, NEW c \in Calls
  PROVE  /\ Refused(c) /\ UNCHANGED <<spent, current, memory, file, tmp, told, ghosts>> /\ InPhase(c, "asking")
              => EndStep(c)
         /\ Fail(c) => EndStep(c)
         /\ Announce(c) => EndStep(c)
         /\ Drop(c) => EndStep(c)
<1>0. TypeOK /\ AttemptsOK(attempt) /\ AttemptsOK(Concluded(c)) /\ UnsavedOf({c}) \in SUBSET Attempts
  BY AttemptsStand, UnsavedAre DEF CallsInv
<1>1. call' = Ended(c) => Stops(c)
  BY <1>0, StepsOfCalls
<1>2. ~IsStoring(c) \/ ~IsToken(c) => UnsavedOf({c}) = {}
  BY DEF UnsavedOf, IsUnsaved, IsToken
<1>3. /\ InPhase(c, "asking") => ~IsStoring(c)
      /\ InPhase(c, "announcing") => ~IsToken(c)
  BY DEF InPhase, IsStoring, StoringPhases, IsToken, CallsInv, CallOK
<1>4. ASSUME Refused(c), UNCHANGED <<spent, current, memory, file, tmp, told, ghosts>>,
             InPhase(c, "asking")
      PROVE  EndStep(c)
  <2>1. attempt' = Concluded(c) /\ Stops(c) /\ holder' = Released(c) /\ ghosts' = ghosts
    BY <1>1, <1>4 DEF Refused
  <2>2. AttemptsOK(attempt')
    BY <1>0, <2>1
  <2>3. UnsavedOf({c}) = {} /\ call[c].phase = "asking"
    BY <1>2, <1>3, <1>4 DEF InPhase
  <2>4. ghosts' \in [lost : SUBSET Attempts, refused : SUBSET Attempts, forgotten : SUBSET Attempts]
    BY <1>0, <2>1 DEF TypeOK
  <2> QED
    BY <1>4, <2>1, <2>2, <2>3, <2>4 DEF EndStep
<1>5. ASSUME Fail(c) PROVE EndStep(c)
  <2>1. /\ attempt' = Concluded(c) /\ Stops(c) /\ holder' = Released(c) /\ LeftBy({c})
        /\ ghosts' = [ghosts EXCEPT !.lost = @ \cup UnsavedOf({c})]
        /\ UNCHANGED <<spent, current, memory, file, told>>
        /\ call[c].phase \in {"asking", "opening", "filling", "renaming"}
    BY <1>1, <1>5 DEF Fail
  <2>2. AttemptsOK(attempt')
    BY <1>0, <2>1
  <2>3. /\ ghosts' \in [lost : SUBSET Attempts, refused : SUBSET Attempts, forgotten : SUBSET Attempts]
        /\ ghosts'.lost = ghosts.lost \cup UnsavedOf({c}) /\ ghosts'.refused = ghosts.refused
        /\ ghosts'.forgotten = ghosts.forgotten
    BY <1>0, <2>1, GhostsGrow
  <2> QED
    BY <2>1, <2>2, <2>3 DEF EndStep
<1>6. ASSUME Announce(c) PROVE EndStep(c)
  <2>1. /\ attempt' = Concluded(c) /\ Stops(c) /\ told' = call[c].got.auth
        /\ UNCHANGED <<spent, current, memory, holder, file, tmp, ghosts>>
        /\ InPhase(c, "announcing") /\ call[c].phase = "announcing"
    BY <1>1, <1>6 DEF Announce, handleVars, diskVars, InPhase
  <2>2. AttemptsOK(attempt')
    BY <1>0, <2>1
  <2>3. UnsavedOf({c}) = {}
    BY <1>2, <1>3, <2>1
  <2>4. ghosts' \in [lost : SUBSET Attempts, refused : SUBSET Attempts, forgotten : SUBSET Attempts]
    BY <1>0, <2>1 DEF TypeOK
  <2> QED
    BY <2>1, <2>2, <2>3, <2>4 DEF EndStep
<1>7. ASSUME Drop(c) PROVE EndStep(c)
  <2>1. /\ Stops(c) /\ holder' = Released(c) /\ LeftBy({c})
        /\ ghosts' = [ghosts EXCEPT !.lost = @ \cup UnsavedOf({c})]
        /\ UNCHANGED <<spent, attempt, current, memory, file, told>>
    BY <1>1, <1>7 DEF Drop, serviceVars
  <2>2. AttemptsOK(attempt')
    BY <1>0, <2>1
  <2>3. /\ ghosts' \in [lost : SUBSET Attempts, refused : SUBSET Attempts, forgotten : SUBSET Attempts]
        /\ ghosts'.lost = ghosts.lost \cup UnsavedOf({c}) /\ ghosts'.refused = ghosts.refused
        /\ ghosts'.forgotten = ghosts.forgotten
    BY <1>0, <2>1, GhostsGrow
  <2>4. call[c].phase \in {"setting", "taking", "announcing"} => crossed'
    BY <1>7 DEF Drop, InPhase
  <2> QED
    BY <2>1, <2>2, <2>3, <2>4 DEF EndStep
<1> QED
  BY <1>4, <1>5, <1>6, <1>7


\* An answer of the provider is an exchange, a refresh or the end of a call.
LEMMA ProviderDoes ==
  ASSUME CallsInv, NEW c \in Calls, Provider(c)
  PROVE  EndStep(c) \/ ExchangeStep(c) \/ \E n \in Nat : RefreshStep(c, n)
<1>0. /\ TypeOK /\ CallOK(call[c]) /\ call[c] \in CallRecords /\ call[c].got \in Tokens
      /\ "opening" \in Phases
  BY DEF CallsInv, TypeOK, CallRecords, Phases, StoringPhases
<1>1. CASE ExchangeCode(c)
  <2>1. /\ InPhase(c, "asking") /\ IsFinish(c) /\ call[c].attempt \in Attempts
        /\ UNCHANGED <<current, memory, file, tmp, told, ghosts>>
    BY <1>0, <1>1 DEF ExchangeCode, diskVars, IsFinish, CallOK
  <2>2. CASE spent[call[c].attempt] = 0
    <3>1. /\ spent' = [spent EXCEPT ![call[c].attempt] = 1]
          /\ UNCHANGED <<attempt, holder>>
      BY <1>1, <2>2 DEF ExchangeCode
    <3>2. PICK n \in {0, 1} : call' = [call EXCEPT ![c].phase = "opening",
                                         ![c].got = [auth |-> call[c].attempt, refresh |-> n]]
      BY <1>1, <2>2 DEF ExchangeCode
    <3>3. [auth |-> call[c].attempt, refresh |-> n] \in Tokens
      BY <2>1 DEF Tokens
    <3>4. Goes(c, "opening", [auth |-> call[c].attempt, refresh |-> n]) /\ FdsStay(c)
      BY <1>0, <3>2, <3>3, StepsOfCalls
    <3> QED
      BY <2>1, <2>2, <3>1, <3>4 DEF ExchangeStep
  <2>3. CASE spent[call[c].attempt] # 0
    <3>1. Refused(c) /\ UNCHANGED spent
      BY <1>1, <2>3 DEF ExchangeCode
    <3> QED
      BY <2>1, <3>1, EndsDo
  <2> QED
    BY <2>2, <2>3
<1>2. CASE Refresh(c)
  <2> DEFINE t == call[c].got
  <2>1. /\ InPhase(c, "asking") /\ IsToken(c) /\ t.auth \in Attempts /\ t.refresh \in Nat
        /\ UNCHANGED <<current, memory, file, tmp, told>>
    <3>1. call[c].kind = "token" /\ call[c].phase = "asking"
          /\ UNCHANGED <<current, memory, file, tmp, told>>
      BY <1>2 DEF Refresh, InPhase, diskVars
    <3>2. t.auth # Nobody
      BY <1>0, <3>1 DEF CallOK
    <3> QED
      BY <1>0, <3>1, <3>2 DEF IsToken, InPhase, Tokens
  <2>2. CASE t.refresh = spent[t.auth]
    <3>1. PICK n \in {t.refresh, t.refresh + 1} :
            /\ spent' = [spent EXCEPT ![t.auth] = n]
            /\ call' = [call EXCEPT ![c].phase = "opening", ![c].got.refresh = n]
            /\ ghosts' = [ghosts EXCEPT !.lost = @ \cup (IF IsAside(c) /\ n # t.refresh THEN {t.auth} ELSE {})]
            /\ UNCHANGED <<attempt, holder>>
      BY <1>2, <2>2 DEF Refresh
    <3>2. n \in Nat
      BY <2>1
    <3>3. Goes(c, "opening", [auth |-> t.auth, refresh |-> n]) /\ FdsStay(c)
      BY <1>0, <3>1, <3>2, StepsOfCalls
    <3>4. (IF IsAside(c) /\ n # t.refresh THEN {t.auth} ELSE {}) \in SUBSET Attempts
      BY <2>1
    <3>5. /\ ghosts' \in [lost : SUBSET Attempts, refused : SUBSET Attempts, forgotten : SUBSET Attempts]
          /\ ghosts'.forgotten = ghosts.forgotten /\ ghosts'.refused = ghosts.refused
          /\ ghosts'.lost = ghosts.lost \cup (IF IsAside(c) /\ n # t.refresh THEN {t.auth} ELSE {})
      BY <1>0, <3>1, <3>4, GhostsGrow
    <3>6. RefreshStep(c, n)
      BY <2>1, <2>2, <3>1, <3>3, <3>5 DEF RefreshStep
    <3> QED
      BY <3>2, <3>6, ZenonT(40)
  <2>3. CASE t.refresh # spent[t.auth]
    <3>1. /\ Refused(c) /\ UNCHANGED spent
          /\ ghosts' = [ghosts EXCEPT !.refused = @ \cup ({t.auth} \ ghosts.lost)]
      BY <1>2, <2>3 DEF Refresh
    <3>2. /\ Stops(c) /\ AttemptsOK(attempt') /\ holder' = Released(c)
      BY <1>0, <3>1, AttemptsStand, StepsOfCalls DEF Refused
    <3>3. {t.auth} \ ghosts.lost \in SUBSET Attempts
      BY <2>1
    <3>4. /\ ghosts' \in [lost : SUBSET Attempts, refused : SUBSET Attempts, forgotten : SUBSET Attempts]
          /\ ghosts'.forgotten = ghosts.forgotten /\ ghosts'.lost = ghosts.lost
          /\ ghosts'.refused = ghosts.refused \cup ({t.auth} \ ghosts.lost)
      BY <1>0, <3>1, <3>3, GhostsGrow
    <3>5. UnsavedOf({c}) = {} /\ call[c].phase = "asking"
      BY <2>1 DEF UnsavedOf, IsUnsaved, IsStoring, StoringPhases, InPhase
    <3>6. \A a \in ghosts'.refused \ ghosts.refused : IsRefused(c, a)
      BY <2>1, <2>3, <3>4 DEF IsRefused
    <3> QED
      BY <2>1, <3>1, <3>2, <3>4, <3>5, <3>6 DEF EndStep
  <2> QED
    BY <2>2, <2>3
<1> QED
  BY <1>1, <1>2 DEF Provider

\* Every step of write_tokens and of what follows it, by what it touches.
LEMMA StoringDoes ==
  ASSUME CallsInv, NEW c \in Calls, Storing(c)
  PROVE  \/ OpenStep(c) \/ FillStep(c) \/ RenameStep(c) \/ EndStep(c)
         \/ SetAuthorizedStep(c) \/ SetRefreshedStep(c)
<1>0. /\ TypeOK /\ CallOK(call[c]) /\ call[c] \in CallRecords /\ call[c].got \in Tokens
      /\ {"filling", "renaming", "setting", "announcing"} \subseteq Phases
  BY DEF CallsInv, TypeOK, CallRecords, Phases, StoringPhases
<1>1. CASE Open(c)
  <2>1. Goes(c, "filling", call[c].got) /\ FdsStay(c) /\ call'[c].fd = "tmp"
    BY <1>0, <1>1, StepsOfCalls DEF Open
  <2> QED
    BY <1>1, <2>1 DEF Open, OpenStep, serviceVars, handleVars
<1>2. CASE Fill(c)
  <2>1. Goes(c, "renaming", call[c].got) /\ FdsStay(c)
    BY <1>0, <1>2, StepsOfCalls DEF Fill
  <2>2. call[c].fd = "tmp" => call[c].fd # "file"
    OBVIOUS
  <2> QED
    BY <1>2, <2>1, <2>2 DEF Fill, FillStep, serviceVars, handleVars
<1>3. CASE Rename(c)
  <2>1. \A fd \in {"none", "tmp", "file"} : Moved(fd) \in {"none", "tmp", "file"}
    BY DEF Moved
  <2>2. ASSUME NEW d \in Calls
        PROVE  /\ call'[d] \in CallRecords
               /\ call'[d].kind = call[d].kind /\ call'[d].handle = call[d].handle
               /\ call'[d].attempt = call[d].attempt /\ call'[d].got = call[d].got
               /\ call'[d].sole = call[d].sole
               /\ call'[d].phase = IF d = c THEN "setting" ELSE call[d].phase
    <3> DEFINE fd == Moved(call[d].fd)
               phase == IF d = c THEN "setting" ELSE call[d].phase
    <3>1. call'[d] = [call[d] EXCEPT !.fd = fd, !.phase = phase]
      BY <1>3 DEF Rename
    <3>2. call[d] \in CallRecords
      BY <1>0 DEF TypeOK
    <3>3. fd \in {"none", "tmp", "file"} /\ phase \in Phases
      BY <1>0, <2>1, <3>2 DEF CallRecords
    <3> HIDE DEF fd, phase
    <3>4. /\ call'[d] \in CallRecords
          /\ call'[d].kind = call[d].kind /\ call'[d].handle = call[d].handle
          /\ call'[d].attempt = call[d].attempt /\ call'[d].got = call[d].got
          /\ call'[d].sole = call[d].sole
          /\ call'[d].phase = phase
      BY <3>1, <3>2, <3>3 DEF CallRecords
    <3> QED
      BY <3>4 DEF phase
  <2>3. call' \in [Calls -> CallRecords]
    <3>1. call' = [d \in Calls |-> call'[d]]
      BY <1>3 DEF Rename
    <3> QED
      BY <2>2, <3>1
  <2>4. Goes(c, "setting", call[c].got)
    BY <2>2, <2>3 DEF Goes, Others, Alike
  <2> QED
    BY <1>3, <2>4 DEF Rename, RenameStep, serviceVars, handleVars
<1>4. CASE Fail(c)
  BY <1>4, EndsDo
<1>5. CASE SetAuthorized(c)
  <2>1. Goes(c, "announcing", call[c].got) /\ FdsStay(c)
    BY <1>0, <1>5, StepsOfCalls DEF SetAuthorized
  <2> QED
    BY <1>5, <2>1 DEF SetAuthorized, SetAuthorizedStep, serviceVars, diskVars, IsFinish
<1>6. CASE SetRefreshed(c)
  <2>1. Stops(c)
    BY <1>0, <1>6, StepsOfCalls DEF SetRefreshed
  <2> QED
    BY <1>6, <2>1 DEF SetRefreshed, SetRefreshedStep, serviceVars, diskVars, IsToken
<1> QED
  BY <1>1, <1>2, <1>3, <1>4, <1>5, <1>6 DEF Storing


\* The handles of the calls are registered ones.
LEMMA HandlesAre ==
  ASSUME CallsInv
  PROVE  /\ current \in Handles /\ current \in Nat /\ HandlesMax \in Nat
         /\ 1..current \subseteq Handles
         /\ \A c \in Calls : Handle(c) \in Nat
         /\ \A c \in Calls : call[c].kind # "idle" => Handle(c) \in Handles /\ Handle(c) <= current
<1>1. HandlesMax \in Nat /\ current \in 1..HandlesMax
  BY GrantsAssumption DEF CallsInv, TypeOK, Handles
<1>2. \A c \in Calls : call[c].kind # "idle" => Handle(c) \in 1..current
  BY DEF CallsInv, Registered, Handle
<1>3. \A c \in Calls : Handle(c) \in Nat
  BY DEF CallsInv, TypeOK, CallRecords, Handle
<1> QED
  BY <1>1, <1>2, <1>3 DEF Handles

\* A consumer starts, takes the lock for a refresh, or has its answer.
LEMMA ConsumerDoes ==
  ASSUME CallsInv, NEW c \in Calls, AskToken(c) \/ TakeToken(c)
  PROVE  StartStep(c, "token", "locking") \/ EndStep(c) \/ LockStep(c)
<1>0. /\ TypeOK /\ AttemptsOK(attempt) /\ CallOK(call[c]) /\ call[c] \in CallRecords
      /\ current \in 1..current /\ "asking" \in Phases
      /\ ghosts \in [lost : SUBSET Attempts, refused : SUBSET Attempts, forgotten : SUBSET Attempts]
  BY AttemptsStand, GrantsAssumption DEF CallsInv, TypeOK, CallRecords, Phases, Handles
<1>1. CASE AskToken(c)
  <2>1. Starts(c, "token", "locking", current)
    BY <1>0, <1>1, StepsOfCalls
  <2>2. \E h \in 1..current : Starts(c, "token", "locking", h)
    BY <1>0, <2>1
  <2>3. call'[c].handle = current
    BY <2>1 DEF Starts
  <2> QED
    BY <1>0, <1>1, <2>2, <2>3 DEF AskToken, StartStep, serviceVars, handleVars, diskVars
<1>2. CASE TakeToken(c)
  <2>1. /\ InPhase(c, "locking") /\ IsToken(c) /\ holder[Handle(c)] = Nobody
        /\ UNCHANGED <<spent, attempt, current, memory, file, tmp, told, ghosts>>
    BY <1>2 DEF TakeToken, serviceVars, diskVars, IsToken
  <2>2. ASSUME call' = Ended(c), UNCHANGED holder PROVE EndStep(c)
    <3>1. Stops(c)
      BY <1>0, <2>2, StepsOfCalls
    <3>2. call[c].phase = "locking" /\ UnsavedOf({c}) = {}
      BY <2>1 DEF UnsavedOf, IsUnsaved, IsStoring, StoringPhases, InPhase
    <3> QED
      BY <1>0, <2>1, <2>2, <3>1, <3>2 DEF EndStep
  <2>3. ASSUME memory[Handle(c)].refresh # 0, Refreshing(c),
               call' = [call EXCEPT ![c].phase = "asking", ![c].got = memory[Handle(c)]]
        PROVE  LockStep(c)
    <3>1. Handle(c) \in Handles
      BY <2>1, HandlesAre DEF IsToken
    <3>2. memory[Handle(c)] \in Tokens
      BY <1>0, <3>1 DEF TypeOK
    <3>3. Goes(c, "asking", memory[Handle(c)]) /\ FdsStay(c)
      BY <1>0, <2>3, <3>2, StepsOfCalls
    <3> QED
      BY <2>1, <2>3, <3>3 DEF LockStep, Refreshing
  <2> QED
    BY <1>2, <2>2, <2>3 DEF TakeToken
<1> QED
  BY <1>1, <1>2

\* A revocation starts, removes the file, takes the tokens, or ends.
LEMMA RevokingDoes ==
  ASSUME CallsInv, NEW c \in Calls, Revoking(c)
  PROVE  StartStep(c, "revoke", "locking") \/ EndStep(c) \/ RemoveStep(c) \/ TakeStep(c)
<1>0. /\ TypeOK /\ AttemptsOK(attempt) /\ CallOK(call[c]) /\ call[c] \in CallRecords
      /\ current \in 1..current /\ {"taking", "announcing"} \subseteq Phases
      /\ ghosts \in [lost : SUBSET Attempts, refused : SUBSET Attempts, forgotten : SUBSET Attempts]
  BY AttemptsStand, GrantsAssumption DEF CallsInv, TypeOK, CallRecords, Phases, StoringPhases, Handles
<1>1. CASE AskRevoke(c)
  <2>1. Starts(c, "revoke", "locking", current)
    BY <1>0, <1>1, StepsOfCalls
  <2>2. \E h \in 1..current : Starts(c, "revoke", "locking", h)
    BY <1>0, <2>1
  <2>3. call'[c].handle = current
    BY <2>1 DEF Starts
  <2> QED
    BY <1>0, <1>1, <2>2, <2>3 DEF AskRevoke, StartStep, serviceVars, handleVars, diskVars
<1>2. CASE RemoveFile(c)
  <2>1. /\ InPhase(c, "locking") /\ IsRevoke(c) /\ holder[Handle(c)] = Nobody
        /\ UNCHANGED <<spent, attempt, current, tmp, told, ghosts>>
    BY <1>2 DEF RemoveFile, serviceVars, IsRevoke
  <2>2. ASSUME Stays(c) PROVE EndStep(c)
    <3>1. Stops(c) /\ UNCHANGED <<file, holder, memory>>
      BY <1>0, <2>2, StepsOfCalls DEF Stays
    <3>2. call[c].phase = "locking" /\ UnsavedOf({c}) = {}
      BY <2>1 DEF UnsavedOf, IsUnsaved, IsStoring, StoringPhases, InPhase
    <3> QED
      BY <1>0, <2>1, <3>1, <3>2 DEF EndStep
  <2>3. ASSUME ~Stays(c) PROVE RemoveStep(c)
    <3>1. /\ file' = Absent /\ UNCHANGED memory
          /\ holder' = [holder EXCEPT ![Handle(c)] = c]
          /\ call' = [d \in Calls |->
                        IF d = c
                        THEN [call[d] EXCEPT !.phase = "taking",
                                             !.sole = ~IsElsewhere(memory[Handle(c)].auth, c)]
                        ELSE [call[d] EXCEPT !.fd = IF @ = "file" THEN "none" ELSE @]]
      BY <1>2, <2>3 DEF RemoveFile
    <3>2. /\ call'[c] \in CallRecords
          /\ call'[c].kind = call[c].kind /\ call'[c].handle = call[c].handle
          /\ call'[c].attempt = call[c].attempt /\ call'[c].got = call[c].got
          /\ call'[c].phase = "taking"
          /\ call'[c].sole = ~IsElsewhere(memory[Handle(c)].auth, c)
      <4> DEFINE sole == ~IsElsewhere(memory[Handle(c)].auth, c)
      <4>1. sole \in BOOLEAN /\ call'[c] = [call[c] EXCEPT !.phase = "taking", !.sole = sole]
        BY <3>1 DEF IsElsewhere
      <4> HIDE DEF sole
      <4>2. /\ call'[c] \in CallRecords
            /\ call'[c].kind = call[c].kind /\ call'[c].handle = call[c].handle
            /\ call'[c].attempt = call[c].attempt /\ call'[c].got = call[c].got
            /\ call'[c].phase = "taking" /\ call'[c].sole = sole
        BY <1>0, <4>1 DEF CallRecords
      <4> QED
        BY <4>2 DEF sole
    <3>3. ASSUME NEW d \in Calls \ {c}
          PROVE  /\ call'[d] \in CallRecords /\ Alike(call'[d], call[d])
                 /\ call[d].fd = "tmp" => call'[d].fd = "tmp"
      <4> DEFINE fd == IF call[d].fd = "file" THEN "none" ELSE call[d].fd
      <4>1. call[d] \in CallRecords /\ call'[d] = [call[d] EXCEPT !.fd = fd]
        BY <1>0, <3>1 DEF TypeOK
      <4>2. fd \in {"none", "tmp", "file"} /\ (call[d].fd = "tmp" => fd = "tmp")
        BY <4>1 DEF CallRecords
      <4> HIDE DEF fd
      <4> QED
        BY <4>1, <4>2 DEF CallRecords, Alike
    <3>4. call' \in [Calls -> CallRecords]
      <4>1. call' = [d \in Calls |-> call'[d]]
        BY <3>1
      <4>2. \A d \in Calls : call'[d] \in CallRecords
        BY <3>2, <3>3
      <4> QED
        BY <4>1, <4>2
    <3>5. Goes(c, "taking", call[c].got)
      BY <3>2, <3>3, <3>4 DEF Goes, Others
    <3> QED
      BY <2>1, <3>1, <3>2, <3>3, <3>5 DEF RemoveStep
  <2> QED
    BY <2>2, <2>3
<1>3. CASE TakeTokens(c)
  <2> DEFINE a == memory[Handle(c)].auth
  <2>1. /\ InPhase(c, "taking")
        /\ UNCHANGED <<spent, attempt, current, file, tmp, told>>
        /\ memory' = [memory EXCEPT ![Handle(c)] = NoTokens]
        /\ holder' = Released(c)
        /\ ghosts' = IF a = Nobody \/ ~call[c].sole THEN ghosts
                     ELSE [ghosts EXCEPT !.forgotten = @ \cup {a}]
        /\ call' = IF a = Nobody THEN Ended(c) ELSE To(c, "announcing")
    BY <1>3 DEF TakeTokens, serviceVars, diskVars
  <2>2. a = Nobody => Stops(c) /\ FdsStay(c)
    BY <1>0, <2>1, StepsOfCalls DEF Stops
  <2>3. a # Nobody => Goes(c, "announcing", call[c].got) /\ FdsStay(c)
    BY <1>0, <2>1, StepsOfCalls
  <2> QED
    BY <2>1, <2>2, <2>3 DEF TakeStep
<1> QED
  BY <1>1, <1>2, <1>3 DEF Revoking

\* What a step of a call or of the owner is one of.
CallStep(c) ==
    \/ StartStep(c, "finish", "asking") \/ StartStep(c, "token", "locking")
    \/ StartStep(c, "revoke", "locking") \/ EndStep(c)
    \/ ExchangeStep(c) \/ \E n \in Nat : RefreshStep(c, n)
    \/ OpenStep(c) \/ FillStep(c) \/ RenameStep(c)
    \/ SetAuthorizedStep(c) \/ SetRefreshedStep(c)
    \/ LockStep(c) \/ RemoveStep(c) \/ TakeStep(c)

\* Stores that cross stay counted until a load.
Counted(c) ==
    ~crossed' => /\ ~crossed
                 /\ \/ ~Crossing'
                    \/ Stops(c) /\ ~InPhase(c, "setting") /\ ~InPhase(c, "taking")

\* Every step is one of those described, or a remount or a restart.
LEMMA NextDoes ==
  ASSUME CallsInv, Next
  PROVE  \/ QuietStep /\ crossed' = (crossed \/ Crossing')
         \/ \E c \in Calls : CallStep(c) /\ Counted(c) /\ crossed' \in BOOLEAN
         \/ Remount \/ Restart
<1>0. TypeOK /\ crossed \in BOOLEAN
  BY DEF CallsInv, TypeOK
<1>1. ASSUME NEW c \in Calls, CallStep(c), crossed' = (crossed \/ Crossing')
      PROVE  CallStep(c) /\ Counted(c) /\ crossed' \in BOOLEAN
  BY <1>0, <1>1 DEF Counted
<1>2. ASSUME Owner, crossed' = (crossed \/ Crossing')
      PROVE  QuietStep \/ \E c \in Calls : CallStep(c) /\ Counted(c) /\ crossed' \in BOOLEAN
  BY <1>1, <1>2, OwnerDoes DEF CallStep
<1>3. ASSUME NEW c \in Calls, crossed' = (crossed \/ Crossing'),
             \/ AskToken(c) \/ TakeToken(c) \/ Provider(c) \/ Storing(c)
             \/ Revoking(c) \/ Announce(c)
      PROVE  CallStep(c) /\ Counted(c) /\ crossed' \in BOOLEAN
  <2>1. CallStep(c)
    BY <1>3, ConsumerDoes, ProviderDoes, StoringDoes, RevokingDoes, EndsDo DEF CallStep
  <2> QED
    BY <1>1, <1>3, <2>1
<1>4. ASSUME NEW c \in Calls, Drop(c)
      PROVE  CallStep(c) /\ Counted(c) /\ crossed' \in BOOLEAN
  <2>1. /\ crossed' = (crossed \/ call[c].phase \in {"setting", "taking"})
        /\ call' = Ended(c)
    BY <1>4 DEF Drop
  <2>2. EndStep(c) /\ Stops(c)
    BY <1>0, <1>4, <2>1, EndsDo, StepsOfCalls
  <2> QED
    BY <1>0, <2>1, <2>2 DEF CallStep, Counted, InPhase
<1> QED
  BY <1>2, <1>3, <1>4 DEF Next


-----------------------------------------------------------------------------
(* The calls keep their shapes, and the lock is held *)

\* Where the contents of the files, the handles and the call come from.
Carried(c) ==
    /\ \A a \in Attempts : spent[a] # 0 => spent'[a] # 0
    /\ file'.auth \in {file.auth, tmp.auth, call[c].got.auth, Nobody}
    /\ tmp'.auth \in {tmp.auth, call[c].got.auth, Nobody}
    /\ \A h \in Handles : memory'[h].auth \in {memory[h].auth, call[c].got.auth, Nobody}
    /\ \/ call'[c].got.auth \in {call[c].got.auth, Nobody}
       \/ IsToken(c) /\ call'[c].got.auth = memory[Handle(c)].auth
       \/ spent[call'[c].got.auth] = 0 /\ spent'[call'[c].got.auth] # 0

IsWriting(phase) == phase \in {"filling", "renaming"}

\* What a step of a call leaves to the others.
Tame(c) ==
    /\ Others(c) /\ current' = current
    /\ spent' \in [Attempts -> Nat] /\ memory' \in [Handles -> Tokens]
    /\ holder' \in [Handles -> Calls \cup {Nobody}]
    /\ file' \in Tokens /\ tmp' \in Tokens /\ told' \in Attempts \cup {Nobody}
    /\ IsContent(file') /\ IsContent(tmp')
    /\ ghosts' \in [lost : SUBSET Attempts, refused : SUBSET Attempts, forgotten : SUBSET Attempts]
    /\ AttemptsOK(attempt')
    /\ CallOK(call'[c])
    /\ call'[c].kind # "idle" => call'[c].handle \in 1..current
    /\ call'[c].kind = "token" => \/ call'[c].handle = current
                                  \/ IsToken(c) /\ call'[c].handle = call[c].handle
    /\ \A h \in Handles : \/ memory'[h] = memory[h]
                          \/ Sound(memory'[h]) /\ holder[h] \in {c, Nobody}
    /\ \A h \in Handles : holder[h] \in Calls \ {c} => holder'[h] = holder[h]
    /\ IsLocked(c)'
    /\ tmp' # Absent => \/ IsWriting(call'[c].phase)
                        \/ \E d \in Calls \ {c} : IsWriting(call[d].phase)
                        \/ tmp' = tmp /\ ~IsWriting(call[c].phase)
    /\ Carried(c)

\* A step of one call that is tame keeps what the calls are.
LEMMA TameKeeps ==
  ASSUME CallsInv, NEW c \in Calls, Tame(c), crossed' \in BOOLEAN
  PROVE  CallsInv'
<1>0. /\ TypeOK /\ Nobody \notin Calls \cup Attempts
      /\ \A d \in Calls : CallOK(call[d])
      /\ Others(c) /\ current' = current
  BY GrantsAssumption DEF CallsInv, Tame
<1>1. TypeOK'
  BY <1>0 DEF TypeOK, Tame, Others, AttemptsOK
<1>2. \A d \in Calls : CallOK(call'[d])
  BY <1>0 DEF Tame, Others, Alike, CallOK
<1>3. \A h \in Handles : Sound(memory'[h])
  BY DEF CallsInv, Tame, Sound
<1>4. Registered'
  BY <1>0 DEF CallsInv, Registered, Tame, AttemptsOK, Others, Alike
<1>5. ASSUME NEW d \in Calls PROVE IsLocked(d)'
  <2>1. CASE d = c
    BY <2>1 DEF Tame
  <2>2. CASE d # c
    <3>1. /\ call'[d].kind = call[d].kind /\ call'[d].phase = call[d].phase
          /\ call'[d].handle = call[d].handle /\ call'[d].got = call[d].got
      BY <1>0, <2>2 DEF Others, Alike
    <3>2. IsLocked(d) /\ CallOK(call[d])
      BY <1>0 DEF CallsInv, Locked
    <3>3. IsRefreshing(d) \/ call[d].phase = "taking" => Handle(d) \in Handles
      BY <3>2, HandlesAre DEF IsRefreshing, IsToken, CallOK
    <3>4. ASSUME Handle(d) \in Handles, holder[Handle(d)] = d
          PROVE  holder'[Handle(d)] = d /\ memory'[Handle(d)] = memory[Handle(d)]
      BY <1>0, <2>2, <3>4 DEF Tame
    <3> QED
      BY <3>1, <3>2, <3>3, <3>4 DEF IsLocked, IsRefreshing, IsToken, Handle
  <2> QED
    BY <2>1, <2>2
<1>6. TmpInUse'
  <2>1. \A d \in Calls \ {c} : call'[d].phase = call[d].phase
    BY <1>0 DEF Others, Alike
  <2>2. tmp # Absent => \E d \in Calls : IsWriting(call[d].phase)
    BY DEF CallsInv, TmpInUse, IsWriting
  <2>3. tmp' # Absent => \E d \in Calls : IsWriting(call'[d].phase)
    BY <2>1, <2>2 DEF Tame
  <2> QED
    BY <2>3 DEF TmpInUse, IsWriting, Absent, NoTokens
<1>7. ASSUME NEW a \in Attempts, spent'[a] = 0
      PROVE  /\ file'.auth # a /\ tmp'.auth # a
             /\ \A h \in Handles : memory'[h].auth # a
             /\ \A d \in Calls : call'[d].got.auth # a
  <2>1. spent[a] = 0 /\ a # Nobody
    BY <1>0, <1>7 DEF Tame, Carried
  <2>2. /\ file.auth # a /\ tmp.auth # a
        /\ \A h \in Handles : memory[h].auth # a
        /\ \A d \in Calls : call[d].got.auth # a
    BY <2>1 DEF CallsInv, Exchanged
  <2>3. \A d \in Calls \ {c} : call'[d].got = call[d].got
    BY <1>0 DEF Others, Alike
  <2>4. IsToken(c) => memory[Handle(c)].auth # a
    BY <2>2, HandlesAre DEF IsToken
  <2>5. call'[c].got.auth # a
    BY <1>7, <2>1, <2>2, <2>4 DEF Tame, Carried
  <2> QED
    BY <2>1, <2>2, <2>3, <2>5 DEF Tame, Carried
<1>8. Exchanged'
  BY <1>7 DEF Exchanged
<1>9. Locked'
  BY <1>5 DEF Locked
<1>10. IsContent(file') /\ IsContent(tmp')
  BY DEF Tame
<1> QED
  BY <1>1, <1>2, <1>3, <1>4, <1>6, <1>8, <1>9, <1>10 DEF CallsInv


\* The call in the state before, and what it may hold.
LEMMA CallIs ==
  ASSUME CallsInv, NEW c \in Calls
  PROVE  /\ TypeOK /\ Nobody \notin Calls \cup Attempts /\ AttemptsOK(attempt)
         /\ call[c] \in CallRecords /\ CallOK(call[c]) /\ IsLocked(c)
         /\ call[c].got \in Tokens /\ call[c].got.auth \in Attempts \cup {Nobody}
         /\ call[c].got.refresh \in Nat
         /\ Sound(call[c].got)
         /\ IsContent(file) /\ IsContent(tmp) /\ IsContent(NoTokens) /\ IsContent(Half)
         /\ Released(c) \in [Handles -> Calls \cup {Nobody}]
         /\ \A h \in Handles : holder[h] \in Calls \ {c} => Released(c)[h] = holder[h]
<1>1. /\ TypeOK /\ Nobody \notin Calls \cup Attempts /\ AttemptsOK(attempt)
      /\ call[c] \in CallRecords /\ CallOK(call[c]) /\ IsLocked(c)
  BY GrantsAssumption, AttemptsStand DEF CallsInv, TypeOK, Locked
<1>2. /\ call[c].got \in Tokens /\ call[c].got.auth \in Attempts \cup {Nobody}
      /\ call[c].got.refresh \in Nat
  BY <1>1 DEF CallRecords, Tokens
<1>3. Sound(call[c].got)
  <2>1. call[c].kind \in {"finish", "token", "revoke", "idle"}
    BY <1>1 DEF CallRecords, Kinds
  <2>2. call[c].kind = "finish" => call[c].got = NoTokens \/ call[c].got.auth \in Attempts
    BY <1>1 DEF CallOK
  <2> QED
    BY <1>1, <2>1, <2>2 DEF CallOK, Sound
<1>4. /\ Released(c) \in [Handles -> Calls \cup {Nobody}]
      /\ \A h \in Handles : holder[h] \in Calls \ {c} => Released(c)[h] = holder[h]
  BY <1>1 DEF Released, TypeOK
<1>5. IsContent(file) /\ IsContent(tmp) /\ IsContent(NoTokens) /\ IsContent(Half)
  BY DEF CallsInv, IsContent, Sound
<1> QED
  BY <1>1, <1>2, <1>3, <1>4, <1>5

\* A call that has begun or ended holds nothing and needs no lock.
LEMMA StartsAndEndsAreTame ==
  ASSUME CallsInv, NEW c \in Calls
  PROVE  /\ StartStep(c, "finish", "asking") => Tame(c)
         /\ StartStep(c, "token", "locking") => Tame(c)
         /\ StartStep(c, "revoke", "locking") => Tame(c)
         /\ EndStep(c) => Tame(c)
<1>0. /\ TypeOK /\ call[c].got.auth \in Attempts \cup {Nobody}
      /\ CallOK(call[c]) /\ NoTokens \in Tokens /\ NoTokens.auth = Nobody /\ NoTokens.refresh = 0
      /\ Released(c) \in [Handles -> Calls \cup {Nobody}]
      /\ \A h \in Handles : holder[h] \in Calls \ {c} => Released(c)[h] = holder[h]
      /\ IsContent(file) /\ IsContent(tmp) /\ IsContent(NoTokens) /\ IsContent(Half)
  BY CallIs, Shapes
<1>1. ASSUME NEW kind, NEW phase, StartStep(c, kind, phase),
             \/ kind = "finish" /\ phase = "asking"
             \/ kind = "token" /\ phase = "locking"
             \/ kind = "revoke" /\ phase = "locking"
      PROVE  Tame(c)
  <2>1. /\ UNCHANGED <<spent, current, memory, holder, file, tmp, told, ghosts>>
        /\ AttemptsOK(attempt')
        /\ Others(c) /\ call[c].kind = "idle" /\ call'[c].kind = kind /\ call'[c].phase = phase
        /\ call'[c].handle \in 1..current /\ call'[c].got = NoTokens
        /\ kind = "finish" => call'[c].attempt \in Attempts
        /\ kind # "finish" => call'[c].handle = current
    BY <1>1 DEF StartStep, Starts
  <2>2. CallOK(call'[c])
    BY <1>0, <1>1, <2>1 DEF CallOK
  <2>3. IsLocked(c)'
    BY <1>1, <2>1 DEF IsLocked, IsRefreshing, IsToken
  <2>4. Carried(c)
    BY <1>0, <2>1 DEF Carried
  <2>5. call[c].phase = "idle"
    BY <1>0, <2>1 DEF CallOK
  <2> QED
    BY <1>0, <1>1, <2>1, <2>2, <2>3, <2>4, <2>5 DEF Tame, TypeOK, IsWriting
<1>2. ASSUME EndStep(c) PROVE Tame(c)
  <2>1. /\ UNCHANGED <<spent, current, memory, file>>
        /\ AttemptsOK(attempt')
        /\ Others(c) /\ call'[c].kind = "idle" /\ call'[c].phase = "idle" /\ call'[c].got = NoTokens
        /\ holder' \in {holder, Released(c)}
        /\ tmp' = tmp \/ LeftBy({c})
        /\ call[c].phase \in {"filling", "renaming"} => LeftBy({c})
        /\ told' = told \/ told' = call[c].got.auth
        /\ ghosts' \in [lost : SUBSET Attempts, refused : SUBSET Attempts, forgotten : SUBSET Attempts]
    BY <1>2 DEF EndStep, Stops
  <2>2. CallOK(call'[c])
    BY <1>0, <2>1, Shapes DEF CallOK
  <2>3. IsLocked(c)'
    BY <2>1 DEF IsLocked, IsRefreshing, IsToken
  <2>4. tmp' \in {tmp, NoTokens}
    BY <2>1 DEF LeftBy, Absent
  <2>8. IsContent(tmp')
    BY <1>0, <2>4
  <2>5. tmp' # Absent => \/ \E d \in Calls \ {c} : IsWriting(call[d].phase)
                         \/ tmp' = tmp /\ ~IsWriting(call[c].phase)
    BY <2>1 DEF LeftBy, IsWriting
  <2>6. Carried(c)
    BY <1>0, <2>1, <2>4 DEF Carried
  <2>7. holder' \in [Handles -> Calls \cup {Nobody}] /\ tmp' \in Tokens
        /\ \A h \in Handles : holder[h] \in Calls \ {c} => holder'[h] = holder[h]
    BY <1>0, <2>1, <2>4 DEF TypeOK
  <2> QED
    BY <1>0, <2>1, <2>2, <2>3, <2>5, <2>6, <2>7, <2>8 DEF Tame, TypeOK
<1> QED
  BY <1>1, <1>2

\* The provider's answers are tame.
LEMMA ProviderIsTame ==
  ASSUME CallsInv, NEW c \in Calls
  PROVE  /\ ExchangeStep(c) => Tame(c)
         /\ \A n \in Nat : RefreshStep(c, n) => Tame(c)
<1>0. /\ TypeOK /\ Nobody \notin Calls \cup Attempts /\ AttemptsOK(attempt)
      /\ CallOK(call[c]) /\ IsLocked(c) /\ call[c].got \in Tokens
      /\ call[c].got.auth \in Attempts \cup {Nobody} /\ call[c].got.refresh \in Nat
      /\ call[c].kind # "idle" => call[c].handle \in 1..current
      /\ IsContent(file) /\ IsContent(tmp) /\ IsContent(NoTokens) /\ IsContent(Half)
  BY CallIs DEF CallsInv, Registered
<1>1. ASSUME ExchangeStep(c) PROVE Tame(c)
  <2> DEFINE a == call[c].attempt
  <2>1. /\ UNCHANGED <<attempt, current, memory, holder, file, tmp, told, ghosts>>
        /\ call[c].kind = "finish" /\ call[c].phase = "asking" /\ spent[a] = 0
        /\ spent' = [spent EXCEPT ![a] = 1]
    BY <1>1 DEF ExchangeStep, IsFinish, InPhase
  <2>2. PICK n \in {0, 1} : Goes(c, "opening", [auth |-> a, refresh |-> n])
    BY <1>1 DEF ExchangeStep
  <2>3. /\ Others(c) /\ call'[c].kind = "finish" /\ call'[c].phase = "opening"
        /\ call'[c].handle = call[c].handle /\ call'[c].attempt = a
        /\ call'[c].got.auth = a /\ call'[c].got.refresh = n
    BY <2>1, <2>2 DEF Goes
  <2>4. a \in Attempts
    BY <1>0, <2>1 DEF CallOK
  <2>5. CallOK(call'[c])
    BY <2>3, <2>4 DEF CallOK
  <2>6. IsLocked(c)'
    BY <2>3 DEF IsLocked, IsRefreshing, IsToken
  <2>7. spent' \in [Attempts -> Nat] /\ spent'[a] = 1 /\ \A b \in Attempts \ {a} : spent'[b] = spent[b]
    BY <1>0, <2>1, <2>4 DEF TypeOK
  <2>8. Carried(c)
    BY <1>0, <2>1, <2>3, <2>4, <2>7 DEF Carried
  <2> QED
    BY <1>0, <2>1, <2>3, <2>5, <2>6, <2>7, <2>8 DEF Tame, TypeOK, IsWriting
<1>2. ASSUME NEW n \in Nat, RefreshStep(c, n) PROVE Tame(c)
  <2> DEFINE a == call[c].got.auth
  <2>1. /\ UNCHANGED <<attempt, current, memory, holder, file, tmp, told>>
        /\ call[c].kind = "token" /\ call[c].phase = "asking" /\ call[c].got.refresh = spent[a]
        /\ spent' = [spent EXCEPT ![a] = n]
        /\ Goes(c, "opening", [auth |-> a, refresh |-> n])
        /\ ghosts' \in [lost : SUBSET Attempts, refused : SUBSET Attempts, forgotten : SUBSET Attempts]
    BY <1>2 DEF RefreshStep, IsToken, InPhase
  <2>2. n \in {call[c].got.refresh, call[c].got.refresh + 1}
    BY <1>2 DEF RefreshStep
  <2>3. /\ Others(c) /\ call'[c].kind = "token" /\ call'[c].phase = "opening"
        /\ call'[c].handle = call[c].handle
        /\ call'[c].got.auth = a /\ call'[c].got.refresh = n
    BY <2>1 DEF Goes
  <2>4. a \in Attempts /\ call[c].got.refresh # 0 /\ n # 0
    BY <1>0, <2>1, <2>2 DEF CallOK
  <2>5. CallOK(call'[c])
    BY <1>0, <2>3, <2>4 DEF CallOK
  <2>6. IsLocked(c)'
    BY <1>0, <2>1, <2>3 DEF IsLocked, IsRefreshing, IsToken, Handle
  <2>7. spent' \in [Attempts -> Nat] /\ spent'[a] = n /\ \A b \in Attempts \ {a} : spent'[b] = spent[b]
    BY <1>0, <2>1, <2>4 DEF TypeOK
  <2>8. Carried(c)
    BY <1>0, <2>1, <2>3, <2>4, <2>7 DEF Carried
  <2> QED
    BY <1>0, <2>1, <2>3, <2>5, <2>6, <2>7, <2>8 DEF Tame, TypeOK, IsWriting, IsToken
<1> QED
  BY <1>1, <1>2


\* What a call writes is its tokens, or half of something.
LEMMA Written ==
  ASSUME CallsInv, NEW c \in Calls, NEW content, content \in WrittenOver(tmp, call[c].got)
                                              \/ content \in WrittenOver(file, call[c].got)
  PROVE  content \in {call[c].got, Half} /\ content \in Tokens
         /\ content.auth \in {call[c].got.auth, Nobody}
  BY CallIs, Shapes DEF WrittenOver

\* The handle of a call that stores or revokes, and what it sets there.
LEMMA Sets ==
  ASSUME CallsInv, NEW c \in Calls, NEW tokens \in Tokens, call[c].kind # "idle",
         memory' = [memory EXCEPT ![Handle(c)] = tokens]
  PROVE  /\ memory' \in [Handles -> Tokens] /\ Handle(c) \in Handles
         /\ memory'[Handle(c)] = tokens
         /\ \A h \in Handles \ {Handle(c)} : memory'[h] = memory[h]
  BY CallIs, HandlesAre DEF TypeOK

\* Steps on the files are tame, and only who stores takes them.
LEMMA FilesAreTame ==
  ASSUME CallsInv, NEW c \in Calls, OpenStep(c) \/ FillStep(c) \/ RenameStep(c)
  PROVE  Tame(c) /\ call[c].kind \in {"finish", "token"}
<1>0. /\ TypeOK /\ AttemptsOK(attempt)
      /\ CallOK(call[c]) /\ IsLocked(c) /\ call[c].got \in Tokens
      /\ call[c].kind \in Kinds \cup {"idle"}
      /\ call[c].kind # "idle" => call[c].handle \in 1..current
      /\ Half \in Tokens /\ NoTokens \in Tokens /\ Half.auth = Nobody /\ NoTokens.auth = Nobody
      /\ IsContent(file) /\ IsContent(tmp) /\ IsContent(NoTokens) /\ IsContent(Half)
  BY CallIs, Shapes DEF CallsInv, Registered, CallRecords
<1>1. /\ UNCHANGED <<spent, attempt, current, memory, holder, told, ghosts>>
      /\ call[c].phase \in {"opening", "filling", "renaming"}
      /\ \E phase \in {"filling", "renaming", "setting"} : Goes(c, phase, call[c].got)
  BY DEF OpenStep, FillStep, RenameStep, InPhase
<1>2. call[c].kind \in {"finish", "token"}
  BY <1>0, <1>1 DEF CallOK, Kinds
<1>3. /\ Others(c) /\ call'[c].kind = call[c].kind /\ call'[c].handle = call[c].handle
      /\ call'[c].attempt = call[c].attempt /\ call'[c].got = call[c].got
      /\ call'[c].phase \in {"filling", "renaming", "setting"}
  BY <1>1 DEF Goes
<1>4. CallOK(call'[c])
  <2>1. CASE call[c].kind = "finish"
    BY <1>0, <1>1, <1>3, <2>1 DEF CallOK
  <2>2. CASE call[c].kind = "token"
    BY <1>0, <1>1, <1>3, <2>2 DEF CallOK
  <2> QED
    BY <1>2, <2>1, <2>2
<1>5. IsLocked(c)'
  BY <1>0, <1>1, <1>2, <1>3 DEF IsLocked, IsRefreshing, IsToken, Handle
<1>6. /\ IsContent(file') /\ IsContent(tmp')
      /\ file' \in Tokens /\ file'.auth \in {file.auth, tmp.auth, call[c].got.auth, Nobody}
      /\ tmp' \in Tokens /\ tmp'.auth \in {tmp.auth, call[c].got.auth, Nobody}
  <2>1. CASE OpenStep(c)
    BY <1>0, <2>1 DEF OpenStep, TypeOK
  <2>2. CASE FillStep(c)
    <3>1. /\ tmp' = tmp \/ tmp' \in WrittenOver(tmp, call[c].got)
          /\ file' = file \/ file' \in WrittenOver(file, call[c].got)
      BY <2>2 DEF FillStep
    <3>2. IsContent(call[c].got)
      BY CallIs DEF IsContent
    <3> QED
      BY <1>0, <3>1, <3>2, Written DEF TypeOK
  <2>3. CASE RenameStep(c)
    BY <1>0, <2>3 DEF RenameStep, TypeOK, Absent
  <2> QED
    BY <2>1, <2>2, <2>3
<1>7. IsWriting(call'[c].phase) \/ tmp' = Absent
  BY <1>3 DEF IsWriting, OpenStep, FillStep, RenameStep, Goes
<1>8. Carried(c)
  BY <1>0, <1>1, <1>3, <1>6 DEF Carried
<1> QED
  BY <1>0, <1>1, <1>2, <1>3, <1>4, <1>5, <1>6, <1>7, <1>8 DEF Tame, TypeOK, IsToken

\* Setting the handle's tokens is tame.
LEMMA SetsAreTame ==
  ASSUME CallsInv, NEW c \in Calls
  PROVE  /\ SetAuthorizedStep(c) => Tame(c)
         /\ SetRefreshedStep(c) => Tame(c)
<1>0. /\ TypeOK /\ AttemptsOK(attempt)
      /\ CallOK(call[c]) /\ IsLocked(c) /\ call[c].got \in Tokens /\ Sound(call[c].got)
      /\ call[c].kind # "idle" => call[c].handle \in 1..current
      /\ NoTokens \in Tokens /\ NoTokens.auth = Nobody
      /\ Released(c) \in [Handles -> Calls \cup {Nobody}]
      /\ \A h \in Handles : holder[h] \in Calls \ {c} => Released(c)[h] = holder[h]
      /\ IsContent(file) /\ IsContent(tmp) /\ IsContent(NoTokens) /\ IsContent(Half)
  BY CallIs, Shapes DEF CallsInv, Registered
<1>1. ASSUME SetAuthorizedStep(c) PROVE Tame(c)
  <2>1. /\ UNCHANGED <<spent, attempt, current, holder, file, tmp, told, ghosts>>
        /\ call[c].phase = "setting" /\ call[c].kind = "finish" /\ holder[Handle(c)] = Nobody
        /\ memory' = [memory EXCEPT ![Handle(c)] = call[c].got]
    BY <1>1 DEF SetAuthorizedStep, IsFinish, InPhase
  <2>2. /\ Others(c) /\ call'[c].kind = "finish" /\ call'[c].handle = call[c].handle
        /\ call'[c].attempt = call[c].attempt /\ call'[c].got = call[c].got
        /\ call'[c].phase = "announcing"
    BY <1>1, <2>1 DEF SetAuthorizedStep, Goes
  <2>3. /\ memory' \in [Handles -> Tokens] /\ Handle(c) \in Handles
        /\ memory'[Handle(c)] = call[c].got
        /\ \A h \in Handles \ {Handle(c)} : memory'[h] = memory[h]
    BY <1>0, <2>1, Sets
  <2>4. CallOK(call'[c])
    BY <1>0, <2>1, <2>2 DEF CallOK
  <2>5. IsLocked(c)'
    BY <2>2 DEF IsLocked, IsRefreshing, IsToken
  <2>6. Carried(c)
    BY <1>0, <2>1, <2>2, <2>3 DEF Carried
  <2> QED
    BY <1>0, <2>1, <2>2, <2>3, <2>4, <2>5, <2>6 DEF Tame, TypeOK, IsWriting
<1>2. ASSUME SetRefreshedStep(c) PROVE Tame(c)
  <2>1. /\ UNCHANGED <<spent, attempt, current, file, tmp, told, ghosts>>
        /\ call[c].phase = "setting" /\ call[c].kind = "token"
        /\ memory' = [memory EXCEPT ![Handle(c)] = call[c].got]
        /\ holder' = Released(c)
        /\ Others(c) /\ call'[c].kind = "idle" /\ call'[c].phase = "idle" /\ call'[c].got = NoTokens
    BY <1>2 DEF SetRefreshedStep, IsToken, InPhase, Stops
  <2>2. /\ memory' \in [Handles -> Tokens] /\ Handle(c) \in Handles
        /\ memory'[Handle(c)] = call[c].got
        /\ \A h \in Handles \ {Handle(c)} : memory'[h] = memory[h]
    BY <1>0, <2>1, Sets
  <2>3. holder[Handle(c)] = c
    BY <1>0, <2>1 DEF IsLocked, IsRefreshing, IsToken
  <2>4. CallOK(call'[c]) /\ IsLocked(c)'
    BY <2>1, Shapes DEF CallOK, IsLocked, IsRefreshing, IsToken
  <2>5. Carried(c)
    BY <1>0, <2>1, <2>2 DEF Carried
  <2> QED
    BY <1>0, <2>1, <2>2, <2>3, <2>4, <2>5 DEF Tame, TypeOK, IsWriting
<1> QED
  BY <1>1, <1>2

\* Taking the lock, and a revocation under it, are tame.
LEMMA LocksAreTame ==
  ASSUME CallsInv, NEW c \in Calls
  PROVE  /\ LockStep(c) => Tame(c)
         /\ RemoveStep(c) => Tame(c)
         /\ TakeStep(c) => Tame(c)
<1>0. /\ TypeOK /\ AttemptsOK(attempt)
      /\ CallOK(call[c]) /\ IsLocked(c) /\ call[c].got \in Tokens
      /\ call[c].kind \in Kinds \cup {"idle"}
      /\ call[c].kind # "idle" => call[c].handle \in 1..current /\ Handle(c) \in Handles
      /\ NoTokens \in Tokens /\ NoTokens.auth = Nobody
      /\ Released(c) \in [Handles -> Calls \cup {Nobody}]
      /\ \A h \in Handles : holder[h] \in Calls \ {c} => Released(c)[h] = holder[h]
      /\ \A h \in Handles : Sound(memory[h]) /\ memory[h] \in Tokens
      /\ Nobody \notin Calls
      /\ IsContent(file) /\ IsContent(tmp) /\ IsContent(NoTokens) /\ IsContent(Half)
  BY CallIs, Shapes, HandlesAre DEF CallsInv, Registered, CallRecords, TypeOK
<1>1. ASSUME holder' = [holder EXCEPT ![Handle(c)] = c], holder[Handle(c)] = Nobody,
             Handle(c) \in Handles
      PROVE  /\ holder' \in [Handles -> Calls \cup {Nobody}] /\ holder'[Handle(c)] = c
             /\ \A h \in Handles : holder[h] \in Calls \ {c} => holder'[h] = holder[h]
  BY <1>0, <1>1 DEF TypeOK
<1>2. ASSUME LockStep(c) PROVE Tame(c)
  <2> DEFINE t == memory[Handle(c)]
  <2>1. /\ UNCHANGED <<spent, attempt, current, memory, file, tmp, told, ghosts>>
        /\ call[c].phase = "locking" /\ call[c].kind = "token" /\ holder[Handle(c)] = Nobody
        /\ t.refresh # 0
        /\ holder' = [holder EXCEPT ![Handle(c)] = c]
        /\ Goes(c, "asking", t)
    BY <1>2 DEF LockStep, IsToken, InPhase
  <2>2. /\ Others(c) /\ call'[c].kind = "token" /\ call'[c].handle = call[c].handle
        /\ call'[c].got = t /\ call'[c].phase = "asking"
    BY <2>1 DEF Goes
  <2>3. t.auth # Nobody /\ t \in Tokens
    <3>1. Sound(t) /\ t \in Tokens
      BY <1>0, <2>1
    <3> QED
      BY <2>1, <3>1, Shapes DEF Sound
  <2>4. CallOK(call'[c])
    BY <2>1, <2>2, <2>3 DEF CallOK
  <2>5. /\ holder' \in [Handles -> Calls \cup {Nobody}] /\ holder'[Handle(c)] = c
        /\ \A h \in Handles : holder[h] \in Calls \ {c} => holder'[h] = holder[h]
    BY <1>0, <1>1, <2>1
  <2>6. IsLocked(c)'
    BY <2>1, <2>2, <2>5 DEF IsLocked, IsRefreshing, IsToken, Handle
  <2>7. Carried(c)
    BY <1>0, <2>1, <2>2 DEF Carried, IsToken
  <2> QED
    BY <1>0, <2>1, <2>2, <2>4, <2>5, <2>6, <2>7 DEF Tame, TypeOK, IsWriting, IsToken
<1>3. ASSUME RemoveStep(c) PROVE Tame(c)
  <2>1. /\ UNCHANGED <<spent, attempt, current, memory, tmp, told, ghosts>>
        /\ call[c].phase = "locking" /\ call[c].kind = "revoke" /\ holder[Handle(c)] = Nobody
        /\ file' = NoTokens
        /\ holder' = [holder EXCEPT ![Handle(c)] = c]
        /\ Goes(c, "taking", call[c].got)
    BY <1>3 DEF RemoveStep, IsRevoke, InPhase, Absent
  <2>2. /\ Others(c) /\ call'[c].kind = "revoke" /\ call'[c].handle = call[c].handle
        /\ call'[c].got = call[c].got /\ call'[c].phase = "taking"
    BY <2>1 DEF Goes
  <2>3. CallOK(call'[c])
    BY <1>0, <2>1, <2>2 DEF CallOK
  <2>4. /\ holder' \in [Handles -> Calls \cup {Nobody}] /\ holder'[Handle(c)] = c
        /\ \A h \in Handles : holder[h] \in Calls \ {c} => holder'[h] = holder[h]
    BY <1>0, <1>1, <2>1
  <2>5. IsLocked(c)'
    BY <2>1, <2>2, <2>4 DEF IsLocked, IsRefreshing, IsToken, Handle
  <2>6. Carried(c)
    BY <1>0, <2>1, <2>2 DEF Carried
  <2> QED
    BY <1>0, <2>1, <2>2, <2>3, <2>4, <2>5, <2>6 DEF Tame, TypeOK, IsWriting
<1>4. ASSUME TakeStep(c) PROVE Tame(c)
  <2> DEFINE a == memory[Handle(c)].auth
  <2>1. /\ UNCHANGED <<spent, attempt, current, file, tmp, told>>
        /\ call[c].phase = "taking"
        /\ memory' = [memory EXCEPT ![Handle(c)] = NoTokens]
        /\ holder' = Released(c)
        /\ \/ a = Nobody /\ Stops(c)
           \/ a # Nobody /\ Goes(c, "announcing", call[c].got)
        /\ ghosts' = ghosts \/ (a # Nobody /\ ghosts' = [ghosts EXCEPT !.forgotten = @ \cup {a}])
    BY <1>4 DEF TakeStep, InPhase
  <2>2. call[c].kind = "revoke" /\ call[c].got = NoTokens
    BY <1>0, <2>1 DEF CallOK, Kinds
  <2>3. /\ Others(c)
        /\ \/ call'[c].kind = "idle" /\ call'[c].phase = "idle" /\ call'[c].got = NoTokens
           \/ /\ call'[c].kind = "revoke" /\ call'[c].phase = "announcing" /\ call'[c].got = NoTokens
              /\ call'[c].handle = call[c].handle
    BY <2>1, <2>2 DEF Stops, Goes
  <2>4. /\ memory' \in [Handles -> Tokens] /\ Handle(c) \in Handles
        /\ memory'[Handle(c)] = NoTokens
        /\ \A h \in Handles \ {Handle(c)} : memory'[h] = memory[h]
    BY <1>0, <2>1, <2>2, Sets
  <2>5. CallOK(call'[c])
    BY <2>3 DEF CallOK
  <2>6. holder[Handle(c)] = c
    BY <1>0, <2>1 DEF IsLocked
  <2>7. IsLocked(c)'
    BY <2>3 DEF IsLocked, IsRefreshing, IsToken
  <2>8. Carried(c)
    BY <1>0, <2>1, <2>3, <2>4 DEF Carried
  <2>9. ghosts' \in [lost : SUBSET Attempts, refused : SUBSET Attempts, forgotten : SUBSET Attempts]
    <3>1. a \in Attempts \cup {Nobody}
      BY <1>0, <2>4 DEF Tokens
    <3> QED
      BY <1>0, <2>1, <3>1 DEF TypeOK
  <2>10. \A h \in Handles : memory'[h] = memory[h] \/ (Sound(memory'[h]) /\ holder[h] = c)
    BY <2>4, <2>6 DEF Sound
  <2> QED
    BY <1>0, <2>1, <2>2, <2>3, <2>5, <2>7, <2>8, <2>9, <2>10, <2>4 DEF Tame, TypeOK, IsWriting
<1> QED
  BY <1>2, <1>3, <1>4


\* What a load finds in the file.
LEMMA ParsedIs ==
  ASSUME TypeOK
  PROVE  /\ Parsed(file) \in Tokens /\ Parsed(file).auth \in Attempts \cup {Nobody}
         /\ Parsed(file).auth = file.auth
         /\ Parsed(file) = file \/ Parsed(file) = NoTokens
         /\ \A h \in Handles : Loaded(h) =>
              /\ memory' \in [Handles -> Tokens] /\ told' \in Attempts \cup {Nobody}
              /\ memory'[h] = Parsed(file) /\ told' = Parsed(file).auth
              /\ \A k \in Handles \ {h} : memory'[k] = memory[k]
<1>1. /\ Parsed(file) \in Tokens /\ Parsed(file).auth \in Attempts \cup {Nobody}
      /\ Parsed(file).auth = file.auth
      /\ Parsed(file) = file \/ Parsed(file) = NoTokens
  BY Shapes DEF Parsed, TypeOK, Tokens
<1>2. ASSUME NEW h \in Handles, Loaded(h)
      PROVE  /\ memory' \in [Handles -> Tokens] /\ told' \in Attempts \cup {Nobody}
             /\ memory'[h] = Parsed(file) /\ told' = Parsed(file).auth
             /\ \A k \in Handles \ {h} : memory'[k] = memory[k]
  BY <1>1, <1>2 DEF Loaded, TypeOK
<1> QED
  BY <1>1, <1>2

\* What does not parse counts as none.
LEMMA FilesAreWhole ==
  ASSUME CallsInv
  PROVE  Sound(Parsed(file))
  BY Shapes DEF CallsInv, IsContent, Parsed, Sound

\* What a load takes for lost: the tokens that are not in the file yet.
Unfiled == UnsavedOf({c \in Calls : ~InPhase(c, "setting")})

\* A remount registers a handle that loads the file; calls go on at theirs.
LEMMA RemountKeeps ==
  ASSUME CallsInv, Remount
  PROVE  /\ CallsInv' /\ current' = current + 1 /\ current' \in Handles
         /\ memory'[current + 1] = Parsed(file) /\ told' = Parsed(file).auth
         /\ \A h \in Handles \ {current + 1} : memory'[h] = memory[h]
         /\ \A h \in 1..current : memory'[h] = memory[h]
         /\ ghosts'.forgotten = ghosts.forgotten /\ ghosts'.refused = ghosts.refused
         /\ ghosts'.lost = ghosts.lost \cup Unfiled
<1>0. /\ TypeOK /\ current \in Nat /\ HandlesMax \in Nat /\ current \in Handles
      /\ Nobody \notin Calls \cup Attempts
      /\ \A c \in Calls : call[c].kind # "idle" => Handle(c) \in Handles /\ Handle(c) \in 1..current
  BY HandlesAre, GrantsAssumption DEF CallsInv, Registered, Handle
<1>1. /\ current' = current + 1 /\ Loaded(current + 1) /\ current < HandlesMax
      /\ ghosts' = [ghosts EXCEPT !.lost = @ \cup Unfiled]
      /\ crossed' = \E c \in Calls : IsStoring(c)
      /\ UNCHANGED <<spent, attempt, holder, file, tmp, call>>
  BY DEF Remount, diskVars, Unfiled
<1>2. current + 1 \in Handles /\ 1..current \subseteq Handles \ {current + 1}
      /\ 1..current \subseteq 1..current'
  BY <1>0, <1>1 DEF Handles
<1>3. /\ memory' \in [Handles -> Tokens] /\ told' \in Attempts \cup {Nobody}
      /\ memory'[current + 1] = Parsed(file) /\ told' = Parsed(file).auth
      /\ \A h \in Handles \ {current + 1} : memory'[h] = memory[h]
      /\ Parsed(file).auth = file.auth
  BY <1>0, <1>1, <1>2, ParsedIs
<1>4. \A h \in 1..current : memory'[h] = memory[h]
  BY <1>2, <1>3
<1>5. /\ ghosts' \in [lost : SUBSET Attempts, refused : SUBSET Attempts, forgotten : SUBSET Attempts]
      /\ ghosts'.forgotten = ghosts.forgotten /\ ghosts'.refused = ghosts.refused
      /\ ghosts'.lost = ghosts.lost \cup Unfiled
  <2>1. Unfiled \in SUBSET Attempts
    BY UnsavedAre DEF Unfiled
  <2> QED
    BY <1>0, <1>1, <2>1, GhostsGrow
<1>6. TypeOK'
  BY <1>0, <1>1, <1>2, <1>3, <1>5 DEF TypeOK
<1>7. \A c \in Calls : CallOK(call'[c])
  BY <1>1 DEF CallsInv
<1>8. \A h \in Handles : Sound(memory'[h])
  BY <1>3, FilesAreWhole DEF CallsInv
<1>9. Registered'
  BY <1>0, <1>1, <1>2 DEF CallsInv, Registered
<1>10. ASSUME NEW c \in Calls PROVE IsLocked(c)'
  <2>1. IsLocked(c) /\ CallOK(call[c])
    BY DEF CallsInv, Locked
  <2>2. IsRefreshing(c) => memory'[Handle(c)] = memory[Handle(c)]
    BY <1>0, <1>4 DEF IsRefreshing, IsToken
  <2> QED
    BY <1>1, <2>1, <2>2 DEF IsLocked, IsRefreshing, IsToken, Handle
<1>14. IsContent(file') /\ IsContent(tmp')
  BY <1>1 DEF CallsInv
<1>11. TmpInUse'
  BY <1>1 DEF CallsInv, TmpInUse, Absent, NoTokens
<1>12. Exchanged'
  BY <1>1, <1>3 DEF CallsInv, Exchanged
<1>13. Locked'
  BY <1>10 DEF Locked
<1> QED
  BY <1>1, <1>2, <1>3, <1>4, <1>5, <1>6, <1>7, <1>8, <1>9, <1>11, <1>12, <1>13, <1>14 DEF CallsInv

\* A crash leaves the file, which the current handle loads; no call is left.
LEMMA RestartKeeps ==
  ASSUME CallsInv, Restart
  PROVE  /\ CallsInv' /\ current' = current /\ tmp' = Absent
         /\ memory'[current] = Parsed(file) /\ told' = Parsed(file).auth
         /\ \A h \in Handles \ {current} : memory'[h] = memory[h]
         /\ \A c \in Calls : call'[c] = Idle
         /\ ghosts'.forgotten = ghosts.forgotten /\ ghosts'.refused = ghosts.refused
         /\ ghosts'.lost = ghosts.lost \cup Unfiled
<1>0. TypeOK /\ current \in Handles /\ Nobody \notin Calls \cup Attempts
  BY HandlesAre, GrantsAssumption DEF CallsInv
<1>1. /\ Loaded(current) /\ holder' = [h \in Handles |-> Nobody] /\ call' = [c \in Calls |-> Idle]
      /\ ghosts' = [ghosts EXCEPT !.lost = @ \cup Unfiled]
      /\ crossed' = FALSE /\ tmp' = Absent
      /\ UNCHANGED <<spent, current, file>>
  BY DEF Restart, LeftBy, Unfiled
<1>2. /\ memory' \in [Handles -> Tokens] /\ told' \in Attempts \cup {Nobody}
      /\ memory'[current] = Parsed(file) /\ told' = Parsed(file).auth
      /\ \A h \in Handles \ {current} : memory'[h] = memory[h]
      /\ Parsed(file).auth = file.auth
  BY <1>0, <1>1, ParsedIs
<1>3. /\ ghosts' \in [lost : SUBSET Attempts, refused : SUBSET Attempts, forgotten : SUBSET Attempts]
      /\ ghosts'.forgotten = ghosts.forgotten /\ ghosts'.refused = ghosts.refused
      /\ ghosts'.lost = ghosts.lost \cup Unfiled
  <2>1. Unfiled \in SUBSET Attempts
    BY UnsavedAre DEF Unfiled
  <2> QED
    BY <1>0, <1>1, <2>1, GhostsGrow
<1>4. /\ attempt' \in [Attempts -> AttemptRecords]
      /\ \A a \in Attempts : ~attempt'[a].held /\ ~attempt'[a].listening
  <2>1. Unmade \in AttemptRecords /\ ~Unmade.held /\ ~Unmade.listening
    BY DEF Unmade, AttemptRecords
  <2>2. ASSUME NEW a \in Attempts
        PROVE  /\ [attempt[a] EXCEPT !.held = FALSE, !.listening = FALSE] \in AttemptRecords
               /\ ~[attempt[a] EXCEPT !.held = FALSE, !.listening = FALSE].held
               /\ ~[attempt[a] EXCEPT !.held = FALSE, !.listening = FALSE].listening
    <3>1. attempt[a] \in AttemptRecords
      BY <1>0 DEF TypeOK
    <3> QED
      BY <3>1 DEF AttemptRecords
  <2>3. attempt' = [a \in Attempts |-> IF attempt[a] = Unmade THEN Unmade
                      ELSE [attempt[a] EXCEPT !.held = FALSE, !.listening = FALSE]]
    BY DEF Restart
  <2> QED
    BY <2>1, <2>2, <2>3
<1>5. TypeOK'
  BY <1>0, <1>1, <1>2, <1>3, <1>4, Shapes DEF TypeOK, Absent
<1>6. \A c \in Calls : call'[c] = Idle /\ CallOK(call'[c])
  BY <1>1, Shapes
<1>7. \A h \in Handles : Sound(memory'[h])
  BY <1>2, FilesAreWhole DEF CallsInv
<1>8. Registered'
  BY <1>4, <1>6, Shapes DEF Registered
<1>9. Locked'
  BY <1>6, Shapes DEF Locked, IsLocked, IsRefreshing, IsToken
<1>12. IsContent(file') /\ IsContent(tmp')
  BY <1>1, Shapes DEF CallsInv, IsContent, Sound, Absent
<1>10. TmpInUse'
  BY <1>1 DEF TmpInUse, Absent, NoTokens
<1>11. Exchanged'
  BY <1>0, <1>1, <1>2, <1>6, Shapes DEF CallsInv, Exchanged, Absent
<1> QED
  BY <1>1, <1>2, <1>3, <1>5, <1>6, <1>7, <1>8, <1>9, <1>10, <1>11, <1>12 DEF CallsInv


\* Every step of a call is tame.
LEMMA CallStepIsTame ==
  ASSUME CallsInv, NEW c \in Calls, CallStep(c)
  PROVE  Tame(c)
  BY StartsAndEndsAreTame, ProviderIsTame, FilesAreTame, SetsAreTame, LocksAreTame DEF CallStep

\* Shapes and the lock are inductive by themselves.
LEMMA CallsInvStep ==
  ASSUME CallsInv, [Next]_vars
  PROVE  CallsInv'
<1>1. ASSUME NEW c \in Calls, CallStep(c), crossed' \in BOOLEAN PROVE CallsInv'
  BY <1>1, CallStepIsTame, TameKeeps
<1>2. ASSUME UNCHANGED <<spent, current, memory, holder, file, tmp, told, call, ghosts>>,
             AttemptsOK(attempt'), crossed' \in BOOLEAN
      PROVE  CallsInv'
  <2>1. TypeOK' /\ Registered'
    BY <1>2 DEF CallsInv, TypeOK, Registered, AttemptsOK
  <2>2. Locked' /\ TmpInUse' /\ Exchanged'
    BY <1>2 DEF CallsInv, Locked, IsLocked, IsRefreshing, IsToken, Handle, TmpInUse, Exchanged,
                Absent, NoTokens
  <2> QED
    BY <1>2, <2>1, <2>2 DEF CallsInv
<1>3. ASSUME QuietStep, crossed' = (crossed \/ Crossing') PROVE CallsInv'
  BY <1>2, <1>3 DEF QuietStep, CallsInv, TypeOK
<1>4. ASSUME UNCHANGED vars PROVE CallsInv'
  <2>1. AttemptsOK(attempt') /\ crossed' \in BOOLEAN
    BY <1>4, AttemptsStand DEF vars, CallsInv, TypeOK
  <2> QED
    BY <1>2, <1>4, <2>1 DEF vars
<1> QED
  BY <1>1, <1>3, <1>4, NextDoes, RemountKeeps, RestartKeeps

-----------------------------------------------------------------------------
(* Between stores the places agree *)

\* Two calls that store are revocations, and one of them is done.
LEMMA Alone ==
  ASSUME CallsInv, Undisturbed, NEW c \in Calls, NEW d \in Calls, c # d,
         IsStoring(c), IsStoring(d)
  PROVE  /\ IsRevoke(c) /\ IsRevoke(d)
         /\ InPhase(c, "announcing") \/ InPhase(d, "announcing")
<1>1. ~IsFinish(c) /\ ~IsFinish(d)
  BY DEF Undisturbed, Crossing, IsFinish
<1>2. ASSUME NEW e \in Calls, IsStoring(e), ~IsFinish(e)
      PROVE  /\ Handle(e) = current
             /\ \/ /\ IsToken(e) /\ holder[current] = e /\ memory[current].auth # Nobody
                \/ IsRevoke(e) /\ InPhase(e, "taking") /\ holder[current] = e
                \/ IsRevoke(e) /\ InPhase(e, "announcing") /\ memory[current].auth = Nobody
  <2>1. call[e].kind \in {"finish", "token", "revoke", "idle"} /\ CallOK(call[e]) /\ IsLocked(e)
    BY CallIs DEF CallRecords, Kinds
  <2>2. call[e].phase \in StoringPhases
    BY <1>2 DEF IsStoring
  <2>3. IsToken(e) \/ IsRevoke(e)
    BY <1>2, <2>1, <2>2 DEF IsToken, IsRevoke, IsFinish, CallOK, StoringPhases
  <2>4. Handle(e) = current
    BY <1>2 DEF Undisturbed, Crossing
  <2>5. CASE IsToken(e)
    BY <2>1, <2>2, <2>4, <2>5 DEF IsLocked, IsRefreshing, IsToken, CallOK, StoringPhases
  <2>6. CASE IsRevoke(e)
    <3>1. call[e].phase \in {"taking", "announcing"} /\ call[e].got = NoTokens
      BY <2>1, <2>2, <2>6 DEF IsRevoke, CallOK, StoringPhases
    <3>2. call[e].phase = "taking" => holder[current] = e
      BY <2>1, <2>4 DEF IsLocked
    <3>3. call[e].phase = "announcing" => memory[current] = NoTokens
      BY <3>1 DEF Undisturbed, IsStoredFor, InPhase
    <3> QED
      BY <2>4, <2>6, <3>1, <3>2, <3>3, Shapes DEF InPhase
  <2> QED
    BY <2>3, <2>5, <2>6
<1>3. IsToken(c) => ~IsRevoke(c)
  BY DEF IsToken, IsRevoke
<1> QED
  BY <1>1, <1>2, <1>3

\* A call that stops takes no part in a crossing.
LEMMA StopsUncross ==
  ASSUME NEW c \in Calls, Stops(c), current' = current, ~Crossing
  PROVE  ~Crossing'
<1>1. ~IsStoring(c)' /\ ~IsFinish(c)'
  BY DEF Stops, IsStoring, StoringPhases, IsFinish
<1>2. \A d \in Calls \ {c} : /\ IsStoring(d)' = IsStoring(d) /\ IsFinish(d)' = IsFinish(d)
                             /\ Handle(d)' = Handle(d)
  BY DEF Stops, Others, Alike, IsStoring, IsFinish, Handle
<1> QED
  BY <1>1, <1>2 DEF Crossing, IsFinish

\* The others where they were, and what they need is as it was.
LEMMA OthersStored ==
  ASSUME \A d \in Calls : IsStoredFor(d), NEW c \in Calls, Others(c), current' = current,
         NEW d \in Calls \ {c},
         InPhase(d, "filling") => call'[d].fd = call[d].fd /\ tmp' = tmp,
         InPhase(d, "renaming") => tmp' = tmp,
         InPhase(d, "setting") \/ InPhase(d, "taking") => file' = file,
         InPhase(d, "announcing") => memory'[current] = memory[current]
  PROVE  IsStoredFor(d)'
<1>1. /\ call'[d].phase = call[d].phase /\ call'[d].got = call[d].got
      /\ IsStoredFor(d)
  BY DEF Others, Alike
<1> QED
  BY <1>1 DEF IsStoredFor, InPhase, Half, Absent, NoTokens

\* Steps that store nothing leave the places in agreement.
LEMMA QuietersLeaveStores ==
  ASSUME CallsInv, Undisturbed, NEW c \in Calls, ~crossed', ~Crossing' \/ Stops(c),
         \/ StartStep(c, "finish", "asking") \/ StartStep(c, "token", "locking")
         \/ StartStep(c, "revoke", "locking") \/ EndStep(c)
         \/ ExchangeStep(c) \/ (\E n \in Nat : RefreshStep(c, n)) \/ LockStep(c)
  PROVE  Undisturbed'
<1>0. /\ ~Crossing /\ FileAgrees /\ ToldAgrees /\ \A d \in Calls : IsStoredFor(d)
  BY DEF Undisturbed
<1>1. ASSUME Others(c), FdsStay(c), UNCHANGED <<current, memory, file>>,
             call'[c].phase \in {"idle", "asking", "locking", "opening"},
             call[c].phase \notin {"setting", "taking"},
             \/ told' = told /\ call[c].phase # "announcing"
             \/ told' = call[c].got.auth /\ InPhase(c, "announcing"),
             tmp' = tmp \/ LeftBy({c}),
             ~Crossing'
      PROVE  Undisturbed'
  <2>2. \A d \in Calls \ {c} : call'[d].phase = call[d].phase
    BY <1>1 DEF Others, Alike
  <2>3. FileAgrees'
    BY <1>0, <1>1, <2>2 DEF FileAgrees, Parsed, Half, NoTokens
  <2>4. ToldAgrees'
    BY <1>0, <1>1, <2>2 DEF ToldAgrees, IsStoredFor, InPhase
  <2>5. ASSUME NEW d \in Calls PROVE IsStoredFor(d)'
    <3>1. CASE d = c
      BY <1>1, <3>1 DEF IsStoredFor, InPhase
    <3>2. CASE d # c
      <4>1. InPhase(d, "filling") \/ InPhase(d, "renaming") => tmp' = tmp
        BY <1>1, <3>2 DEF LeftBy, InPhase
      <4> QED
        BY <1>0, <1>1, <3>2, <4>1, OthersStored DEF FdsStay
    <3> QED
      BY <3>1, <3>2
  <2> QED
    BY <1>1, <2>3, <2>4, <2>5 DEF Undisturbed
<1>2. ASSUME NEW kind, NEW phase, StartStep(c, kind, phase), ~Crossing',
             \/ kind = "finish" /\ phase = "asking"
             \/ kind \in {"token", "revoke"} /\ phase = "locking"
      PROVE  Undisturbed'
  <2>1. /\ Others(c) /\ FdsStay(c) /\ UNCHANGED <<current, memory, file, tmp, told>>
        /\ call'[c].phase \in {"asking", "locking"} /\ call[c].kind = "idle"
    BY <1>2 DEF StartStep, Starts
  <2>2. call[c].phase = "idle"
    BY <2>1, CallIs DEF CallOK
  <2> QED
    BY <1>1, <1>2, <2>1, <2>2
<1>3. ASSUME EndStep(c) PROVE Undisturbed'
  <2>1. /\ Stops(c) /\ Others(c) /\ FdsStay(c) /\ UNCHANGED <<current, memory, file>>
        /\ call'[c].phase = "idle" /\ call'[c].kind = "idle"
        /\ tmp' = tmp \/ LeftBy({c})
    BY <1>3 DEF EndStep, Stops
  <2>2. /\ call[c].phase \notin {"setting", "taking"}
        /\ \/ told' = told /\ call[c].phase # "announcing"
           \/ told' = call[c].got.auth /\ InPhase(c, "announcing")
    BY <1>3 DEF EndStep, InPhase
  <2>3. ~Crossing'
    BY <1>0, <2>1, StopsUncross
  <2> QED
    BY <1>1, <2>1, <2>2, <2>3
<1>4. ASSUME ExchangeStep(c) \/ (\E n \in Nat : RefreshStep(c, n)) \/ LockStep(c)
      PROVE  Undisturbed'
  <2>1. /\ UNCHANGED <<current, memory, file, tmp, told>>
        /\ call[c].phase \in {"asking", "locking"} /\ FdsStay(c)
        /\ \E phase \in {"opening", "asking"} : \E tokens : Goes(c, phase, tokens)
    BY <1>4 DEF ExchangeStep, RefreshStep, LockStep, InPhase
  <2>2. /\ Others(c) /\ call'[c].kind = call[c].kind /\ call'[c].handle = call[c].handle
        /\ call'[c].phase \in {"opening", "asking"}
    BY <2>1 DEF Goes
  <2>3. ~Stops(c)
    BY <2>2 DEF Stops
  <2> QED
    BY <1>1, <2>1, <2>2, <2>3
<1>5. (\E h \in 1..current : Starts(c, "finish", "asking", h) \/ Starts(c, "token", "locking", h)
         \/ Starts(c, "revoke", "locking", h)) => ~Stops(c)
  BY DEF Starts, Stops
<1> QED
  BY <1>2, <1>3, <1>4, <1>5 DEF StartStep

\* The file is written by one call alone.
LEMMA WritersLeaveStores ==
  ASSUME CallsInv, Undisturbed, NEW c \in Calls, ~Crossing',
         OpenStep(c) \/ FillStep(c) \/ RenameStep(c)
  PROVE  Undisturbed'
<1>0. /\ FileAgrees /\ ToldAgrees /\ \A d \in Calls : IsStoredFor(d)
  BY DEF Undisturbed
<1>1. /\ UNCHANGED <<current, memory, told>>
      /\ call[c].phase \in {"opening", "filling", "renaming"}
      /\ \E phase \in {"filling", "renaming", "setting"} : Goes(c, phase, call[c].got)
      /\ call[c].kind \in {"finish", "token"}
  BY FilesAreTame DEF OpenStep, FillStep, RenameStep, InPhase
<1>2. /\ Others(c) /\ call'[c].kind = call[c].kind /\ call'[c].handle = call[c].handle
      /\ call'[c].got = call[c].got /\ call'[c].phase \in {"filling", "renaming", "setting"}
  BY <1>1 DEF Goes
<1>4. \A d \in Calls \ {c} : call'[d].phase = call[d].phase /\ ~IsStoring(d)
  <2>1. IsStoring(c) /\ ~IsRevoke(c)
    BY <1>1 DEF IsStoring, StoringPhases, IsRevoke
  <2> QED
    BY <1>2, <2>1, Alone DEF Others, Alike
<1>5. ToldAgrees'
  BY <1>0, <1>1, <1>4 DEF ToldAgrees
<1>6. ASSUME NEW d \in Calls \ {c} PROVE IsStoredFor(d)'
  BY <1>4 DEF IsStoredFor, InPhase, IsStoring, StoringPhases
<1>7. FileAgrees' /\ IsStoredFor(c)'
  <2>1. CASE OpenStep(c)
    <3>1. /\ file' = file /\ tmp' = Half /\ call'[c].phase = "filling" /\ call'[c].fd = "tmp"
      BY <2>1 DEF OpenStep, Goes
    <3>2. call[c].phase = "opening"
      BY <2>1 DEF OpenStep, InPhase
    <3>3. FileAgrees'
      BY <1>0, <1>1, <1>4, <3>1, <3>2 DEF FileAgrees, Parsed, Half, NoTokens
    <3> QED
      BY <3>1, <3>3 DEF IsStoredFor, InPhase, Half
  <2>2. CASE FillStep(c)
    <3>1. call[c].phase = "filling" /\ call[c].fd = "tmp" /\ tmp = Half
      BY <1>0, <2>2 DEF FillStep, IsStoredFor, InPhase
    <3>2. /\ file' = file /\ call'[c].phase = "renaming"
          /\ tmp' \in WrittenOver(tmp, call[c].got)
      BY <2>2, <3>1 DEF FillStep, Goes
    <3>3. tmp' = call'[c].got
      BY <1>2, <3>1, <3>2 DEF WrittenOver
    <3>4. FileAgrees'
      BY <1>0, <1>1, <1>4, <3>1, <3>2 DEF FileAgrees, Parsed, Half, NoTokens
    <3> QED
      BY <3>2, <3>3, <3>4 DEF IsStoredFor, InPhase
  <2>3. CASE RenameStep(c)
    <3>1. /\ call'[c].phase = "setting" /\ file' = tmp /\ tmp = call[c].got
      BY <1>0, <2>3 DEF RenameStep, Goes, IsStoredFor, InPhase
    <3> QED
      BY <1>2, <3>1 DEF FileAgrees, IsStoredFor, InPhase
  <2> QED
    BY <2>1, <2>2, <2>3
<1> QED
  BY <1>5, <1>6, <1>7 DEF Undisturbed

\* The handle is given what was written.
LEMMA SettersLeaveStores ==
  ASSUME CallsInv, Undisturbed, NEW c \in Calls, ~Crossing',
         SetAuthorizedStep(c) \/ SetRefreshedStep(c)
  PROVE  Undisturbed'
<1>0. /\ FileAgrees /\ ToldAgrees /\ \A d \in Calls : IsStoredFor(d)
      /\ ~Crossing /\ CallOK(call[c]) /\ call[c].got \in Tokens /\ IsLocked(c)
      /\ Nobody \notin Attempts
  BY CallIs DEF Undisturbed
<1>1. /\ UNCHANGED <<current, file, tmp, told>>
      /\ call[c].phase = "setting" /\ call[c].kind \in {"finish", "token"}
      /\ memory' = [memory EXCEPT ![Handle(c)] = call[c].got]
      /\ FdsStay(c) /\ Others(c)
      /\ call'[c].phase \in {"announcing", "idle"} /\ call'[c].kind \in {"finish", "idle"}
      /\ call[c].kind = "finish" => call'[c].phase = "announcing" /\ call'[c].got = call[c].got
      /\ call[c].kind = "token" => call'[c].phase = "idle"
  BY DEF SetAuthorizedStep, SetRefreshedStep, InPhase, IsFinish, IsToken, Goes, Stops
<1>3. \A d \in Calls \ {c} : call'[d].phase = call[d].phase /\ ~IsStoring(d)
  <2>1. IsStoring(c) /\ ~IsRevoke(c)
    BY <1>1 DEF IsStoring, StoringPhases, IsRevoke
  <2> QED
    BY <1>1, <2>1, Alone DEF Others, Alike
<1>4. Handle(c) = current
  BY <1>0, <1>1 DEF Crossing, IsStoring, StoringPhases
<1>5. memory'[current] = call[c].got /\ file = call[c].got
  BY <1>0, <1>1, <1>4, HandlesAre DEF IsStoredFor, InPhase, CallsInv, TypeOK
<1>6. FileAgrees'
  <2>1. call[c].got.auth # Nobody
    BY <1>0, <1>1 DEF CallOK
  <2>2. Parsed(file) = file
    BY <1>5, <2>1, Shapes DEF Parsed
  <2> QED
    BY <1>1, <1>5, <2>2 DEF FileAgrees, Parsed, Half, NoTokens
<1>7. ToldAgrees'
  <2>1. CASE call[c].kind = "finish"
    BY <1>1, <2>1 DEF ToldAgrees
  <2>2. CASE call[c].kind = "token"
    <3>1. told = memory[current].auth
      BY <1>0, <1>1, <1>3 DEF ToldAgrees, IsStoring, StoringPhases
    <3>2. memory[current].auth = call[c].got.auth
      BY <1>0, <1>1, <1>4, <2>2 DEF IsLocked, IsRefreshing, IsToken
    <3> QED
      BY <1>1, <1>5, <3>1, <3>2 DEF ToldAgrees
  <2> QED
    BY <1>1, <2>1, <2>2
<1>8. ASSUME NEW d \in Calls PROVE IsStoredFor(d)'
  <2>1. CASE d = c
    BY <1>1, <1>5, <2>1 DEF IsStoredFor, InPhase
  <2>2. CASE d # c
    BY <1>3, <2>2 DEF IsStoredFor, InPhase, IsStoring, StoringPhases
  <2> QED
    BY <2>1, <2>2
<1> QED
  BY <1>6, <1>7, <1>8 DEF Undisturbed

\* A revocation takes from the file and then from the handle.
LEMMA RevokersLeaveStores ==
  ASSUME CallsInv, Undisturbed, NEW c \in Calls, ~Crossing',
         RemoveStep(c) \/ TakeStep(c)
  PROVE  Undisturbed'
<1>0. /\ FileAgrees /\ ToldAgrees /\ \A d \in Calls : IsStoredFor(d)
      /\ ~Crossing /\ CallOK(call[c]) /\ call[c].kind \in Kinds \cup {"idle"}
  BY CallIs DEF Undisturbed, CallRecords
<1>1. ASSUME RemoveStep(c) PROVE Undisturbed'
  <2>1. /\ UNCHANGED <<current, memory, tmp, told>>
        /\ call[c].phase = "locking" /\ call[c].kind = "revoke" /\ holder[Handle(c)] = Nobody
        /\ file' = Absent /\ Goes(c, "taking", call[c].got)
        /\ \A d \in Calls \ {c} : call[d].fd = "tmp" => call'[d].fd = "tmp"
    BY <1>1 DEF RemoveStep, InPhase, IsRevoke
  <2>2. /\ Others(c) /\ call'[c].kind = "revoke" /\ call'[c].handle = call[c].handle
        /\ call'[c].phase = "taking"
    BY <2>1 DEF Goes
  <2>4. holder[current] = Nobody
    BY <2>1, <2>2 DEF Crossing, IsStoring, StoringPhases, Handle
  <2>5. ASSUME NEW d \in Calls \ {c}
        PROVE  /\ ~InPhase(d, "setting") /\ ~InPhase(d, "taking")
               /\ call'[d].phase = call[d].phase /\ call'[d].got = call[d].got
    <3>1. /\ call'[d].phase = call[d].phase /\ call'[d].got = call[d].got
          /\ call'[d].kind = call[d].kind
      BY <2>2 DEF Others, Alike
    <3>2. /\ CallOK(call[d]) /\ IsLocked(d) /\ call[d].kind \in Kinds \cup {"idle"}
          /\ Nobody \notin Calls
      BY CallIs DEF CallRecords
    <3>3. ASSUME InPhase(d, "setting") \/ InPhase(d, "taking") PROVE FALSE
      <4>1. call[d].kind \in {"finish", "token", "revoke"}
        BY <3>2, <3>3 DEF CallOK, Kinds, InPhase
      <4>2. call[d].kind # "finish"
        BY <2>2, <3>1, <3>3 DEF Crossing, IsStoring, StoringPhases, InPhase
      <4>3. Handle(d) = current
        BY <1>0, <3>3 DEF Crossing, IsStoring, StoringPhases, InPhase
      <4>4. holder[current] = d
        BY <3>2, <3>3, <4>1, <4>2, <4>3 DEF IsLocked, IsRefreshing, IsToken, InPhase, CallOK
      <4> QED
        BY <2>4, <3>2, <4>4
    <3> QED
      BY <3>1, <3>3
  <2>6. FileAgrees' /\ ToldAgrees'
    <3>1. FileAgrees'
      BY <2>2 DEF FileAgrees
    <3>2. ToldAgrees'
      BY <1>0, <2>1, <2>5 DEF ToldAgrees
    <3> QED
      BY <3>1, <3>2
  <2>7. ASSUME NEW d \in Calls PROVE IsStoredFor(d)'
    <3>1. CASE d = c
      BY <2>1, <2>2, <3>1 DEF IsStoredFor, InPhase, Absent, NoTokens
    <3>2. CASE d # c
      <4>1. IsStoredFor(d)
        BY <1>0
      <4> QED
        BY <2>1, <2>5, <3>2, <4>1 DEF IsStoredFor, InPhase, Half
    <3> QED
      BY <3>1, <3>2
  <2> QED
    BY <2>6, <2>7 DEF Undisturbed
<1>2. ASSUME TakeStep(c) PROVE Undisturbed'
  <2> DEFINE a == memory[Handle(c)].auth
  <2>1. /\ UNCHANGED <<current, file, tmp, told>>
        /\ call[c].phase = "taking" /\ FdsStay(c)
        /\ memory' = [memory EXCEPT ![Handle(c)] = NoTokens]
        /\ \/ a = Nobody /\ Stops(c)
           \/ a # Nobody /\ Goes(c, "announcing", call[c].got)
    BY <1>2 DEF TakeStep, InPhase
  <2>2. call[c].kind = "revoke" /\ call[c].got = NoTokens /\ Handle(c) = current
    BY <1>0, <2>1 DEF CallOK, Kinds, Crossing, IsStoring, StoringPhases
  <2>3. /\ Others(c)
        /\ \/ a = Nobody /\ call'[c].kind = "idle" /\ call'[c].phase = "idle"
           \/ /\ a # Nobody /\ call'[c].kind = "revoke" /\ call'[c].phase = "announcing"
              /\ call'[c].got = NoTokens /\ call'[c].handle = call[c].handle
    BY <2>1, <2>2 DEF Stops, Goes
  <2>4. memory'[current] = NoTokens /\ file = Absent /\ Parsed(file) = NoTokens
    BY <1>0, <2>1, <2>2, HandlesAre, Shapes
       DEF IsStoredFor, InPhase, CallsInv, TypeOK, Parsed, Absent
  <2>6. FileAgrees'
    BY <2>1, <2>4 DEF FileAgrees, Parsed, Half, NoTokens
  <2>7. \A d \in Calls \ {c} : /\ call'[d].phase = call[d].phase /\ call'[d].got = call[d].got
                               /\ IsStoring(d) => InPhase(d, "announcing") /\ IsRevoke(d)
    <3>1. IsStoring(c) /\ ~InPhase(c, "announcing")
      BY <2>1 DEF IsStoring, StoringPhases, InPhase
    <3> QED
      BY <2>3, <3>1, Alone DEF Others, Alike
  <2>8. ToldAgrees'
    <3>1. CASE a = Nobody
      <4>1. memory[current].auth = Nobody
        BY <2>2, <3>1
      <4> QED
        BY <1>0, <2>1, <2>4, <2>7, <4>1, Shapes DEF ToldAgrees
    <3>2. CASE a # Nobody
      BY <2>3, <3>2 DEF ToldAgrees
    <3> QED
      BY <3>1, <3>2
  <2>9. ASSUME NEW d \in Calls PROVE IsStoredFor(d)'
    <3>1. CASE d = c
      BY <2>1, <2>3, <2>4, <3>1 DEF IsStoredFor, InPhase
    <3>2. CASE d # c
      <4>1. CallOK(call[d])
        BY CallIs
      <4>2. InPhase(d, "announcing") => call[d].got = NoTokens
        BY <2>7, <3>2, <4>1 DEF CallOK, IsRevoke, InPhase, IsStoring, StoringPhases
      <4> QED
        BY <2>1, <2>4, <2>7, <3>2, <4>2 DEF IsStoredFor, InPhase, IsStoring, StoringPhases
    <3> QED
      BY <3>1, <3>2
  <2> QED
    BY <2>6, <2>8, <2>9 DEF Undisturbed
<1> QED
  BY <1>1, <1>2


\* After a load that nobody who stores has overtaken everything is as in the
\* file.
LEMMA LoadedAgree ==
  ASSUME \A c \in Calls : call'[c].phase \notin StoringPhases,
         memory'[current'] = Parsed(file), told' = Parsed(file).auth, file' = file
  PROVE  Undisturbed'
<1>1. ~Crossing' /\ \A c \in Calls : IsStoredFor(c)'
  BY DEF Crossing, IsStoring, StoringPhases, IsStoredFor, InPhase
<1>2. FileAgrees' /\ ToldAgrees'
  BY DEF FileAgrees, ToldAgrees, Parsed, Half, NoTokens
<1> QED
  BY <1>1, <1>2 DEF Undisturbed

\* While nothing crosses, every step leaves the places in agreement.
LEMMA StoreInvStep ==
  ASSUME CallsInv, StoreInv, [Next]_vars
  PROVE  StoreInv'
<1>1. ASSUME UNCHANGED <<current, memory, file, tmp, told, call>>, Undisturbed
      PROVE  Undisturbed'
  BY <1>1 DEF Undisturbed, Handle, Crossing, IsStoring, FileAgrees,
              Parsed, Half, NoTokens, ToldAgrees, IsStoredFor, InPhase, Absent
<1>2. CASE UNCHANGED vars
  BY <1>1, <1>2 DEF vars, StoreInv
<1>3. CASE QuietStep /\ crossed' = (crossed \/ Crossing')
  BY <1>1, <1>3 DEF QuietStep, StoreInv
<1>4. ASSUME NEW c \in Calls, CallStep(c), Counted(c), ~crossed' PROVE Undisturbed'
  <2>1. /\ Undisturbed /\ ~crossed
        /\ \/ ~Crossing'
           \/ Stops(c) /\ ~InPhase(c, "setting") /\ ~InPhase(c, "taking")
    BY <1>4 DEF Counted, StoreInv
  <2>2. CASE OpenStep(c) \/ FillStep(c) \/ RenameStep(c)
    <3>1. ~Stops(c)
      BY <2>2 DEF OpenStep, FillStep, RenameStep, Goes, Stops
    <3> QED
      BY <2>1, <2>2, <3>1, WritersLeaveStores
  <2>3. CASE SetAuthorizedStep(c) \/ SetRefreshedStep(c)
    <3>1. InPhase(c, "setting")
      BY <2>3 DEF SetAuthorizedStep, SetRefreshedStep
    <3> QED
      BY <2>1, <2>3, <3>1, SettersLeaveStores
  <2>4. CASE RemoveStep(c) \/ TakeStep(c)
    <3>1. InPhase(c, "taking") \/ ~Stops(c)
      BY <2>4 DEF RemoveStep, TakeStep, Goes, Stops
    <3> QED
      BY <2>1, <2>4, <3>1, RevokersLeaveStores
  <2> QED
    BY <1>4, <2>1, <2>2, <2>3, <2>4, QuietersLeaveStores DEF CallStep
<1>5. CASE Remount
  <2>1. ~crossed' => \A c \in Calls : call'[c].phase \notin StoringPhases
    BY <1>5 DEF Remount, IsStoring
  <2>2. /\ memory'[current'] = Parsed(file) /\ told' = Parsed(file).auth /\ file' = file
    BY <1>5, RemountKeeps DEF Remount, diskVars
  <2> QED
    BY <2>1, <2>2, LoadedAgree DEF StoreInv
<1>6. CASE Restart
  <2>1. /\ memory'[current'] = Parsed(file) /\ told' = Parsed(file).auth /\ file' = file
        /\ \A c \in Calls : call'[c].phase \notin StoringPhases
    BY <1>6, RestartKeeps, Shapes DEF Restart, StoringPhases
  <2> QED
    BY <2>1, LoadedAgree DEF StoreInv
<1> QED
  BY <1>2, <1>3, <1>4, <1>5, <1>6, NextDoes DEF StoreInv

\* Between stores, file, memory and listeners then agree.
LEMMA UndisturbedAgree ==
  ASSUME StoreInv
  PROVE  StoresAgree
  BY DEF StoreInv, Undisturbed, FileAgrees, ToldAgrees, StoresAgree, IsStoring, StoringPhases

-----------------------------------------------------------------------------
(* What is revoked stays revoked *)

LEMMA ForgottenIsNowhere ==
  ASSUME CallsInv, ForgottenInv, NEW c \in Calls, Tame(c), ghosts'.forgotten = ghosts.forgotten
  PROVE  ForgottenInv'
<1>1. ASSUME NEW a \in ghosts.forgotten
      PROVE  /\ spent'[a] # 0
             /\ file'.auth # a /\ tmp'.auth # a /\ memory'[current'].auth # a
             /\ \A d \in Calls : call'[d].got.auth # a
             /\ \A d \in Calls : call'[d].kind = "token" => memory'[call'[d].handle].auth # a
  <2>1. a \in Attempts /\ a # Nobody
    BY <1>1, GrantsAssumption DEF CallsInv, TypeOK
  <2>2. /\ spent[a] # 0
        /\ file.auth # a /\ tmp.auth # a /\ memory[current].auth # a
        /\ \A d \in Calls : call[d].got.auth # a
        /\ \A d \in Calls : IsToken(d) => memory[Handle(d)].auth # a
    BY <1>1 DEF ForgottenInv
  <2>3. /\ spent'[a] # 0 /\ file'.auth # a /\ tmp'.auth # a
        /\ \A h \in Handles : memory[h].auth # a => memory'[h].auth # a
        /\ call'[c].got.auth # a
    BY <2>1, <2>2 DEF Tame, Carried
  <2>4. memory'[current'].auth # a
    BY <2>2, <2>3, HandlesAre DEF Tame
  <2>5. ASSUME NEW d \in Calls
        PROVE  /\ call'[d].got.auth # a
               /\ call'[d].kind = "token" => memory'[call'[d].handle].auth # a
    <3>1. CASE d = c
      BY <2>2, <2>3, <3>1, HandlesAre DEF Tame, IsToken, Handle
    <3>2. CASE d # c
      BY <2>2, <2>3, <3>2, HandlesAre DEF Tame, Others, Alike, IsToken, Handle
    <3> QED
      BY <3>1, <3>2
  <2> QED
    BY <2>3, <2>4, <2>5
<1> QED
  BY <1>1 DEF ForgottenInv, IsToken, Handle

\* A call keeps its kind, or has no tokens.
LEMMA KindsStay ==
  ASSUME NEW c \in Calls, CallStep(c)
  PROVE  /\ call'[c].kind = call[c].kind \/ call'[c].got = NoTokens
         /\ call'[c].phase = "taking" => RemoveStep(c)
BY DEF CallStep, StartStep, EndStep, ExchangeStep, RefreshStep, OpenStep, FillStep, RenameStep,
       SetAuthorizedStep, SetRefreshedStep, LockStep, RemoveStep, TakeStep, Goes, Starts, Stops

\* Who is not elsewhere does not get there by the step of a call: the tokens
\* that are to be taken are behind the lock.
LEMMA LastIsKept ==
  ASSUME CallsInv, NEW c \in Calls, CallStep(c), NEW d \in Calls \ {c},
         InPhase(d, "taking"), IsLast(d)
  PROVE  IsLast(d)'
<1> DEFINE h == Handle(d)
           a == memory[h].auth
<1>1. /\ Tame(c) /\ Others(c) /\ current' = current
      /\ call'[d].handle = call[d].handle
  BY CallStepIsTame DEF Tame, Others, Alike
<1>2. /\ TypeOK /\ CallOK(call[c]) /\ IsLocked(c) /\ CallOK(call[d]) /\ IsLocked(d)
      /\ call[c].kind \in Kinds \cup {"idle"} /\ call[d].kind \in Kinds \cup {"idle"}
      /\ Nobody \notin Calls \cup Attempts
  BY CallIs DEF CallRecords
<1>3. call[d].kind = "revoke" /\ holder[h] = d /\ h \in Handles /\ h <= current
  <2>1. call[d].kind = "revoke" /\ holder[h] = d
    BY <1>2 DEF CallOK, Kinds, InPhase, IsLocked
  <2> QED
    BY <2>1, HandlesAre
<1>4. memory'[h] = memory[h] /\ holder'[h] = d
  BY <1>1, <1>2, <1>3 DEF Tame
<1> SUFFICES ASSUME a # Nobody PROVE IsLast(d)'
  BY <1>1, <1>4 DEF IsLast, Handle
<1>5. file.auth # a /\ ~IsElsewhere(a, d)
  BY DEF IsLast
<1>6. spent[a] # 0 /\ a \in Attempts
  <2>1. a \in Attempts
    BY <1>2, <1>3 DEF TypeOK, Tokens
  <2> QED
    BY <1>3, <2>1 DEF CallsInv, Exchanged
<1>7. call[c].got.auth # a /\ (IsToken(c) => Handle(c) \in Handles)
  <2>1. CASE IsToken(c)
    <3>1. Handle(c) \in Handles
      BY <2>1, HandlesAre DEF IsToken
    <3>2. CASE IsRefreshing(c)
      <4>1. Handle(c) # h
        BY <1>2, <1>3, <3>2 DEF IsLocked
      <4>2. memory[Handle(c)].auth # a
        BY <1>5, <2>1, <4>1 DEF IsElsewhere, IsToken
      <4> QED
        BY <1>2, <3>1, <3>2, <4>2 DEF IsLocked
    <3>3. CASE ~IsRefreshing(c)
      BY <1>2, <2>1, <3>1, <3>3, Shapes DEF IsRefreshing, IsToken, CallOK
    <3> QED
      BY <3>2, <3>3
  <2>2. CASE IsFinish(c)
    BY <1>5, <2>2 DEF IsElsewhere, IsFinish, IsToken
  <2>3. CASE ~IsToken(c) /\ ~IsFinish(c)
    BY <1>2, <2>3, Shapes DEF IsToken, IsFinish, CallOK, Kinds
  <2> QED
    BY <2>1, <2>2, <2>3
<1>8. /\ file'.auth # a /\ tmp'.auth # a
      /\ \A g \in Handles : memory[g].auth # a => memory'[g].auth # a
  BY <1>1, <1>5, <1>6, <1>7, <1>2 DEF Tame, Carried, IsElsewhere
<1>9. h # current => memory'[current].auth # a
  BY <1>5, <1>8, HandlesAre DEF IsElsewhere
<1>10. ASSUME NEW e \in Calls
       PROVE  /\ call'[e].kind = "finish" => call'[e].got.auth # a
              /\ call'[e].kind = "token" /\ call'[e].handle # h => memory'[call'[e].handle].auth # a
  <2>1. CASE e = c
    <3>1. ASSUME call'[c].kind = "finish" PROVE call'[c].got.auth # a
      <4>1. CASE call'[c].got = NoTokens
        BY <4>1, Shapes
      <4>2. CASE call[c].kind = "finish"
        BY <1>1, <1>2, <1>6, <1>7, <4>2 DEF Tame, Carried, IsToken
      <4> QED
        BY <3>1, <4>1, <4>2, KindsStay
    <3>2. ASSUME call'[c].kind = "token", call'[c].handle # h
          PROVE  memory'[call'[c].handle].auth # a
      <4>1. CASE call'[c].handle = current
        BY <1>9, <3>2, <4>1
      <4>2. CASE IsToken(c) /\ call'[c].handle = call[c].handle
        <5>1. memory[Handle(c)].auth # a
          BY <1>5, <3>2, <4>2 DEF IsElsewhere, IsToken, Handle
        <5> QED
          BY <1>7, <1>8, <4>2, <5>1 DEF Handle
      <4> QED
        BY <1>1, <3>2, <4>1, <4>2 DEF Tame
    <3> QED
      BY <2>1, <3>1, <3>2
  <2>2. CASE e # c
    <3>1. /\ call'[e].kind = call[e].kind /\ call'[e].got = call[e].got
          /\ call'[e].handle = call[e].handle
      BY <1>1, <2>2 DEF Others, Alike
    <3>2. /\ call[e].kind = "finish" => call[e].got.auth # a
          /\ call[e].kind = "token" /\ Handle(e) # h => memory[Handle(e)].auth # a
      BY <1>5 DEF IsElsewhere
    <3>3. call[e].kind = "token" => Handle(e) \in Handles
      BY HandlesAre
    <3> QED
      BY <1>8, <3>1, <3>2, <3>3 DEF Handle
  <2> QED
    BY <2>1, <2>2
<1>11. Handle(d)' = h /\ (memory[Handle(d)].auth)' = a
  BY <1>1, <1>4 DEF Handle
<1> HIDE DEF a, h
<1> QED
  BY <1>1, <1>8, <1>9, <1>10, <1>11 DEF IsLast, IsElsewhere, Handle

\* A revocation that removes the file of what nobody else has is the sole to
\* have it.
LEMMA RemovalIsSole ==
  ASSUME CallsInv, NEW c \in Calls, RemoveStep(c), call'[c].sole
  PROVE  IsLast(c)'
<1> DEFINE a == memory[Handle(c)].auth
<1>1. /\ UNCHANGED <<current, memory, tmp>> /\ file' = Absent
      /\ ~IsElsewhere(a, c)
      /\ Others(c) /\ call'[c].kind = call[c].kind /\ call'[c].handle = call[c].handle
      /\ call'[c].got = call[c].got
  BY DEF RemoveStep, Goes
<1>2. \A d \in Calls : /\ call'[d].kind = call[d].kind /\ call'[d].handle = call[d].handle
                       /\ call'[d].got = call[d].got
  BY <1>1 DEF Others, Alike
<1>3. ~IsElsewhere(a, c)'
  BY <1>1, <1>2 DEF IsElsewhere, Handle
<1>4. a # Nobody => file'.auth # a
  BY <1>1, Shapes DEF Absent
<1> QED
  BY <1>1, <1>3, <1>4 DEF IsLast, Handle

\* Who is the sole to have an authorization stays so until it takes it.
LEMMA SoleInvStep ==
  ASSUME CallsInv, SoleInv, [Next]_vars
  PROVE  SoleInv'
<1>1. ASSUME UNCHANGED <<current, memory, file, tmp, call>> PROVE SoleInv'
  BY <1>1 DEF SoleInv, InPhase, IsLast, IsElsewhere, Handle
<1>2. ASSUME NEW c \in Calls, CallStep(c), NEW d \in Calls,
             call'[d].phase = "taking", call'[d].sole
      PROVE  IsLast(d)'
  <2>1. CASE d = c
    BY <1>2, <2>1, KindsStay, RemovalIsSole
  <2>2. CASE d # c
    <3>1. call[d].phase = "taking" /\ call[d].sole
      BY <1>2, <2>2, CallStepIsTame DEF Tame, Others, Alike
    <3> QED
      BY <1>2, <2>2, <3>1, LastIsKept DEF SoleInv, InPhase
  <2> QED
    BY <2>1, <2>2
<1>3. CASE Remount
  <2>1. /\ memory'[current'] = Parsed(file)
        /\ \A h \in 1..current : memory'[h] = memory[h]
        /\ UNCHANGED <<file, tmp, call>>
    BY <1>3, RemountKeeps DEF Remount, diskVars
  <2>2. Parsed(file).auth = file.auth
    BY ParsedIs DEF CallsInv
  <2>3. \A d \in Calls : call[d].kind # "idle" => Handle(d) \in 1..current
    BY DEF CallsInv, Registered, Handle
  <2>4. ASSUME NEW c \in Calls, InPhase(c, "taking"), call[c].sole PROVE IsLast(c)'
    <3>1. IsLast(c) /\ Handle(c) \in 1..current
      BY <2>3, <2>4, CallIs DEF SoleInv, CallOK, InPhase
    <3>2. memory'[Handle(c)] = memory[Handle(c)]
      BY <2>1, <3>1
    <3>3. \A d \in Calls : call[d].kind = "token" => memory'[Handle(d)] = memory[Handle(d)]
      BY <2>1, <2>3
    <3> QED
      BY <2>1, <2>2, <3>1, <3>2, <3>3 DEF IsLast, IsElsewhere, Handle
  <2> QED
    BY <2>1, <2>4 DEF SoleInv, InPhase
<1>4. CASE Restart
  <2>1. \A c \in Calls : call'[c].phase = "idle"
    BY <1>4, Shapes DEF Restart
  <2> QED
    BY <2>1 DEF SoleInv, InPhase
<1>5. CASE QuietStep \/ UNCHANGED vars
  BY <1>1, <1>5 DEF QuietStep, vars
<1> QED
  BY <1>2, <1>3, <1>4, <1>5, NextDoes DEF SoleInv, InPhase

\* Who takes the last of the tokens leaves them nowhere.
LEMMA TakenIsNowhere ==
  ASSUME CallsInv, SoleInv, ForgottenInv, NEW c \in Calls, TakeStep(c),
         ghosts'.forgotten # ghosts.forgotten
  PROVE  ForgottenInv'
<1> DEFINE h == Handle(c)
           a == memory[h].auth
<1>1. /\ UNCHANGED <<spent, current, file, tmp>>
      /\ InPhase(c, "taking") /\ call[c].phase = "taking" /\ Others(c)
      /\ memory' = [memory EXCEPT ![h] = NoTokens]
      /\ a # Nobody /\ call[c].sole
      /\ ghosts' = [ghosts EXCEPT !.forgotten = @ \cup {a}]
      /\ Goes(c, "announcing", call[c].got)
  BY DEF TakeStep, InPhase, Stops, Goes
<1>2. /\ CallOK(call[c]) /\ IsLocked(c) /\ call[c].kind \in Kinds \cup {"idle"}
      /\ Nobody \notin Calls \cup Attempts
  BY <1>1, CallIs DEF CallRecords
<1>3. /\ call[c].kind = "revoke" /\ call[c].got = NoTokens
      /\ holder[h] = c /\ h \in Handles
  <2>1. call[c].kind = "revoke" /\ call[c].got = NoTokens /\ holder[h] = c
    BY <1>1, <1>2 DEF CallOK, Kinds, IsLocked
  <2> QED
    BY <2>1, HandlesAre
<1>4. /\ memory'[h] = NoTokens /\ a \in Attempts
      /\ \A g \in Handles \ {h} : memory'[g] = memory[g]
      /\ ghosts'.forgotten = ghosts.forgotten \cup {a}
  <2>1. memory \in [Handles -> Tokens]
    BY DEF CallsInv, TypeOK
  <2>2. a \in Attempts
    BY <1>1, <1>3, <2>1 DEF Tokens
  <2>3. ghosts'.forgotten = ghosts.forgotten \cup {a}
    BY <1>1 DEF CallsInv, TypeOK
  <2> QED
    BY <1>1, <1>3, <2>1, <2>2, <2>3
<1>5. file.auth # a /\ ~IsElsewhere(a, c)
  BY <1>1 DEF SoleInv, IsLast
<1>6. spent[a] # 0
  BY <1>3, <1>4 DEF CallsInv, Exchanged
<1>7. ASSUME NEW d \in Calls \ {c}
      PROVE  /\ call[d].got.auth # a
             /\ IsToken(d) => Handle(d) \in Handles /\ (Handle(d) # h => memory[Handle(d)].auth # a)
  <2>1. CallOK(call[d]) /\ IsLocked(d) /\ call[d].kind \in Kinds \cup {"idle"}
    BY CallIs DEF CallRecords
  <2>2. IsToken(d) => Handle(d) \in Handles /\ (Handle(d) # h => memory[Handle(d)].auth # a)
    BY <1>5, HandlesAre DEF IsElsewhere, IsToken
  <2>3. IsFinish(d) => call[d].got.auth # a
    BY <1>5 DEF IsElsewhere, IsFinish
  <2>4. IsRefreshing(d) => call[d].got.auth # a
    BY <1>3, <2>1, <2>2 DEF IsLocked, IsRefreshing
  <2>5. ~IsFinish(d) /\ ~IsRefreshing(d) => call[d].got.auth # a
    BY <1>1, <2>1, Shapes DEF IsFinish, IsRefreshing, IsToken, CallOK, Kinds
  <2> QED
    BY <2>2, <2>3, <2>4, <2>5
<1>8. tmp.auth # a /\ memory'[current].auth # a
  BY <1>1, <1>4, <1>5, HandlesAre, Shapes DEF IsElsewhere
<1>9. ASSUME NEW b \in ghosts'.forgotten
      PROVE  /\ spent[b] # 0 /\ file.auth # b /\ tmp.auth # b /\ memory'[current].auth # b
             /\ \A d \in Calls : call'[d].got.auth # b
             /\ \A d \in Calls : call'[d].kind = "token" => memory'[call'[d].handle].auth # b
  <2>1. b \in Attempts /\ b # Nobody
    <3>1. ghosts.forgotten \subseteq Attempts
      BY DEF CallsInv, TypeOK
    <3> QED
      BY <1>2, <1>4, <1>9, <3>1
  <2>2. /\ call'[c].got = NoTokens /\ call'[c].kind = "revoke"
        /\ \A d \in Calls \ {c} : /\ call'[d].got = call[d].got /\ call'[d].kind = call[d].kind
                                  /\ call'[d].handle = call[d].handle
    BY <1>1, <1>3 DEF Goes, Others, Alike
  <2>3. /\ spent[b] # 0 /\ file.auth # b /\ tmp.auth # b /\ memory'[current].auth # b
        /\ \A d \in Calls \ {c} : /\ call[d].got.auth # b
                                  /\ IsToken(d) => memory'[Handle(d)].auth # b
    <3>1. CASE b = a
      <4>1. \A d \in Calls \ {c} : IsToken(d) => memory'[Handle(d)].auth # b
        BY <1>4, <1>7, <2>1, <3>1, Shapes
      <4> QED
        BY <1>5, <1>6, <1>7, <1>8, <3>1, <4>1
    <3>2. CASE b # a
      <4>1. /\ spent[b] # 0 /\ file.auth # b /\ tmp.auth # b /\ memory[current].auth # b
            /\ \A d \in Calls : call[d].got.auth # b /\ (IsToken(d) => memory[Handle(d)].auth # b)
        BY <1>4, <1>9, <3>2 DEF ForgottenInv
      <4>2. \A g \in Handles : memory[g].auth # b => memory'[g].auth # b
        BY <1>4, <2>1, Shapes
      <4>3. current \in Handles
        BY HandlesAre
      <4> QED
        BY <1>7, <4>1, <4>2, <4>3
    <3> QED
      BY <3>1, <3>2
  <2> QED
    BY <2>1, <2>2, <2>3, Shapes DEF IsToken, Handle
<1> QED
  BY <1>1, <1>9 DEF ForgottenInv, IsToken, Handle

\* No step brings back what was revoked.
LEMMA ForgottenInvStep ==
  ASSUME CallsInv, SoleInv, ForgottenInv, [Next]_vars
  PROVE  ForgottenInv'
<1>1. ASSUME UNCHANGED <<spent, current, memory, file, tmp, call, ghosts>> PROVE ForgottenInv'
  BY <1>1 DEF ForgottenInv, IsToken, Handle
<1>2. ASSUME NEW c \in Calls, CallStep(c) PROVE ForgottenInv'
  <2>1. CASE ghosts'.forgotten = ghosts.forgotten
    BY <1>2, <2>1, CallStepIsTame, ForgottenIsNowhere
  <2>2. CASE ghosts'.forgotten # ghosts.forgotten
    <3>1. TakeStep(c)
      BY <1>2, <2>2 DEF CallStep, StartStep, EndStep, ExchangeStep, RefreshStep, OpenStep, FillStep,
                        RenameStep, SetAuthorizedStep, SetRefreshedStep, LockStep, RemoveStep
    <3> QED
      BY <2>2, <3>1, TakenIsNowhere
  <2> QED
    BY <2>1, <2>2
<1>3. CASE Remount
  <2>1. /\ memory'[current'] = Parsed(file) /\ ghosts'.forgotten = ghosts.forgotten
        /\ \A h \in 1..current : memory'[h] = memory[h]
        /\ UNCHANGED <<spent, file, tmp, call>>
    BY <1>3, RemountKeeps DEF Remount, diskVars
  <2>2. Parsed(file).auth = file.auth
    BY ParsedIs DEF CallsInv
  <2>3. \A c \in Calls : IsToken(c) => Handle(c) \in 1..current
    BY DEF CallsInv, Registered, IsToken, Handle
  <2> QED
    BY <2>1, <2>2, <2>3 DEF ForgottenInv, IsToken, Handle
<1>4. CASE Restart
  <2>1. /\ memory'[current'] = Parsed(file) /\ ghosts'.forgotten = ghosts.forgotten
        /\ UNCHANGED <<spent, file>> /\ tmp' = NoTokens
        /\ \A c \in Calls : call'[c].kind = "idle" /\ call'[c].got = NoTokens
    BY <1>4, RestartKeeps, Shapes DEF Restart, Absent
  <2>2. Parsed(file).auth = file.auth
    BY ParsedIs DEF CallsInv
  <2>3. \A a \in ghosts.forgotten : a # Nobody
    BY GrantsAssumption DEF CallsInv, TypeOK
  <2> QED
    BY <2>1, <2>2, <2>3, Shapes DEF ForgottenInv, IsToken
<1>5. CASE QuietStep \/ UNCHANGED vars
  BY <1>1, <1>5 DEF QuietStep, vars
<1> QED
  BY <1>2, <1>3, <1>4, <1>5, NextDoes


-----------------------------------------------------------------------------
(* The provider takes the refresh tokens that are there *)

LEMMA FreshAges ==
  ASSUME NEW tokens, NEW lost, NEW more, NEW taken, lost \subseteq more,
         FreshIn(tokens, lost, taken)
  PROVE  FreshIn(tokens, more, taken)
  BY DEF FreshIn

\* Tokens of nobody, or of an authorization that lost one, are no concern.
LEMMA NobodysAreFresh ==
  ASSUME NEW tokens, NEW lost, NEW taken, tokens.auth = Nobody \/ tokens.auth \in lost
  PROVE  FreshIn(tokens, lost, taken)
  BY GrantsAssumption DEF FreshIn

\* What the others are at does not change with a step of c.
LEMMA OthersStay ==
  ASSUME CallsInv, NEW c \in Calls, Tame(c), NEW d \in Calls \ {c}
  PROVE  /\ call'[d].kind = call[d].kind /\ call'[d].phase = call[d].phase
         /\ call'[d].handle = call[d].handle /\ call'[d].got = call[d].got
         /\ IsUnsaved(d)' = IsUnsaved(d)
         /\ IsRefreshing(d)' = IsRefreshing(d)
         /\ IsUnsaved(d) => memory'[Handle(d)] = memory[Handle(d)]
<1>1. /\ call'[d].kind = call[d].kind /\ call'[d].phase = call[d].phase
      /\ call'[d].handle = call[d].handle /\ call'[d].got = call[d].got
  BY DEF Tame, Others, Alike
<1>2. IsRefreshing(d)' = IsRefreshing(d)
  BY <1>1 DEF IsRefreshing, IsToken
<1>3. ASSUME IsToken(d), IsStoring(d) PROVE memory'[Handle(d)] = memory[Handle(d)]
  <2>1. holder[Handle(d)] = d /\ Handle(d) \in Handles
    BY <1>3, CallIs, HandlesAre
       DEF IsLocked, IsRefreshing, IsToken, IsStoring, StoringPhases
  <2> QED
    BY <2>1, GrantsAssumption DEF Tame
<1>4. IsUnsaved(d)' = IsUnsaved(d)
  <2>1. call[d].kind = "token" /\ call[d].phase \in StoringPhases
          => memory'[Handle(d)] = memory[Handle(d)]
    BY <1>3 DEF IsToken, IsStoring
  <2> QED
    BY <1>1, <2>1 DEF IsUnsaved, IsStoring, Handle
<1> QED
  BY <1>1, <1>2, <1>3, <1>4 DEF IsUnsaved, IsToken

\* Who stores unsaved tokens holds the lock of the handle that has the old.
LEMMA UnsavedIs ==
  ASSUME CallsInv, NEW c \in Calls, IsUnsaved(c)
  PROVE  /\ IsToken(c) /\ IsStoring(c) /\ IsRefreshing(c) /\ Handle(c) \in Handles
         /\ holder[Handle(c)] = c /\ memory[Handle(c)].auth = call[c].got.auth
         /\ call[c].phase \in {"opening", "filling", "renaming", "setting"}
<1>1. IsToken(c) /\ IsStoring(c) /\ call[c].phase \in StoringPhases
  BY DEF IsUnsaved, IsToken, IsStoring
<1>2. IsRefreshing(c) /\ call[c].phase \in {"opening", "filling", "renaming", "setting"}
  BY <1>1, CallIs DEF CallOK, IsRefreshing, IsToken, StoringPhases
<1> QED
  BY <1>1, <1>2, CallIs, HandlesAre DEF IsLocked, IsToken

\* What a step does for the freshness of what it leaves.
Refreshed(c) ==
    /\ spent' = spent /\ ghosts.lost \subseteq ghosts'.lost
    /\ call'[c].kind = "token" /\ call'[c].phase # "locking"
         => FreshIn(call'[c].got, ghosts'.lost, spent)
    /\ \A h \in Handles : \/ memory'[h] = memory[h]
                          \/ IsServed(h) => FreshIn(memory'[h], ghosts'.lost, spent)
    /\ \/ file' = file
       \/ FreshIn(file', ghosts'.lost, spent)
       \/ file' = tmp /\ call[c].phase # "opening"
    /\ tmp' = tmp \/ FreshIn(tmp', ghosts'.lost, spent)
    /\ IsUnsaved(c) =>
         \/ call[c].got.auth \in ghosts'.lost
         \/ call[c].phase = "setting" /\ FreshIn(memory'[Handle(c)], ghosts'.lost, spent)
         \/ /\ IsUnsaved(c)' /\ call'[c].handle = call[c].handle /\ call'[c].got = call[c].got
            /\ call[c].phase = "opening" => FreshIn(tmp', ghosts'.lost, spent)
            /\ \/ call'[c].phase \in {"filling", "renaming"}
               \/ file' = tmp /\ call[c].phase # "opening"

\* A step of one call that leaves its tokens fresh keeps all fresh.
LEMMA RefreshedKeeps ==
  ASSUME CallsInv, FreshInv, NEW c \in Calls, Tame(c), Refreshed(c)
  PROVE  FreshInv'
<1> DEFINE lost == ghosts'.lost
<1>0. /\ spent' = spent /\ ghosts.lost \subseteq lost /\ current' = current
      /\ \A d \in Calls : IsRefreshing(d) => FreshIn(call[d].got, ghosts.lost, spent)
      /\ \A d \in Calls \ {c} : /\ IsRefreshing(d)' = IsRefreshing(d)
                                /\ IsUnsaved(d)' = IsUnsaved(d)
                                /\ call'[d].got = call[d].got /\ call'[d].phase = call[d].phase
                                /\ call'[d].kind = call[d].kind /\ call'[d].handle = call[d].handle
  BY OthersStay DEF Refreshed, Tame, FreshInv, Fresh
<1>1. ASSUME NEW d \in Calls, IsRefreshing(d)' PROVE FreshIn(call'[d].got, lost, spent)
  <2>1. CASE d = c
    BY <1>1, <2>1 DEF Refreshed, IsRefreshing, IsToken
  <2>2. CASE d # c
    BY <1>0, <1>1, <2>2, FreshAges
  <2> QED
    BY <2>1, <2>2
<1>2. ASSUME NEW h \in Handles, IsServed(h)'
      PROVE  FreshIn(memory'[h], lost, spent) \/ \E d \in Calls : IsUnsaved(d)' /\ Handle(d)' = h
  <2>1. IsServed(h)
    <3>1. CASE h = current
      BY <3>1 DEF IsServed
    <3>2. CASE h # current
      <4>1. PICK d \in Calls : call'[d].kind = "token" /\ call'[d].handle = h
        BY <1>0, <1>2, <3>2 DEF IsServed, IsToken, Handle
      <4>2. call[d].kind = "token" /\ call[d].handle = h
        BY <1>0, <3>2, <4>1 DEF Tame, IsToken
      <4> QED
        BY <4>2 DEF IsServed, IsToken, Handle
    <3> QED
      BY <3>1, <3>2
  <2>2. CASE memory'[h] # memory[h]
    BY <2>1, <2>2 DEF Refreshed
  <2>3. CASE memory'[h] = memory[h]
    <3>1. CASE FreshIn(memory[h], ghosts.lost, spent)
      BY <1>0, <2>3, <3>1, FreshAges
    <3>2. ASSUME NEW d \in Calls, IsUnsaved(d), Handle(d) = h
          PROVE  FreshIn(memory'[h], lost, spent) \/ \E e \in Calls : IsUnsaved(e)' /\ Handle(e)' = h
      <4>1. CASE d # c
        BY <1>0, <3>2, <4>1 DEF Handle
      <4>2. CASE d = c
        <5>1. memory[h].auth = call[c].got.auth
          BY <3>2, <4>2, UnsavedIs
        <5> QED
          BY <2>3, <3>2, <4>2, <5>1, NobodysAreFresh DEF Refreshed, Handle
      <4> QED
        BY <4>1, <4>2
    <3> QED
      BY <2>1, <3>1, <3>2 DEF FreshInv, Fresh
  <2> QED
    BY <2>2, <2>3
<1>4. FreshIn(tmp', lost, spent) \/ \E d \in Calls : Rotating(d, tmp.auth, {"opening"})'
  <2>1. CASE tmp' = tmp
    <3>1. CASE FreshIn(tmp, ghosts.lost, spent)
      BY <1>0, <2>1, <3>1, FreshAges
    <3>2. ASSUME NEW d \in Calls, Rotating(d, tmp.auth, {"opening"})
          PROVE  FreshIn(tmp', lost, spent) \/ Rotating(d, tmp.auth, {"opening"})'
      <4>1. IsUnsaved(d) /\ call[d].got.auth = tmp.auth /\ call[d].phase = "opening"
        BY <3>2 DEF Rotating
      <4>2. CASE d = c
        BY <2>1, <4>1, <4>2, NobodysAreFresh DEF Refreshed
      <4>3. CASE d # c
        BY <1>0, <2>1, <4>1, <4>3 DEF Rotating
      <4> QED
        BY <4>2, <4>3
    <3> QED
      BY <3>1, <3>2 DEF FreshInv, Fresh
  <2>2. CASE tmp' # tmp
    BY <2>2 DEF Refreshed
  <2> QED
    BY <2>1, <2>2
<1>5. \/ FreshIn(file', lost, spent)
      \/ \E d \in Calls : Rotating(d, file.auth, {"opening", "filling", "renaming"})'
  <2>1. CASE file' = tmp /\ call[c].phase # "opening"
    <3>1. CASE FreshIn(tmp, ghosts.lost, spent)
      BY <1>0, <2>1, <3>1, FreshAges
    <3>2. ASSUME NEW d \in Calls, Rotating(d, tmp.auth, {"opening"})
          PROVE  Rotating(d, file.auth, {"opening", "filling", "renaming"})'
      <4>1. IsUnsaved(d) /\ call[d].got.auth = tmp.auth /\ call[d].phase = "opening" /\ d # c
        BY <2>1, <3>2 DEF Rotating
      <4> QED
        BY <1>0, <2>1, <4>1 DEF Rotating
    <3> QED
      BY <3>1, <3>2 DEF FreshInv, Fresh
  <2>2. CASE file' = file /\ ~(file' = tmp /\ call[c].phase # "opening")
    <3>1. CASE FreshIn(file, ghosts.lost, spent)
      BY <1>0, <2>2, <3>1, FreshAges
    <3>2. ASSUME NEW d \in Calls, Rotating(d, file.auth, {"opening", "filling", "renaming"})
          PROVE  \/ FreshIn(file', lost, spent)
                 \/ Rotating(d, file.auth, {"opening", "filling", "renaming"})'
      <4>1. /\ IsUnsaved(d) /\ call[d].got.auth = file.auth
            /\ call[d].phase \in {"opening", "filling", "renaming"}
        BY <3>2 DEF Rotating
      <4>2. CASE d = c
        <5>1. \/ call[c].got.auth \in lost
              \/ /\ IsUnsaved(c)' /\ call'[c].got = call[c].got
                 /\ call'[c].phase \in {"filling", "renaming"}
          BY <2>2, <4>1, <4>2 DEF Refreshed
        <5>2. CASE call[c].got.auth \in lost
          BY <2>2, <4>1, <4>2, <5>2, NobodysAreFresh
        <5>3. CASE /\ IsUnsaved(c)' /\ call'[c].got = call[c].got
                   /\ call'[c].phase \in {"filling", "renaming"}
          BY <2>2, <4>1, <4>2, <5>3 DEF Rotating
        <5> QED
          BY <5>1, <5>2, <5>3
      <4>3. CASE d # c
        BY <1>0, <2>2, <4>1, <4>3 DEF Rotating
      <4> QED
        BY <4>2, <4>3
    <3> QED
      BY <3>1, <3>2 DEF FreshInv, Fresh
  <2>3. CASE FreshIn(file', lost, spent)
    BY <2>3
  <2> QED
    BY <2>1, <2>2, <2>3 DEF Refreshed
<1> QED
  BY <1>0, <1>1, <1>2, <1>4, <1>5 DEF FreshInv, Fresh


-----------------------------------------------------------------------------
(* A new authorization is not refreshed before the handle has it *)

LEMMA UnsetIs ==
  ASSUME CallsInv, NEW c \in Calls, IsUnset(c)
  PROVE  /\ IsFinish(c) /\ call[c].got.auth \in Attempts /\ call[c].got.auth # Nobody
         /\ call[c].got.refresh \in {0, 1}
         /\ call[c].phase \in {"opening", "filling", "renaming", "setting"}
         /\ Handle(c) \in Nat /\ Handle(c) <= current /\ Handle(c) \in Handles
         /\ 1..Handle(c) \subseteq Handles /\ Handle(c) \in 1..Handle(c)
<1>1. IsFinish(c) /\ call[c].phase \in {"opening", "filling", "renaming", "setting"}
  BY DEF IsUnset
<1>2. call[c].got.auth \in Attempts /\ call[c].got.auth # Nobody /\ call[c].got.refresh \in {0, 1}
  BY <1>1, CallIs DEF CallOK, IsFinish
<1>3. /\ Handle(c) \in Nat /\ Handle(c) <= current /\ Handle(c) \in Handles
      /\ HandlesMax \in Nat
  BY <1>1, HandlesAre DEF IsFinish
<1>4. 1..Handle(c) \subseteq Handles /\ Handle(c) \in 1..Handle(c)
  BY <1>3 DEF Handles
<1> QED
  BY <1>1, <1>2, <1>3, <1>4

\* What a step leaves of the ways between the exchange and the handle.
Aligned(c) ==
    /\ spent' = spent /\ ghosts.lost \subseteq ghosts'.lost
    /\ \A h \in Handles : h = Handle(c) \/ memory'[h] = memory[h]
    /\ call'[c].kind = "token" =>
         \/ call'[c].got.auth = Nobody
         \/ /\ IsToken(c) /\ call'[c].handle = call[c].handle
            /\ call'[c].got.auth \in {call[c].got.auth, memory[Handle(c)].auth}
    /\ call'[c].kind = "finish" =>
         \/ call'[c].got = NoTokens /\ call'[c].phase = "asking"
         \/ /\ IsFinish(c) /\ call'[c].got = call[c].got /\ call'[c].handle = call[c].handle
            /\ call'[c].phase = "announcing" \/ (IsUnset(c) /\ memory' = memory)
            /\ call'[c].phase \in {"opening", "filling"} =>
                 call[c].phase = "opening" /\ file' = file /\ tmp'.auth = Nobody

\* A step of one call that leaves unstored authorizations alone keeps them apart.
LEMMA AlignedKeeps ==
  ASSUME CallsInv, UnsetInv, NEW c \in Calls, Tame(c), Aligned(c)
  PROVE  UnsetInv'
<1>0. /\ spent' = spent /\ ghosts.lost \subseteq ghosts'.lost /\ current' = current
      /\ \A d \in Calls \ {c} : /\ call'[d].got = call[d].got /\ call'[d].phase = call[d].phase
                                /\ call'[d].kind = call[d].kind /\ call'[d].handle = call[d].handle
  BY OthersStay DEF Aligned, Tame
<1>1. ASSUME NEW d \in Calls, NEW e \in Calls, call'[d].kind = "finish", call'[e].kind = "finish",
             call'[d].got.auth = call'[e].got.auth, d # e
      PROVE  call'[d].got.auth = Nobody
  <2>1. \A f \in Calls : call'[f].kind = "finish" =>
           call'[f].got.auth = Nobody \/ (IsFinish(f) /\ call'[f].got = call[f].got)
    BY <1>0, Shapes DEF Aligned, IsFinish
  <2> QED
    BY <1>1, <2>1 DEF UnsetInv
<1>2. ASSUME NEW h \in Handles, IsServed(h)' PROVE IsServed(h)
  BY <1>0, <1>2 DEF IsServed, IsToken, Handle, Tame
<1>3. ASSUME NEW d \in Calls \ {c}, IsUnset(d)
      PROVE  IsApart(d)'
  <2> DEFINE a == call[d].got.auth
  <2>0. /\ IsApart(d) /\ a \in Attempts /\ a # Nobody /\ call'[d].got.auth = a
        /\ Handle(d) \in Nat /\ 1..Handle(d) \subseteq Handles /\ call'[d].handle = Handle(d)
        /\ Handle(d) \in Handles
    BY <1>0, <1>3, UnsetIs DEF UnsetInv, Handle
  <2>1. call[c].kind \in {"finish", "token", "revoke", "idle"} /\ CallOK(call[c])
        /\ Handle(c) \in Nat
    BY CallIs, HandlesAre DEF CallRecords, Kinds
  <2>2. call[c].got.auth = a => IsToken(c)
    <3>1. call[c].kind \in {"revoke", "idle"} => call[c].got.auth = Nobody
      BY <2>1, Shapes DEF CallOK
    <3>2. IsFinish(c) /\ IsFinish(d) /\ call[c].got.auth = a => c = d \/ call[c].got.auth = Nobody
      BY DEF UnsetInv
    <3> QED
      BY <1>3, <2>0, <2>1, <3>1, <3>2 DEF IsFinish, IsToken, IsUnset
  <2>3. ASSUME NEW h \in 1..Handle(d) PROVE memory'[h].auth # a
    <3>1. memory[h].auth # a /\ h \in Handles /\ h \in Nat
      BY <2>0 DEF IsApart
    <3>2. CASE memory'[h] = memory[h]
      BY <3>1, <3>2
    <3>3. CASE memory'[h] # memory[h]
      <4>1. h = Handle(c) /\ memory'[h].auth \in {memory[h].auth, call[c].got.auth, Nobody}
        BY <3>1, <3>3 DEF Aligned, Tame, Carried
      <4>2. call[c].got.auth # a
        <5>1. Handle(c) <= Handle(d)
          BY <2>0, <4>1
        <5> QED
          BY <2>0, <2>2, <5>1 DEF IsApart
      <4> QED
        BY <2>0, <3>1, <4>1, <4>2
    <3> QED
      BY <3>2, <3>3
  <2>4. ASSUME NEW e \in Calls, call'[e].kind = "token", call'[e].handle <= Handle(d)
        PROVE  call'[e].got.auth # a
    <3>1. CASE e # c
      BY <1>0, <2>0, <2>4, <3>1 DEF IsApart, IsToken, Handle
    <3>2. CASE e = c
      <4>1. CASE call'[c].got.auth = Nobody
        BY <2>0, <3>2, <4>1
      <4>2. CASE /\ IsToken(c) /\ call'[c].handle = call[c].handle
                 /\ call'[c].got.auth \in {call[c].got.auth, memory[Handle(c)].auth}
        <5>1. Handle(c) <= Handle(d)
          BY <2>4, <3>2, <4>2 DEF Handle
        <5>2. Handle(c) \in 1..Handle(d)
          BY <2>0, <2>1, <4>2, <5>1, HandlesAre DEF IsToken, Handles
        <5>3. call[c].got.auth # a /\ memory[Handle(c)].auth # a
          BY <2>0, <4>2, <5>1, <5>2 DEF IsApart
        <5> QED
          BY <3>2, <4>2, <5>3
      <4> QED
        BY <2>4, <3>2, <4>1, <4>2 DEF Aligned
    <3> QED
      BY <3>1, <3>2
  <2>5. ASSUME call'[d].phase \in {"opening", "filling"}
        PROVE  /\ spent[a] = 1 /\ file'.auth # a /\ tmp'.auth # a
               /\ \A h \in Handles : memory'[h].auth # a
               /\ \A e \in Calls : call'[e].kind = "token" => call'[e].got.auth # a
    <3>1. /\ spent[a] = 1 /\ file.auth # a /\ tmp.auth # a
          /\ \A h \in Handles : memory[h].auth # a
          /\ \A e \in Calls : IsToken(e) => call[e].got.auth # a
      BY <1>0, <2>0, <2>5 DEF IsApart, IsNowhereElse
    <3>2. call[c].got.auth # a
      BY <2>2, <3>1
    <3>3. /\ file'.auth # a /\ tmp'.auth # a /\ \A h \in Handles : memory'[h].auth # a
      BY <2>0, <3>1, <3>2 DEF Tame, Carried
    <3>4. ASSUME call'[c].kind = "token" PROVE call'[c].got.auth # a
      BY <2>0, <3>1, <3>2, <3>4, HandlesAre DEF Aligned, IsToken
    <3>5. \A e \in Calls \ {c} : call'[e].kind = "token" => call'[e].got.auth # a
      BY <1>0, <3>1 DEF IsToken
    <3> QED
      BY <3>1, <3>3, <3>4, <3>5
  <2>6. IsServed(Handle(d))' /\ a \notin ghosts'.lost => spent[a] = 1
    <3>1. IsServed(Handle(d))' => IsServed(Handle(d))
      BY <1>0, <1>2, <2>0 DEF IsServed, Handle
    <3> QED
      BY <1>0, <2>0, <3>1 DEF IsApart
  <2> QED
    BY <1>0, <2>0, <2>3, <2>4, <2>5, <2>6 DEF IsApart, IsNowhereElse, IsToken, Handle
<1>4. ASSUME call'[c].kind = "finish",
             call'[c].phase \in {"opening", "filling", "renaming", "setting"}
      PROVE  IsApart(c)'
  <2> DEFINE a == call[c].got.auth
  <2>1. /\ IsFinish(c) /\ call'[c].got = call[c].got /\ call'[c].handle = call[c].handle
        /\ IsUnset(c) /\ memory' = memory
        /\ call'[c].phase \in {"opening", "filling"} =>
             call[c].phase = "opening" /\ file' = file /\ tmp'.auth = Nobody
    BY <1>4 DEF Aligned
  <2>2. IsApart(c) /\ a # Nobody /\ Handle(c) \in Handles /\ call'[c].handle = Handle(c)
    BY <2>1, UnsetIs DEF UnsetInv, Handle
  <2>3. \A d \in Calls : call'[d].kind = "token" =>
           IsToken(d) /\ call'[d].handle = call[d].handle /\ call'[d].got = call[d].got
    BY <1>0, <1>4 DEF IsToken
  <2>4. IsServed(Handle(c))' => IsServed(Handle(c))
    BY <1>0, <2>2, <2>3 DEF IsServed, IsToken, Handle
  <2> QED
    BY <1>0, <2>1, <2>2, <2>3, <2>4 DEF IsApart, IsNowhereElse, IsToken, Handle
<1>5. ASSUME NEW d \in Calls, IsUnset(d)' PROVE IsApart(d)'
  <2>1. call'[d].kind = "finish" /\ call'[d].phase \in {"opening", "filling", "renaming", "setting"}
    BY <1>5 DEF IsUnset, IsFinish
  <2>2. d # c => IsUnset(d)
    BY <1>0, <2>1 DEF IsUnset, IsFinish
  <2> QED
    BY <1>3, <1>4, <2>1, <2>2
<1> QED
  BY <1>1, <1>5 DEF UnsetInv, IsFinish


-----------------------------------------------------------------------------
(* The steps leave it so *)

\* Steps that store nothing.
LEMMA QuietersRefresh ==
  ASSUME CallsInv, FreshInv, NEW c \in Calls,
         \/ StartStep(c, "finish", "asking") \/ StartStep(c, "token", "locking")
         \/ StartStep(c, "revoke", "locking") \/ EndStep(c)
         \/ LockStep(c) \/ RemoveStep(c) \/ TakeStep(c)
  PROVE  Refreshed(c) /\ Aligned(c)
<1>0. /\ NoTokens.auth = Nobody
      /\ call[c].kind # "idle" => Handle(c) \in Handles
      /\ memory \in [Handles -> Tokens]
  BY Shapes, HandlesAre DEF CallsInv, TypeOK
<1>1. ASSUME NEW kind, NEW phase, StartStep(c, kind, phase),
             \/ kind = "finish" /\ phase = "asking"
             \/ kind \in {"token", "revoke"} /\ phase = "locking"
      PROVE  Refreshed(c) /\ Aligned(c)
  <2>1. /\ UNCHANGED <<spent, memory, file, tmp, ghosts>> /\ call[c].kind = "idle"
        /\ call'[c].phase = phase /\ call'[c].kind = kind /\ call'[c].got = NoTokens
    BY <1>1 DEF StartStep, Starts
  <2>2. ~IsUnsaved(c)
    BY <2>1 DEF IsUnsaved
  <2> QED
    BY <1>0, <1>1, <2>1, <2>2 DEF Refreshed, Aligned
<1>2. ASSUME EndStep(c) PROVE Refreshed(c) /\ Aligned(c)
  <2>1. /\ UNCHANGED <<spent, memory, file>> /\ call'[c].kind = "idle"
        /\ ghosts.lost \subseteq ghosts'.lost /\ UnsavedOf({c}) \subseteq ghosts'.lost
        /\ tmp' = tmp \/ tmp' = NoTokens
    BY <1>2 DEF EndStep, Stops, LeftBy, Absent
  <2>2. IsUnsaved(c) => call[c].got.auth \in ghosts'.lost
    BY <2>1 DEF UnsavedOf
  <2>3. FreshIn(NoTokens, ghosts'.lost, spent)
    BY <1>0, NobodysAreFresh
  <2> QED
    BY <2>1, <2>2, <2>3 DEF Refreshed, Aligned
<1>3. ASSUME LockStep(c) PROVE Refreshed(c) /\ Aligned(c)
  <2>1. /\ UNCHANGED <<spent, memory, file, tmp, ghosts>>
        /\ call[c].phase = "locking" /\ IsToken(c) /\ holder[Handle(c)] = Nobody
        /\ Goes(c, "asking", memory[Handle(c)])
    BY <1>3 DEF LockStep, InPhase
  <2>2. /\ call'[c].kind = "token" /\ call'[c].handle = call[c].handle
        /\ call'[c].got = memory[Handle(c)]
    BY <2>1 DEF Goes, IsToken
  <2>3. ~IsUnsaved(c)
    BY <2>1 DEF IsUnsaved, IsStoring, StoringPhases
  <2>4. FreshIn(memory[Handle(c)], ghosts.lost, spent)
    <3>1. Handle(c) \in Handles /\ IsServed(Handle(c))
      BY <1>0, <2>1 DEF IsServed, IsToken
    <3>2. ASSUME NEW d \in Calls, IsUnsaved(d), Handle(d) = Handle(c) PROVE FALSE
      BY <2>1, <3>2, UnsavedIs, GrantsAssumption
    <3> QED
      BY <3>1, <3>2 DEF FreshInv, Fresh
  <2> QED
    BY <2>1, <2>2, <2>3, <2>4 DEF Refreshed, Aligned
<1>4. ASSUME RemoveStep(c) PROVE Refreshed(c) /\ Aligned(c)
  <2>1. /\ UNCHANGED <<spent, memory, tmp, ghosts>> /\ file' = NoTokens
        /\ call[c].kind = "revoke" /\ call'[c].kind = "revoke"
    BY <1>4 DEF RemoveStep, IsRevoke, Goes, Absent
  <2>2. ~IsUnsaved(c)
    BY <2>1 DEF IsUnsaved
  <2>3. FreshIn(NoTokens, ghosts'.lost, spent)
    BY <1>0, NobodysAreFresh
  <2> QED
    BY <2>1, <2>2, <2>3 DEF Refreshed, Aligned
<1>5. ASSUME TakeStep(c) PROVE Refreshed(c) /\ Aligned(c)
  <2>1. /\ UNCHANGED <<spent, file, tmp>> /\ call[c].phase = "taking"
        /\ memory' = [memory EXCEPT ![Handle(c)] = NoTokens]
        /\ call'[c].kind \in {call[c].kind, "idle"}
        /\ ghosts' = ghosts \/ \E a \in {memory[Handle(c)].auth} :
                                  ghosts' = [ghosts EXCEPT !.forgotten = @ \cup {a}]
    BY <1>5 DEF TakeStep, InPhase, Goes, Stops
  <2>2. call[c].kind = "revoke"
    <3>1. call[c].kind \in Kinds \cup {"idle"} /\ CallOK(call[c])
      BY CallIs DEF CallRecords
    <3> QED
      BY <2>1, <3>1 DEF CallOK, Kinds
  <2>3. /\ memory'[Handle(c)] = NoTokens
        /\ \A h \in Handles : h = Handle(c) \/ memory'[h] = memory[h]
    BY <1>0, <2>1, <2>2
  <2>4. ghosts'.lost = ghosts.lost
    <3>1. ghosts \in [lost : SUBSET Attempts, refused : SUBSET Attempts, forgotten : SUBSET Attempts]
      BY DEF CallsInv, TypeOK
    <3> QED
      BY <2>1, <3>1
  <2>5. ~IsUnsaved(c) /\ FreshIn(NoTokens, ghosts'.lost, spent)
    BY <1>0, <2>2, NobodysAreFresh DEF IsUnsaved
  <2>6. \A h \in Handles : \/ memory'[h] = memory[h]
                           \/ FreshIn(memory'[h], ghosts'.lost, spent)
    BY <2>3, <2>5
  <2> QED
    BY <2>1, <2>2, <2>3, <2>4, <2>5, <2>6 DEF Refreshed, Aligned
<1> QED
  BY <1>1, <1>2, <1>3, <1>4, <1>5

\* The file gets tokens the provider takes: a refreshed grant's are the
\* newest, and an exchanged authorization has not been refreshed yet.
LEMMA WritersRefresh ==
  ASSUME CallsInv, FreshInv, UnsetInv, NEW c \in Calls,
         OpenStep(c) \/ FillStep(c) \/ RenameStep(c)
  PROVE  Refreshed(c) /\ Aligned(c)
<1>0. /\ UNCHANGED <<spent, memory, ghosts>>
      /\ call[c].phase \in {"opening", "filling", "renaming"}
      /\ \E phase \in {"filling", "renaming", "setting"} : Goes(c, phase, call[c].got)
      /\ call[c].kind \in {"finish", "token"}
      /\ Half.auth = Nobody /\ NoTokens.auth = Nobody
  BY FilesAreTame, Shapes DEF OpenStep, FillStep, RenameStep, InPhase
<1>1. /\ call'[c].kind = call[c].kind /\ call'[c].handle = call[c].handle
      /\ call'[c].got = call[c].got /\ call'[c].phase \in {"filling", "renaming", "setting"}
  BY <1>0 DEF Goes
<1>2. call[c].kind = "token" => FreshIn(call[c].got, ghosts.lost, spent)
  BY <1>0 DEF FreshInv, Fresh, IsRefreshing, IsToken
<1>3. IsUnsaved(c) => IsUnsaved(c)'
  BY <1>0, <1>1 DEF IsUnsaved, IsStoring, StoringPhases, Handle
<1>4. FreshIn(Half, ghosts.lost, spent) /\ FreshIn(NoTokens, ghosts.lost, spent)
  BY <1>0, NobodysAreFresh
<1>5. call[c].kind = "finish" => IsUnset(c)
  BY <1>0 DEF IsUnset, IsFinish
<1>6. CASE OpenStep(c)
  <2>1. file' = file /\ tmp' = Half /\ call[c].phase = "opening" /\ call'[c].phase = "filling"
    BY <1>6 DEF OpenStep, InPhase, Goes
  <2> QED
    BY <1>0, <1>1, <1>2, <1>3, <1>4, <1>5, <2>1 DEF Refreshed, Aligned, IsToken, IsFinish
<1>7. CASE FillStep(c)
  <2>1. /\ call[c].phase = "filling" /\ call'[c].phase = "renaming"
        /\ tmp' = tmp \/ tmp' \in WrittenOver(tmp, call[c].got)
        /\ file' = file \/ file' \in WrittenOver(file, call[c].got)
    BY <1>7 DEF FillStep, InPhase, Goes
  <2>2. FreshIn(call[c].got, ghosts.lost, spent)
    <3>1. CASE call[c].kind = "finish"
      <4>1. spent[call[c].got.auth] = 1 /\ call[c].got.refresh \in {0, 1}
        BY <1>5, <2>1, <3>1, UnsetIs DEF UnsetInv, IsApart
      <4> QED
        BY <4>1 DEF FreshIn
    <3> QED
      BY <1>0, <1>2, <3>1
  <2>3. /\ tmp' = tmp \/ FreshIn(tmp', ghosts.lost, spent)
        /\ file' = file \/ FreshIn(file', ghosts.lost, spent)
    BY <1>4, <2>1, <2>2, Written
  <2> QED
    BY <1>0, <1>1, <1>2, <1>3, <1>5, <2>1, <2>3 DEF Refreshed, Aligned, IsToken, IsFinish
<1>8. CASE RenameStep(c)
  <2>1. /\ call[c].phase = "renaming" /\ call'[c].phase = "setting"
        /\ file' = tmp /\ tmp' = NoTokens
    BY <1>8 DEF RenameStep, InPhase, Goes, Absent
  <2> QED
    BY <1>0, <1>1, <1>2, <1>3, <1>4, <1>5, <2>1 DEF Refreshed, Aligned, IsToken, IsFinish
<1> QED
  BY <1>6, <1>7, <1>8

\* The handle gets tokens the provider takes.
LEMMA SettersRefresh ==
  ASSUME CallsInv, FreshInv, UnsetInv, NEW c \in Calls,
         SetAuthorizedStep(c) \/ SetRefreshedStep(c)
  PROVE  Refreshed(c) /\ Aligned(c)
<1>1. /\ UNCHANGED <<spent, file, tmp, ghosts>> /\ call[c].phase = "setting"
      /\ memory' = [memory EXCEPT ![Handle(c)] = call[c].got]
      /\ \/ /\ IsFinish(c) /\ call'[c].kind = "finish" /\ call'[c].phase = "announcing"
            /\ call'[c].got = call[c].got /\ call'[c].handle = call[c].handle
         \/ IsToken(c) /\ call'[c].kind = "idle"
  BY DEF SetAuthorizedStep, SetRefreshedStep, InPhase, Goes, Stops, IsFinish
<1>2. /\ Handle(c) \in Handles /\ memory'[Handle(c)] = call[c].got
      /\ \A h \in Handles : h = Handle(c) \/ memory'[h] = memory[h]
  BY <1>1, HandlesAre DEF IsFinish, IsToken, CallsInv, TypeOK
<1>3. IsToken(c) => FreshIn(call[c].got, ghosts.lost, spent)
  BY <1>1 DEF FreshInv, Fresh, IsRefreshing
<1>4. IsFinish(c) /\ IsServed(Handle(c)) => FreshIn(call[c].got, ghosts.lost, spent)
  <2>1. ASSUME IsFinish(c), IsServed(Handle(c)) PROVE FreshIn(call[c].got, ghosts.lost, spent)
    <3>1. IsUnset(c)
      BY <1>1, <2>1 DEF IsUnset
    <3>2. call[c].got.refresh \in {0, 1} /\ IsApart(c)
      BY <3>1, UnsetIs DEF UnsetInv
    <3> QED
      BY <2>1, <3>2 DEF FreshIn, IsApart
  <2> QED
    BY <2>1
<1>5. IsUnsaved(c) => IsToken(c)
  BY DEF IsUnsaved, IsToken
<1> QED
  BY <1>1, <1>2, <1>3, <1>4, <1>5 DEF Refreshed, Aligned, IsToken, IsFinish


\* What an exchange brings is new everywhere.
LEMMA ExchangeKeeps ==
  ASSUME CallsInv, FreshInv, UnsetInv, NEW c \in Calls, ExchangeStep(c)
  PROVE  FreshInv' /\ UnsetInv'
<1> DEFINE a == call[c].attempt
<1>1. /\ UNCHANGED <<current, memory, file, tmp, ghosts>>
      /\ call[c].kind = "finish" /\ call[c].phase = "asking" /\ spent[a] = 0
      /\ spent' = [spent EXCEPT ![a] = 1]
      /\ Others(c) /\ call'[c].kind = "finish" /\ call'[c].phase = "opening"
      /\ call'[c].handle = call[c].handle /\ call'[c].got.auth = a
  BY DEF ExchangeStep, IsFinish, InPhase, Goes
<1>2. a \in Attempts /\ a # Nobody
  BY <1>1, CallIs DEF CallOK
<1>3. spent'[a] = 1 /\ \A b \in Attempts \ {a} : spent'[b] = spent[b]
  BY <1>1, <1>2 DEF CallsInv, TypeOK
<1>4. /\ file.auth # a /\ tmp.auth # a
      /\ \A h \in Handles : memory[h].auth # a
      /\ \A d \in Calls : call[d].got.auth # a
  BY <1>1, <1>2 DEF CallsInv, Exchanged
<1>5. \A d \in Calls \ {c} : /\ call'[d].kind = call[d].kind /\ call'[d].phase = call[d].phase
                             /\ call'[d].handle = call[d].handle /\ call'[d].got = call[d].got
  BY <1>1 DEF Others, Alike
<1>6. \A d \in Calls : /\ IsRefreshing(d)' = IsRefreshing(d) /\ IsUnsaved(d)' = IsUnsaved(d)
                       /\ IsToken(d)' = IsToken(d) /\ IsFinish(d)' = IsFinish(d)
                       /\ Handle(d)' = Handle(d)
                       /\ IsToken(d) => call'[d].got = call[d].got /\ call'[d].phase = call[d].phase
  BY <1>1, <1>5 DEF IsRefreshing, IsUnsaved, IsToken, IsFinish, IsStoring, Handle
<1>7. \A h : IsServed(h)' = IsServed(h)
  BY <1>1, <1>6 DEF IsServed
<1>8. ASSUME NEW t, t.auth # a, FreshIn(t, ghosts.lost, spent)
      PROVE  FreshIn(t, ghosts.lost, spent')
  BY <1>3, <1>8 DEF FreshIn
<1>9. FreshInv'
  <2>1. \A d \in Calls : IsRefreshing(d)' => FreshIn(call'[d].got, ghosts.lost, spent')
    BY <1>4, <1>6, <1>8 DEF FreshInv, Fresh, IsRefreshing
  <2>2. \A h \in Handles : IsServed(h)' =>
           FreshIn(memory[h], ghosts.lost, spent') \/ \E d \in Calls : IsUnsaved(d)' /\ Handle(d)' = h
    BY <1>4, <1>6, <1>7, <1>8 DEF FreshInv, Fresh
  <2>3. ASSUME NEW d \in Calls, NEW b, NEW phases, Rotating(d, b, phases)
        PROVE  IsUnsaved(d)' /\ call'[d].got.auth = b /\ call'[d].phase \in phases
    <3>1. IsUnsaved(d) /\ IsToken(d) /\ call[d].got.auth = b /\ call[d].phase \in phases
      BY <2>3 DEF Rotating, IsUnsaved, IsToken
    <3> QED
      BY <1>6, <3>1
  <2>4. \/ FreshIn(file, ghosts.lost, spent')
        \/ \E d \in Calls : /\ IsUnsaved(d)' /\ call'[d].got.auth = file.auth
                            /\ call'[d].phase \in {"opening", "filling", "renaming"}
    BY <1>4, <1>8, <2>3 DEF FreshInv, Fresh
  <2>5. \/ FreshIn(tmp, ghosts.lost, spent')
        \/ \E d \in Calls : /\ IsUnsaved(d)' /\ call'[d].got.auth = tmp.auth
                            /\ call'[d].phase \in {"opening"}
    BY <1>4, <1>8, <2>3 DEF FreshInv, Fresh
  <2> QED
    BY <1>1, <2>1, <2>2, <2>4, <2>5 DEF FreshInv, Fresh, Rotating
<1>10. ASSUME NEW d \in Calls, IsUnset(d)' PROVE IsApart(d)'
  <2>1. CASE d = c
    <3>1. \A h \in 1..Handle(c) : h \in Handles
      <4>1. Handle(c) \in 1..HandlesMax /\ HandlesMax \in Nat
        BY <1>1, HandlesAre DEF Handles
      <4> QED
        BY <4>1 DEF Handles
    <3> QED
      BY <1>1, <1>3, <1>4, <1>6, <2>1, <3>1 DEF IsApart, IsNowhereElse
  <2>2. CASE d # c
    <3>1. IsUnset(d) /\ call'[d].got = call[d].got /\ call'[d].phase = call[d].phase
      BY <1>5, <1>10, <2>2 DEF IsUnset, IsFinish
    <3>2. /\ IsApart(d) /\ call[d].got.auth \in Attempts \ {a}
      BY <1>4, <3>1, UnsetIs DEF UnsetInv
    <3>3. spent'[call[d].got.auth] = spent[call[d].got.auth]
      BY <1>3, <3>2
    <3> QED
      BY <1>1, <1>6, <1>7, <3>1, <3>2, <3>3 DEF IsApart, IsNowhereElse
  <2> QED
    BY <2>1, <2>2
<1>11. UnsetInv'
  <2>1. ASSUME NEW d \in Calls, NEW e \in Calls, IsFinish(d), IsFinish(e), d # e,
               call'[d].got.auth = call'[e].got.auth
        PROVE  call'[d].got.auth = Nobody
    BY <1>1, <1>4, <1>5, <2>1 DEF UnsetInv
  <2> QED
    BY <1>6, <1>10, <2>1 DEF UnsetInv
<1> QED
  BY <1>9, <1>11

\* A rotation: with all who refresh at the registered handle nobody else has
\* the token that was used, and what was not stored yet is not refreshed.
LEMMA RefreshKeeps ==
  ASSUME CallsInv, FreshInv, UnsetInv, NEW c \in Calls, NEW n \in Nat, RefreshStep(c, n)
  PROVE  FreshInv' /\ UnsetInv'
<1> DEFINE t == call[c].got
           a == call[c].got.auth
           lost == ghosts'.lost
<1>1. /\ UNCHANGED <<current, memory, file, tmp>>
      /\ call[c].kind = "token" /\ call[c].phase = "asking" /\ t.refresh = spent[a]
      /\ n \in {t.refresh, t.refresh + 1}
      /\ spent' = [spent EXCEPT ![a] = n]
      /\ Others(c) /\ call'[c].kind = "token" /\ call'[c].phase = "opening"
      /\ call'[c].handle = call[c].handle
      /\ call'[c].got = [auth |-> a, refresh |-> n]
      /\ ghosts.lost \subseteq lost
      /\ IsAside(c) /\ n # t.refresh => a \in lost
  BY DEF RefreshStep, IsToken, InPhase, Goes
<1>2. /\ CallOK(call[c]) /\ IsLocked(c) /\ t \in Tokens /\ Handle(c) \in Handles
      /\ a \in Attempts /\ t.refresh \in Nat /\ Nobody \notin Calls
      /\ memory[Handle(c)] = t /\ holder[Handle(c)] = c
  BY <1>1, CallIs, HandlesAre DEF CallOK, IsLocked, IsRefreshing, IsToken
<1>3. spent'[a] = n /\ \A b \in Attempts \ {a} : spent'[b] = spent[b]
  BY <1>1, <1>2 DEF CallsInv, TypeOK
<1>4. \A d \in Calls \ {c} : /\ call'[d].kind = call[d].kind /\ call'[d].phase = call[d].phase
                             /\ call'[d].handle = call[d].handle /\ call'[d].got = call[d].got
  BY <1>1 DEF Others, Alike
<1>5. ~IsUnsaved(c) /\ IsToken(c) /\ IsRefreshing(c)
  BY <1>1 DEF IsUnsaved, IsStoring, StoringPhases, IsToken, IsRefreshing
<1>6. \A d \in Calls : /\ IsRefreshing(d)' = IsRefreshing(d) /\ IsToken(d)' = IsToken(d)
                       /\ IsFinish(d)' = IsFinish(d) /\ Handle(d)' = Handle(d)
                       /\ IsUnsaved(d) => IsUnsaved(d)' /\ d # c
                       /\ IsFinish(d) => d # c
                       /\ d # c => call'[d].got = call[d].got /\ call'[d].phase = call[d].phase
  BY <1>1, <1>4, <1>5 DEF IsRefreshing, IsUnsaved, IsToken, IsFinish, IsStoring, Handle
<1>7. \A h : IsServed(h)' = IsServed(h)
  BY <1>1, <1>6 DEF IsServed
<1>8. n # t.refresh => IsUnsaved(c)'
  <2>1. n # t.refresh => call'[c].got # memory'[Handle(c)]
    BY <1>1, <1>2
  <2> QED
    BY <1>1, <2>1 DEF IsUnsaved, IsStoring, StoringPhases, Handle
<1>9. call'[c].got.auth = a /\ FreshIn(call'[c].got, lost, spent')
  BY <1>1, <1>3 DEF FreshIn
<1>10. ASSUME NEW x, FreshIn(x, ghosts.lost, spent), x.auth # a \/ n = t.refresh \/ IsAside(c)
       PROVE  FreshIn(x, lost, spent')
  <2>1. FreshIn(x, lost, spent)
    BY <1>1, <1>10, FreshAges
  <2>2. CASE x.auth # a
    BY <1>3, <2>1, <2>2 DEF FreshIn
  <2>3. CASE n = t.refresh
    BY <1>1, <1>3, <2>1, <2>3 DEF FreshIn
  <2>4. CASE IsAside(c) /\ n # t.refresh /\ x.auth = a
    BY <1>1, <2>4, NobodysAreFresh
  <2> QED
    BY <1>10, <2>2, <2>3, <2>4
\* Beside nobody: c is the only one that refreshes.
<1>11. ASSUME ~IsAside(c)
       PROVE  /\ Handle(c) = current
              /\ \A d \in Calls : IsToken(d) => Handle(d) = current
              /\ \A d \in Calls : IsRefreshing(d) => d = c
              /\ \A d \in Calls : ~IsUnsaved(d)
              /\ \A h \in Handles : IsServed(h) => h = current
  <2>1. Handle(c) = current /\ \A d \in Calls : IsToken(d) => Handle(d) = current
    BY <1>11 DEF IsAside, IsToken
  <2>2. ASSUME NEW d \in Calls, IsRefreshing(d) PROVE d = c
    <3>1. IsLocked(d) /\ IsToken(d)
      BY <2>2, CallIs DEF IsRefreshing
    <3> QED
      BY <1>2, <2>1, <2>2, <3>1 DEF IsLocked
  <2> QED
    BY <1>5, <2>1, <2>2, UnsavedIs DEF IsServed
<1>12. \A d \in Calls : IsRefreshing(d)' => FreshIn(call'[d].got, lost, spent')
  <2>1. ASSUME NEW d \in Calls, IsRefreshing(d), d # c PROVE FreshIn(call'[d].got, lost, spent')
    <3>1. FreshIn(call[d].got, ghosts.lost, spent) /\ IsAside(c)
      BY <1>11, <2>1 DEF FreshInv, Fresh
    <3> QED
      BY <1>6, <1>10, <2>1, <3>1
  <2> QED
    BY <1>6, <1>9, <2>1
<1>13. ASSUME NEW h \in Handles, IsServed(h)
       PROVE  FreshIn(memory[h], lost, spent') \/ \E d \in Calls : IsUnsaved(d)' /\ Handle(d)' = h
  <2>1. CASE n = t.refresh \/ IsAside(c)
    BY <1>6, <1>10, <1>13, <2>1 DEF FreshInv, Fresh
  <2>2. CASE n # t.refresh /\ ~IsAside(c)
    BY <1>6, <1>8, <1>11, <1>13, <2>2
  <2> QED
    BY <2>1, <2>2
<1>14. ASSUME NEW x, NEW phases, "opening" \in phases,
              FreshIn(x, ghosts.lost, spent) \/ \E d \in Calls : Rotating(d, x.auth, phases)
       PROVE  \/ FreshIn(x, lost, spent')
              \/ \E d \in Calls : IsUnsaved(d)' /\ call'[d].got.auth = x.auth /\ call'[d].phase \in phases
  <2>1. ASSUME NEW d \in Calls, Rotating(d, x.auth, phases)
        PROVE  IsUnsaved(d)' /\ call'[d].got.auth = x.auth /\ call'[d].phase \in phases
    BY <1>6, <2>1 DEF Rotating
  <2>2. CASE FreshIn(x, ghosts.lost, spent)
    <3>1. CASE x.auth # a \/ n = t.refresh \/ IsAside(c)
      BY <1>10, <2>2, <3>1
    <3>2. CASE x.auth = a /\ n # t.refresh
      BY <1>1, <1>8, <1>9, <1>14, <3>2
    <3> QED
      BY <3>1, <3>2
  <2> QED
    BY <1>14, <2>1, <2>2
<1>15. FreshInv'
  <2>1. /\ \/ FreshIn(file, lost, spent')
           \/ \E d \in Calls : /\ IsUnsaved(d)' /\ call'[d].got.auth = file.auth
                               /\ call'[d].phase \in {"opening", "filling", "renaming"}
        /\ \/ FreshIn(tmp, lost, spent')
           \/ \E d \in Calls : /\ IsUnsaved(d)' /\ call'[d].got.auth = tmp.auth
                               /\ call'[d].phase \in {"opening"}
    <3>1. /\ Fresh(file) \/ \E d \in Calls : Rotating(d, file.auth, {"opening", "filling", "renaming"})
          /\ Fresh(tmp) \/ \E d \in Calls : Rotating(d, tmp.auth, {"opening"})
      BY DEF FreshInv
    <3>2. "opening" \in {"opening", "filling", "renaming"} /\ "opening" \in {"opening"}
      OBVIOUS
    <3> HIDE DEF lost
    <3> QED
      BY <1>14, <3>1, <3>2 DEF Fresh
  <2> QED
    BY <1>1, <1>7, <1>12, <1>13, <2>1 DEF FreshInv, Fresh, Rotating
<1>16. ASSUME NEW d \in Calls, IsUnset(d)' PROVE IsApart(d)'
  <2> DEFINE b == call[d].got.auth
  <2>1. d # c /\ IsUnset(d) /\ call'[d].got = call[d].got /\ call'[d].phase = call[d].phase
    BY <1>4, <1>6, <1>16 DEF IsUnset, IsFinish
  <2>2. IsApart(d) /\ b \in Attempts /\ Handle(d) \in Nat
    BY <2>1, UnsetIs DEF UnsetInv
  <2>3. \A e \in Calls : call'[e].got.auth = call[e].got.auth
    BY <1>6, <1>9
  <2>4. call[d].phase \in {"opening", "filling"} => IsNowhereElse(d)' /\ spent'[b] = 1
    <3>1. ASSUME call[d].phase \in {"opening", "filling"}
          PROVE  IsNowhereElse(d) /\ spent'[b] = 1
      <4>1. IsNowhereElse(d) /\ spent[b] = 1
        BY <2>2, <3>1 DEF IsApart
      <4>2. b # a
        BY <1>5, <4>1 DEF IsNowhereElse
      <4> QED
        BY <1>3, <2>2, <4>1, <4>2
    <3> QED
      BY <1>1, <1>6, <2>1, <2>3, <3>1 DEF IsNowhereElse
  <2>5. IsServed(Handle(d)) /\ b \notin lost => spent'[b] = 1
    <3>1. ASSUME IsServed(Handle(d)), b \notin lost PROVE spent'[b] = 1
      <4>1. spent[b] = 1
        BY <1>1, <2>2, <3>1 DEF IsApart
      <4>2. CASE b # a
        BY <1>3, <2>2, <4>1, <4>2
      <4>3. CASE b = a /\ n = t.refresh
        BY <1>1, <1>3, <4>1, <4>3
      <4>4. CASE b = a /\ n # t.refresh
        <5>1. ~IsAside(c)
          BY <1>1, <3>1, <4>4
        <5>2. Handle(c) = current /\ Handle(d) = current
          BY <1>11, <2>1, <3>1, <5>1, UnsetIs
        <5> QED
          BY <1>5, <2>2, <4>4, <5>2 DEF IsApart
      <4> QED
        BY <4>2, <4>3, <4>4
    <3> QED
      BY <3>1
  <2> QED
    BY <1>1, <1>6, <1>7, <2>1, <2>2, <2>3, <2>4, <2>5 DEF IsApart
<1>17. UnsetInv'
  <2>1. ASSUME NEW d \in Calls, NEW e \in Calls, IsFinish(d)', IsFinish(e)',
               call'[d].got.auth = call'[e].got.auth
        PROVE  d = e \/ call'[d].got.auth = Nobody
    <3>1. IsFinish(d) /\ IsFinish(e) /\ call'[d].got = call[d].got /\ call'[e].got = call[e].got
      BY <1>6, <2>1
    <3> QED
      BY <2>1, <3>1 DEF UnsetInv
  <2> QED
    BY <1>16, <2>1 DEF UnsetInv
<1> QED
  BY <1>15, <1>17


\* Tokens on their way to the file are lost with a load, and so are fresh
\* whatever is loaded.
LEMMA LoadedIsFresh ==
  ASSUME CallsInv, FreshInv
  PROVE  /\ FreshIn(Parsed(file), ghosts.lost \cup Unfiled, spent)
         /\ \A d \in Calls : IsUnsaved(d) /\ call[d].phase # "setting" => call[d].got.auth \in Unfiled
<1>1. ASSUME NEW d \in Calls, IsUnsaved(d), call[d].phase # "setting"
      PROVE  call[d].got.auth \in Unfiled
  BY <1>1 DEF Unfiled, UnsavedOf, InPhase
<1>2. Parsed(file).auth = file.auth /\ (Parsed(file) = file \/ Parsed(file).auth = Nobody)
  BY ParsedIs, Shapes DEF CallsInv
<1>3. FreshIn(file, ghosts.lost \cup Unfiled, spent)
  <2>1. CASE Fresh(file)
    BY <2>1, FreshAges DEF Fresh
  <2>2. ASSUME NEW d \in Calls, Rotating(d, file.auth, {"opening", "filling", "renaming"})
        PROVE  FreshIn(file, ghosts.lost \cup Unfiled, spent)
    BY <1>1, <2>2, NobodysAreFresh DEF Rotating
  <2> QED
    BY <2>1, <2>2 DEF FreshInv
<1>4. FreshIn(Parsed(file), ghosts.lost \cup Unfiled, spent)
  BY <1>2, <1>3, NobodysAreFresh
<1> QED
  BY <1>1, <1>4

\* A remount loads fresh tokens, unless what was on its way is lost.
LEMMA RemountRefreshes ==
  ASSUME CallsInv, FreshInv, UnsetInv, Remount
  PROVE  FreshInv' /\ UnsetInv'
<1>1. /\ current' = current + 1 /\ UNCHANGED <<spent, file, tmp, call>>
      /\ memory'[current + 1] = Parsed(file)
      /\ \A h \in 1..current : memory'[h] = memory[h]
      /\ \A h \in Handles \ {current + 1} : memory'[h] = memory[h]
      /\ ghosts'.lost = ghosts.lost \cup Unfiled
  BY RemountKeeps DEF Remount, diskVars
<1>2. /\ current \in Nat
      /\ \A d \in Calls : call[d].kind # "idle" => Handle(d) \in 1..current /\ Handle(d) # current + 1
  BY HandlesAre DEF CallsInv, Registered, Handle
<1>3. \A d \in Calls : /\ IsRefreshing(d)' = IsRefreshing(d) /\ IsToken(d)' = IsToken(d)
                       /\ IsFinish(d)' = IsFinish(d) /\ Handle(d)' = Handle(d)
                       /\ IsUnset(d)' = IsUnset(d)
  BY <1>1 DEF IsRefreshing, IsToken, IsFinish, IsUnset, Handle
<1>4. \A d \in Calls : IsUnsaved(d)' = IsUnsaved(d)
  <2>1. \A d \in Calls : call[d].kind = "token" => memory'[Handle(d)] = memory[Handle(d)]
    BY <1>1, <1>2
  <2> QED
    BY <1>1, <2>1 DEF IsUnsaved, IsStoring, Handle
<1>5. \A t : FreshIn(t, ghosts.lost, spent) => FreshIn(t, ghosts.lost \cup Unfiled, spent)
  BY FreshAges
<1>6. ASSUME NEW h \in Handles, h # current + 1, IsServed(h)' PROVE IsServed(h)
  BY <1>1, <1>3, <1>6 DEF IsServed
<1>7. FreshInv'
  <2>1. \A d \in Calls : IsRefreshing(d)' => FreshIn(call'[d].got, ghosts'.lost, spent')
    BY <1>1, <1>3, <1>5 DEF FreshInv, Fresh
  <2>2. ASSUME NEW h \in Handles, IsServed(h)'
        PROVE  \/ FreshIn(memory'[h], ghosts'.lost, spent')
               \/ \E d \in Calls : IsUnsaved(d)' /\ Handle(d)' = h
    <3>1. CASE h = current + 1
      BY <1>1, <3>1, LoadedIsFresh
    <3>2. CASE h # current + 1
      BY <1>1, <1>3, <1>4, <1>5, <1>6, <2>2, <3>2 DEF FreshInv, Fresh
    <3> QED
      BY <3>1, <3>2
  <2>3. \/ FreshIn(file', ghosts'.lost, spent')
        \/ \E d \in Calls : /\ IsUnsaved(d)' /\ call'[d].got.auth = file'.auth
                            /\ call'[d].phase \in {"opening", "filling", "renaming"}
    BY <1>1, <1>4, <1>5 DEF FreshInv, Fresh, Rotating
  <2>4. \/ FreshIn(tmp', ghosts'.lost, spent')
        \/ \E d \in Calls : /\ IsUnsaved(d)' /\ call'[d].got.auth = tmp'.auth
                            /\ call'[d].phase \in {"opening"}
    BY <1>1, <1>4, <1>5 DEF FreshInv, Fresh, Rotating
  <2> QED
    BY <2>1, <2>2, <2>3, <2>4 DEF FreshInv, Fresh, Rotating
<1>8. ASSUME NEW d \in Calls, IsUnset(d) PROVE IsApart(d)'
  <2> DEFINE a == call[d].got.auth
  <2>1. /\ IsApart(d) /\ a # Nobody /\ Handle(d) \in 1..current /\ Handle(d) \in Handles
        /\ Handle(d) # current + 1 /\ 1..Handle(d) \subseteq 1..current
    BY <1>2, <1>8, UnsetIs DEF UnsetInv, IsFinish
  <2>2. call[d].phase \in {"opening", "filling"} => IsNowhereElse(d)'
    <3>1. ASSUME IsNowhereElse(d) PROVE IsNowhereElse(d)'
      <4>1. Parsed(file).auth # a
        BY <3>1, ParsedIs DEF IsNowhereElse, CallsInv
      <4>2. \A h \in Handles : memory'[h].auth # a
        BY <1>1, <3>1, <4>1 DEF IsNowhereElse
      <4> QED
        BY <1>1, <1>3, <3>1, <4>2 DEF IsNowhereElse
    <3> QED
      BY <2>1, <3>1 DEF IsApart
  <2>3. IsServed(Handle(d))' => IsServed(Handle(d))
    BY <1>1, <1>3, <2>1 DEF IsServed
  <2>4. \A h \in 1..Handle(d) : memory'[h].auth # a
    BY <1>1, <2>1 DEF IsApart
  <2> QED
    BY <1>1, <1>3, <2>1, <2>2, <2>3, <2>4 DEF IsApart
<1>9. UnsetInv'
  BY <1>1, <1>3, <1>8 DEF UnsetInv
<1> QED
  BY <1>7, <1>9

\* So does a restart.
LEMMA RestartRefreshes ==
  ASSUME CallsInv, FreshInv, Restart
  PROVE  FreshInv' /\ UnsetInv'
<1>1. /\ UNCHANGED <<spent, current, file>> /\ tmp' = NoTokens
      /\ memory'[current] = Parsed(file)
      /\ ghosts'.lost = ghosts.lost \cup Unfiled
      /\ \A d \in Calls : call'[d].kind = "idle"
  BY RestartKeeps, Shapes DEF Restart, Absent
<1>2. /\ FreshIn(Parsed(file), ghosts'.lost, spent')
      /\ FreshIn(NoTokens, ghosts'.lost, spent')
  BY <1>1, LoadedIsFresh, NobodysAreFresh, Shapes
<1>3. \/ FreshIn(file, ghosts'.lost, spent')
  <2>1. CASE Fresh(file)
    BY <1>1, <2>1, FreshAges DEF Fresh
  <2>2. ASSUME NEW d \in Calls, Rotating(d, file.auth, {"opening", "filling", "renaming"})
        PROVE  FreshIn(file, ghosts'.lost, spent')
    <3>1. IsUnsaved(d) /\ call[d].phase # "setting" /\ call[d].got.auth = file.auth
      BY <2>2 DEF Rotating
    <3> QED
      BY <1>1, <3>1, LoadedIsFresh, NobodysAreFresh
  <2> QED
    BY <2>1, <2>2 DEF FreshInv
<1>4. \A h \in Handles : IsServed(h)' => h = current
  BY <1>1 DEF IsServed, IsToken
<1>5. \A d \in Calls : ~IsRefreshing(d)' /\ ~IsFinish(d)' /\ ~IsUnset(d)'
  BY <1>1 DEF IsRefreshing, IsToken, IsFinish, IsUnset
<1> QED
  BY <1>1, <1>2, <1>3, <1>4, <1>5 DEF FreshInv, Fresh, UnsetInv


-----------------------------------------------------------------------------
(* The theorems *)

LEMMA FreshInvStep ==
  ASSUME CallsInv, FreshInv, UnsetInv, [Next]_vars
  PROVE  FreshInv' /\ UnsetInv'
<1>1. ASSUME UNCHANGED <<spent, current, memory, file, tmp, call, ghosts>>
      PROVE  FreshInv' /\ UnsetInv'
  <2>1. /\ \A c \in Calls : /\ IsRefreshing(c)' = IsRefreshing(c) /\ IsUnsaved(c)' = IsUnsaved(c)
                            /\ IsToken(c)' = IsToken(c) /\ IsFinish(c)' = IsFinish(c)
                            /\ IsUnset(c)' = IsUnset(c) /\ Handle(c)' = Handle(c)
        /\ \A h : IsServed(h)' = IsServed(h)
    BY <1>1 DEF IsRefreshing, IsUnsaved, IsToken, IsFinish, IsUnset, Handle, IsStoring, IsServed
  <2>2. FreshInv'
    BY <1>1, <2>1 DEF FreshInv, Fresh, Rotating
  <2>3. ASSUME NEW c \in Calls, IsApart(c) PROVE IsApart(c)'
    BY <1>1, <2>1, <2>3 DEF IsApart, IsNowhereElse
  <2>4. UnsetInv'
    BY <1>1, <2>1, <2>3 DEF UnsetInv
  <2> QED
    BY <2>2, <2>4
<1>2. CASE QuietStep \/ UNCHANGED vars
  BY <1>1, <1>2 DEF QuietStep, vars
<1>3. ASSUME NEW c \in Calls, CallStep(c) PROVE FreshInv' /\ UnsetInv'
  <2>1. CASE ExchangeStep(c)
    BY <2>1, ExchangeKeeps
  <2>2. CASE \E n \in Nat : RefreshStep(c, n)
    BY <2>2, RefreshKeeps
  <2>3. CASE Refreshed(c) /\ Aligned(c)
    BY <1>3, <2>3, CallStepIsTame, RefreshedKeeps, AlignedKeeps
  <2> QED
    BY <1>3, <2>1, <2>2, <2>3, QuietersRefresh, WritersRefresh, SettersRefresh DEF CallStep
<1> QED
  BY <1>2, <1>3, NextDoes, RemountRefreshes, RestartRefreshes

\* A refusal would be of a token that is not fresh.
LEMMA RefusedStep ==
  ASSUME CallsInv, FreshInv, RefusedOnlyIfLost, [Next]_vars
  PROVE  RefusedOnlyIfLost'
<1>1. ASSUME NEW c \in Calls, NEW a, IsRefused(c, a) PROVE FALSE
  <2>1. IsToken(c) /\ call[c].phase = "asking" /\ CallOK(call[c]) /\ a = call[c].got.auth
        /\ call[c].got \in Tokens
    BY <1>1, CallIs DEF IsRefused, InPhase
  <2>2. a \in Attempts /\ call[c].got.refresh # 0
    BY <2>1 DEF CallOK, IsToken, Tokens
  <2>3. Fresh(call[c].got)
    BY <2>1 DEF FreshInv, IsRefreshing
  <2> QED
    BY <1>1, <2>1, <2>2, <2>3 DEF IsRefused, Fresh, FreshIn
<1>2. ASSUME NEW c \in Calls, CallStep(c) PROVE ghosts'.refused = {}
  <2>1. CASE EndStep(c)
    BY <1>1, <2>1 DEF EndStep, RefusedOnlyIfLost
  <2>2. CASE TakeStep(c)
    <3>1. ghosts \in [lost : SUBSET Attempts, refused : SUBSET Attempts, forgotten : SUBSET Attempts]
      BY DEF CallsInv, TypeOK
    <3> QED
      BY <2>2, <3>1 DEF TakeStep, RefusedOnlyIfLost
  <2>3. CASE ghosts'.refused = ghosts.refused
    BY <2>3 DEF RefusedOnlyIfLost
  <2> QED
    BY <1>2, <2>1, <2>2, <2>3
       DEF CallStep, StartStep, ExchangeStep, RefreshStep, OpenStep, FillStep, RenameStep,
           SetAuthorizedStep, SetRefreshedStep, LockStep, RemoveStep
<1>3. Remount \/ Restart => ghosts'.refused = ghosts.refused
  BY RemountKeeps, RestartKeeps
<1>4. QuietStep \/ UNCHANGED vars => ghosts'.refused = ghosts.refused
  BY DEF QuietStep, vars
<1> QED
  BY <1>2, <1>3, <1>4, NextDoes DEF RefusedOnlyIfLost

\* With nothing authorized yet all is in order.
LEMMA GrantsInit ==
  ASSUME Init
  PROVE  IInv
<1>1. /\ 1 \in Handles /\ Nobody \notin Calls \cup Attempts
  BY GrantsAssumption DEF Handles
<1>2. Unmade \in AttemptRecords /\ ~Unmade.held /\ ~Unmade.listening
  BY DEF Unmade, AttemptRecords
<1>3. \A c \in Calls : call[c] = Idle /\ call[c].kind = "idle" /\ call[c].phase = "idle"
                       /\ call[c].got = NoTokens
  BY Shapes DEF Init
<1>4. /\ current = 1 /\ file = NoTokens /\ tmp = NoTokens /\ told = Nobody /\ crossed = FALSE
      /\ ghosts = NoGhosts
      /\ spent = [a \in Attempts |-> 0] /\ attempt = [a \in Attempts |-> Unmade]
      /\ memory = [h \in Handles |-> NoTokens] /\ holder = [h \in Handles |-> Nobody]
      /\ call = [c \in Calls |-> Idle]
  BY DEF Init, Absent
<1>5. TypeOK
  BY <1>1, <1>2, <1>4, Shapes DEF TypeOK, NoGhosts
<1>6. CallsInv
  <2>1. \A c \in Calls : CallOK(call[c])
    BY <1>3, Shapes
  <2>2. (\A h \in Handles : Sound(memory[h])) /\ IsContent(file) /\ IsContent(tmp)
    BY <1>4 DEF Sound, IsContent
  <2>3. Registered /\ Locked /\ TmpInUse
    BY <1>2, <1>3, <1>4 DEF Registered, Locked, IsLocked, IsRefreshing, IsToken, TmpInUse, Absent
  <2>4. Exchanged
    BY <1>1, <1>3, <1>4, Shapes DEF Exchanged
  <2> QED
    BY <1>5, <2>1, <2>2, <2>3, <2>4 DEF CallsInv
<1>7. StoreInv
  <2>1. Parsed(file) = NoTokens /\ memory[current] = NoTokens
    BY <1>1, <1>4, Shapes DEF Parsed
  <2>2. FileAgrees /\ ToldAgrees
    BY <1>4, <2>1, Shapes DEF FileAgrees, ToldAgrees
  <2>3. ~Crossing /\ \A c \in Calls : IsStoredFor(c)
    BY <1>3 DEF Crossing, IsStoring, StoringPhases, IsStoredFor, InPhase
  <2> QED
    BY <2>2, <2>3 DEF StoreInv, Undisturbed
<1>8. SoleInv /\ ForgottenInv /\ RefusedOnlyIfLost
  BY <1>3, <1>4 DEF SoleInv, InPhase, ForgottenInv, RefusedOnlyIfLost, NoGhosts
<1>9. FreshInv /\ UnsetInv
  <2>1. FreshIn(NoTokens, ghosts.lost, spent)
    BY Shapes, NobodysAreFresh
  <2> QED
    BY <1>3, <1>4, <2>1 DEF FreshInv, Fresh, UnsetInv, IsRefreshing, IsToken, IsFinish, IsUnset
<1> QED
  BY <1>6, <1>7, <1>8, <1>9 DEF IInv

\* The calls hold what their phase says and the lock, who stores undisturbed
\* is alone, who is the sole to have what it revokes stays so, what is revoked
\* is nowhere to be loaded from, and what is stored can be refreshed; in every
\* state.
THEOREM GrantIsInOrder == Spec => []IInv
<1>1. Init => IInv
  BY GrantsInit
<1>2. IInv /\ [Next]_vars => IInv'
  <2> SUFFICES ASSUME IInv, [Next]_vars PROVE IInv'
    OBVIOUS
  <2>1. CallsInv /\ StoreInv /\ SoleInv /\ ForgottenInv /\ FreshInv /\ UnsetInv /\ RefusedOnlyIfLost
    BY DEF IInv
  <2>2. CallsInv' /\ StoreInv' /\ SoleInv' /\ ForgottenInv'
    BY <2>1, CallsInvStep, StoreInvStep, SoleInvStep, ForgottenInvStep
  <2>3. FreshInv' /\ UnsetInv' /\ RefusedOnlyIfLost'
    BY <2>1, FreshInvStep, RefusedStep
  <2> QED
    BY <2>2, <2>3 DEF IInv
<1> QED
  BY <1>1, <1>2, PTL DEF Spec

\* However calls overlap, the provider is never shown a refresh token that it
\* has replaced, unless its successor was lost with a dropped or failed call,
\* a crash or a replaced handle.
THEOREM NoTokenIsUsedTwice == Spec => []RefusedOnlyIfLost
<1>1. IInv => RefusedOnlyIfLost
  BY DEF IInv
<1> QED
  BY <1>1, GrantIsInOrder, PTL

\* A revocation that was the sole to have an authorization when it removed
\* the file, whichever calls waited for its lock and whatever crossed before,
\* leaves it neither on file nor in the registered handle, and nothing brings
\* it back.  IsElsewhere says who else may have it then: a call that works on
\* a replaced handle, a finish that is not over, the new handle of one that
\* was replaced, and a temporary file about to be renamed.
THEOREM RevokedIsGone == Spec => []RevokedStaysRevoked
<1>1. IInv => RevokedStaysRevoked
  BY DEF IInv, ForgottenInv, RevokedStaysRevoked
<1> QED
  BY <1>1, GrantIsInOrder, PTL

\* Whenever nothing is being stored, the file, the handle and the listeners
\* have one authorization, unless, since the last load, a finish stored while
\* another call did, a call stored for a replaced handle, or a call was dropped
\* between the file and the handle.
THEOREM PlacesAgree == Spec => []StoresAgree
<1>1. IInv => StoresAgree
  BY UndisturbedAgree DEF IInv
<1> QED
  BY <1>1, GrantIsInOrder, PTL
=============================================================================
