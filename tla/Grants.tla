------------------------------- MODULE Grants -------------------------------
(***************************************************************************)
(* One OAuth grant of a node: inseam-plugins/src/oauth.                    *)
(*                                                                         *)
(* The owner's authorizations are attempts, completed by a loopback        *)
(* listener or by a transport that delivers the browser's return; each     *)
(* exchanges its code and stores the tokens.  Consumers ask the handle for *)
(* a live token, which refreshes it under the handle's lock; the owner may *)
(* revoke the grant.  The tokens are in the handle's memory and in a       *)
(* credential file, and listeners are told whose they are.  Calls overlap, *)
(* fail and are dropped; the process crashes; the plugin that registered   *)
(* the grant is remounted, with a new handle loaded from the file.         *)
(***************************************************************************)
EXTENDS Naturals, FiniteSets

CONSTANTS Calls,        \* the calls there can be at once
          MayBe,        \* bound: what each of them may do
          Attempts,     \* the authorizations the owner ever starts
          Redirects,    \* bound: how the browser may come back from each of them
          AttemptsMax,  \* ATTEMPTS_MAX
          Rotations,    \* bound: how often the provider replaces the refresh token of each
          HandlesMax,   \* bound: how often the grant is registered
          Nobody

Kinds == {"finish", "token", "revoke"}

ASSUME GrantsAssumption ==
    /\ MayBe \in [Calls -> SUBSET Kinds]
    /\ Redirects \in [Attempts -> SUBSET {"loopback", "external"}]
    /\ AttemptsMax \in Nat \ {0} /\ Rotations \in [Attempts -> Nat] /\ HandlesMax \in Nat \ {0}
    /\ Nobody \notin Calls \cup Attempts

VARIABLES spent,    \* the provider: the refresh token it takes of each authorization
          attempt,  \* the service: the attempts
          current,  \* the registry: the handle that is registered
          memory,   \* the tokens each handle holds
          holder,   \* the call that holds each handle's lock
          file,     \* the credential file
          tmp,      \* its temporary file
          told,     \* whose grant the listeners were told it is
          call,     \* the calls under way
          ghosts,   \* what has gone wrong, and what was revoked
          crossed   \* whether stores crossed one another since the last load

serviceVars == <<attempt, current>>
handleVars  == <<memory, holder>>
diskVars    == <<file, tmp>>
vars == <<spent, attempt, current, memory, holder, file, tmp, told, call, ghosts, crossed>>

Handles == 1..HandlesMax

\* Tokens are known by the authorization they come from and the number of
\* their refresh token (none: 0).  A file that does not parse is Half.
NoTokens == [auth |-> Nobody, refresh |-> 0]
Half     == [auth |-> Nobody, refresh |-> 1]
Absent   == NoTokens

\* read_tokens: what does not parse counts as absent.
Parsed(content) == IF content = Half THEN NoTokens ELSE content

Unmade == [held |-> FALSE, listening |-> FALSE, handle |-> 0, resolved |-> FALSE]

\* detached: the listener's task works on it, not a caller who may leave it;
\* sole: a revocation that removed the file of what nobody else had.
Idle == [kind |-> "idle", phase |-> "idle", handle |-> 0, attempt |-> Nobody,
         got |-> NoTokens, fd |-> "none", detached |-> FALSE, sole |-> FALSE]

\* lost: authorizations whose newest tokens got lost on the way to the
\* handle; refused: the others whose refresh the provider refused; forgotten:
\* those revoked by calls that were the sole to have them.
NoGhosts == [lost |-> {}, refused |-> {}, forgotten |-> {}]

-----------------------------------------------------------------------------
(* Calls *)

IsFree(c, kind) == call[c] = Idle /\ kind \in MayBe[c]

InPhase(c, phase) == call[c].phase = phase

To(c, phase) == [call EXCEPT ![c].phase = phase]

Ended(c) == [call EXCEPT ![c] = Idle]

Handle(c) == call[c].handle

Released(c) == [h \in Handles |-> IF holder[h] = c THEN Nobody ELSE holder[h]]

\* send_if_modified: the first outcome stays, whichever it is.
Resolved(a) == [attempt EXCEPT ![a].resolved = TRUE]

\* A finish that ends resolves its attempt.
Concluded(c) == IF call[c].kind = "finish" THEN Resolved(call[c].attempt) ELSE attempt

StoringPhases == {"opening", "filling", "renaming", "setting", "taking", "announcing"}

IsStoring(c) == call[c].phase \in StoringPhases

\* The provider has replaced the refresh token and the handle has not.
IsUnsaved(c) ==
    /\ call[c].kind = "token" /\ IsStoring(c)
    /\ call[c].got # memory[Handle(c)]

UnsavedOf(cs) == {call[c].got.auth : c \in {d \in cs : IsUnsaved(d)}}

-----------------------------------------------------------------------------
(* The owner's authorizations: authorize, complete_authorization, the loopback *)

Held == {a \in Attempts : attempt[a].held}

\* admit: attempts past their deadline go, whether they ended or not; one
\* that ended counts until then.
Authorize(a, redirect) ==
    /\ attempt[a] = Unmade
    /\ \E kept \in SUBSET Held :
          LET room == Cardinality(kept) < AttemptsMax
              new  == [Unmade EXCEPT !.held = TRUE, !.handle = current,
                                     !.listening = redirect = "loopback"]
          IN  attempt' = [b \in Attempts |->
                            IF b = a /\ room THEN new
                            ELSE [attempt[b] EXCEPT !.held = b \in kept]]
    /\ UNCHANGED <<spent, current, handleVars, diskVars, told, call, ghosts>>

\* The redirect carries a code: finish exchanges it.
StartFinish(c, a, detached) ==
    /\ IsFree(c, "finish")
    /\ call' = [call EXCEPT ![c] = [Idle EXCEPT !.kind = "finish", !.phase = "asking",
                                                !.handle = attempt[a].handle, !.attempt = a,
                                                !.detached = detached]]

\* serve_loopback: one redirect, good or bad, or the timeout.
Return(a) ==
    /\ attempt[a].listening
    /\ \/ /\ \E c \in Calls : StartFinish(c, a, TRUE)
          /\ attempt' = [attempt EXCEPT ![a].listening = FALSE]
       \/ /\ attempt' = [Resolved(a) EXCEPT ![a].listening = FALSE]
          /\ UNCHANGED call
    /\ UNCHANGED <<spent, current, handleVars, diskVars, told, ghosts>>

\* complete_authorization: of any attempt, one with a listener too, and the
\* browser may bring one redirect back twice.
Deliver(a) ==
    /\ attempt[a].held
    /\ ~attempt[a].resolved
    /\ \/ /\ \E c \in Calls : StartFinish(c, a, FALSE)
          /\ UNCHANGED attempt
       \/ /\ attempt' = Resolved(a)
          /\ UNCHANGED call
    /\ UNCHANGED <<spent, current, handleVars, diskVars, told, ghosts>>

-----------------------------------------------------------------------------
(* The token endpoint *)

\* An OAuth error ends the call.
Refused(c) ==
    /\ call' = Ended(c)
    /\ attempt' = Concluded(c)
    /\ holder' = Released(c)

\* A code is taken once; the answer may come without a refresh token.
ExchangeCode(c) ==
    /\ InPhase(c, "asking") /\ call[c].kind = "finish"
    /\ LET a == call[c].attempt IN
       IF spent[a] = 0
       THEN /\ spent' = [spent EXCEPT ![a] = 1]
            /\ \E n \in {0, 1} :
                  call' = [call EXCEPT ![c].phase = "opening",
                                       ![c].got = [auth |-> a, refresh |-> n]]
            /\ UNCHANGED <<attempt, holder>>
       ELSE Refused(c) /\ UNCHANGED spent
    /\ UNCHANGED <<current, memory, diskVars, told, ghosts>>

\* It works for a handle that was replaced, or beside one that does.
IsAside(c) ==
    \/ Handle(c) # current
    \/ \E d \in Calls : call[d].kind = "token" /\ Handle(d) # current

\* The provider takes its latest refresh token, and replaces it or not.
Refresh(c) ==
    /\ InPhase(c, "asking") /\ call[c].kind = "token"
    /\ LET t == call[c].got IN
       IF t.refresh = spent[t.auth]
       THEN \E n \in {t.refresh, t.refresh + 1} :
              /\ n <= Rotations[t.auth] + 1
              /\ spent' = [spent EXCEPT ![t.auth] = n]
              /\ call' = [call EXCEPT ![c].phase = "opening", ![c].got.refresh = n]
              /\ ghosts' = [ghosts EXCEPT !.lost = @ \cup (IF IsAside(c) /\ n # t.refresh THEN {t.auth} ELSE {})]
              /\ UNCHANGED <<attempt, holder>>
       ELSE /\ Refused(c)
            /\ ghosts' = [ghosts EXCEPT !.refused = @ \cup ({t.auth} \ ghosts.lost)]
            /\ UNCHANGED spent
    /\ UNCHANGED <<current, memory, diskVars, told>>

-----------------------------------------------------------------------------
(* write_tokens: the temporary file, filled and renamed into place *)

Open(c) ==
    /\ InPhase(c, "opening")
    /\ tmp' = Half
    /\ call' = [call EXCEPT ![c].phase = "filling", ![c].fd = "tmp"]
    /\ UNCHANGED <<spent, serviceVars, handleVars, file, told, ghosts>>

\* What a file holds once it is written over: two writers of one file may
\* leave the tail of the longer.
WrittenOver(content, tokens) == {tokens} \cup (IF content = Half THEN {} ELSE {Half})

\* The file written is the one opened, wherever it has been renamed to.
Fill(c) ==
    /\ InPhase(c, "filling")
    /\ call' = To(c, "renaming")
    /\ IF call[c].fd = "tmp" THEN tmp' \in WrittenOver(tmp, call[c].got) ELSE UNCHANGED tmp
    /\ IF call[c].fd = "file" THEN file' \in WrittenOver(file, call[c].got) ELSE UNCHANGED file
    /\ UNCHANGED <<spent, serviceVars, handleVars, told, ghosts>>

Moved(fd) == CASE fd = "tmp" -> "file" [] fd = "file" -> "none" [] OTHER -> fd

Rename(c) ==
    /\ InPhase(c, "renaming")
    /\ tmp # Absent
    /\ file' = tmp
    /\ tmp' = Absent
    /\ call' = [d \in Calls |-> [call[d] EXCEPT !.fd = Moved(@),
                                                !.phase = IF d = c THEN "setting" ELSE @]]
    /\ UNCHANGED <<spent, serviceVars, handleVars, told, ghosts>>

\* The temporary file is written over before it is read, so what calls that
\* stop leave of it counts only while another call is about to rename it.
LeftBy(cs) ==
    tmp' = IF \E d \in Calls \ cs : call[d].phase \in {"filling", "renaming"}
           THEN tmp ELSE Absent

\* The endpoint cannot be reached, the answer does not parse or is lost, or
\* a file operation fails: always when another call has renamed the file.
Fail(c) ==
    /\ call[c].phase \in {"asking", "opening", "filling", "renaming"}
    /\ call' = Ended(c)
    /\ attempt' = Concluded(c)
    /\ holder' = Released(c)
    /\ ghosts' = [ghosts EXCEPT !.lost = @ \cup UnsavedOf({c})]
    /\ LeftBy({c})
    /\ UNCHANGED <<spent, current, memory, file, told>>

\* finish takes the lock only now; then the grant is announced authorized.
SetAuthorized(c) ==
    /\ InPhase(c, "setting") /\ call[c].kind = "finish"
    /\ holder[Handle(c)] = Nobody
    /\ memory' = [memory EXCEPT ![Handle(c)] = call[c].got]
    /\ call' = To(c, "announcing")
    /\ UNCHANGED <<spent, serviceVars, holder, diskVars, told, ghosts>>

Announce(c) ==
    /\ InPhase(c, "announcing")
    /\ told' = call[c].got.auth
    /\ call' = Ended(c)
    /\ attempt' = Concluded(c)
    /\ UNCHANGED <<spent, current, handleVars, diskVars, ghosts>>

-----------------------------------------------------------------------------
(* Consumers: access_token *)

AskToken(c) ==
    /\ IsFree(c, "token")
    /\ call' = [call EXCEPT ![c] = [Idle EXCEPT !.kind = "token", !.phase = "locking",
                                                !.handle = current]]
    /\ UNCHANGED <<spent, serviceVars, handleVars, diskVars, told, ghosts>>

\* WRONG: the lock is not held while the endpoint is asked.
RefreshingUnlocked(c) == UNCHANGED holder

Refreshing(c) == holder' = [holder EXCEPT ![Handle(c)] = c]

\* Under the lock: unauthorized, still fresh, past refreshing, or refreshed.
TakeToken(c) ==
    /\ InPhase(c, "locking") /\ call[c].kind = "token"
    /\ holder[Handle(c)] = Nobody
    /\ \/ call' = Ended(c) /\ UNCHANGED holder
       \/ /\ memory[Handle(c)].refresh # 0
          /\ call' = [call EXCEPT ![c].phase = "asking", ![c].got = memory[Handle(c)]]
          /\ Refreshing(c)
    /\ UNCHANGED <<spent, serviceVars, memory, diskVars, told, ghosts>>

SetRefreshed(c) ==
    /\ InPhase(c, "setting") /\ call[c].kind = "token"
    /\ memory' = [memory EXCEPT ![Handle(c)] = call[c].got]
    /\ holder' = Released(c)
    /\ call' = Ended(c)
    /\ UNCHANGED <<spent, serviceVars, diskVars, told, ghosts>>

-----------------------------------------------------------------------------
(* The owner revokes: revoke *)

AskRevoke(c) ==
    /\ IsFree(c, "revoke")
    /\ call' = [call EXCEPT ![c] = [Idle EXCEPT !.kind = "revoke", !.phase = "locking",
                                                !.handle = current]]
    /\ UNCHANGED <<spent, serviceVars, handleVars, diskVars, told, ghosts>>

\* WRONG: the tokens are taken before the file is removed.
StaysTaken(c) ==
    /\ file # Absent
    /\ memory' = [memory EXCEPT ![Handle(c)] = NoTokens]
    /\ call' = Ended(c)
    /\ UNCHANGED <<file, holder>>

\* The file cannot be removed: the call ends, and nothing is revoked.
Stays(c) ==
    /\ file # Absent
    /\ call' = Ended(c)
    /\ UNCHANGED <<file, holder, memory>>

\* Somebody else has the tokens of an authorization and will store them, or
\* hand them on, without the lock of the handle that is to forget them.
IsElsewhere(a, c) ==
    \/ tmp.auth = a
    \/ Handle(c) # current /\ memory[current].auth = a
    \/ \E d \in Calls : call[d].kind = "finish" /\ call[d].got.auth = a
    \/ \E d \in Calls : /\ call[d].kind = "token" /\ Handle(d) # Handle(c)
                         /\ memory[Handle(d)].auth = a

\* Under the lock, and before the tokens.
RemoveFile(c) ==
    /\ InPhase(c, "locking") /\ call[c].kind = "revoke"
    /\ holder[Handle(c)] = Nobody
    /\ \/ /\ file' = Absent
          /\ holder' = [holder EXCEPT ![Handle(c)] = c]
          /\ call' = [d \in Calls |->
                        IF d = c
                        THEN [call[d] EXCEPT !.phase = "taking",
                                             !.sole = ~IsElsewhere(memory[Handle(c)].auth, c)]
                        ELSE [call[d] EXCEPT !.fd = IF @ = "file" THEN "none" ELSE @]]
          /\ UNCHANGED memory
       \/ Stays(c)
    /\ UNCHANGED <<spent, serviceVars, tmp, told, ghosts>>

TakeTokens(c) ==
    /\ InPhase(c, "taking")
    /\ LET a == memory[Handle(c)].auth IN
       /\ call' = IF a = Nobody THEN Ended(c) ELSE To(c, "announcing")
       /\ ghosts' = IF a = Nobody \/ ~call[c].sole THEN ghosts
                    ELSE [ghosts EXCEPT !.forgotten = @ \cup {a}]
    /\ memory' = [memory EXCEPT ![Handle(c)] = NoTokens]
    /\ holder' = Released(c)
    /\ UNCHANGED <<spent, serviceVars, diskVars, told>>

-----------------------------------------------------------------------------
(* What goes wrong around the calls *)

\* The caller is gone: its call stops where it awaits something, and the lock
\* is free; between the tokens and the announcement nothing is awaited.
\* Bound: a file operation under way is done or not begun.
Drop(c) ==
    /\ call[c] # Idle /\ ~call[c].detached
    /\ ~InPhase(c, "announcing")
    /\ call' = Ended(c)
    /\ holder' = Released(c)
    /\ ghosts' = [ghosts EXCEPT !.lost = @ \cup UnsavedOf({c})]
    /\ crossed' = (crossed \/ call[c].phase \in {"setting", "taking"})
    /\ LeftBy({c})
    /\ UNCHANGED <<spent, serviceVars, memory, file, told>>

Loaded(h) ==
    /\ memory' = [memory EXCEPT ![h] = Parsed(file)]
    /\ told' = Parsed(file).auth

\* The plugin that registered the grant is mounted anew; calls and attempts
\* keep the handle they have.
Remount ==
    /\ current < HandlesMax
    /\ current' = current + 1
    /\ Loaded(current + 1)
    /\ ghosts' = [ghosts EXCEPT !.lost = @ \cup UnsavedOf({c \in Calls : ~InPhase(c, "setting")})]
    /\ crossed' = \E c \in Calls : IsStoring(c)
    /\ UNCHANGED <<spent, attempt, holder, diskVars, call>>

\* A crash at any step, and a start.
Restart ==
    /\ Loaded(current)
    /\ attempt' = [a \in Attempts |->
                     IF attempt[a] = Unmade THEN Unmade
                     ELSE [attempt[a] EXCEPT !.held = FALSE, !.listening = FALSE]]
    /\ holder' = [h \in Handles |-> Nobody]
    /\ call' = [c \in Calls |-> Idle]
    /\ ghosts' = [ghosts EXCEPT !.lost = @ \cup UnsavedOf({c \in Calls : ~InPhase(c, "setting")})]
    /\ crossed' = FALSE
    /\ LeftBy(Calls)
    /\ UNCHANGED <<spent, current, file>>

-----------------------------------------------------------------------------
Init ==
    /\ spent = [a \in Attempts |-> 0]
    /\ attempt = [a \in Attempts |-> Unmade]
    /\ current = 1
    /\ memory = [h \in Handles |-> NoTokens]
    /\ holder = [h \in Handles |-> Nobody]
    /\ file = Absent /\ tmp = Absent
    /\ told = Nobody
    /\ call = [c \in Calls |-> Idle]
    /\ ghosts = NoGhosts
    /\ crossed = FALSE

\* A call stores for a handle that was replaced, or a finish while another
\* call does: it writes the file outside the lock.
Crossing ==
    \E c \in Calls :
       /\ IsStoring(c)
       /\ \/ Handle(c) # current
          \/ call[c].kind = "finish" /\ \E d \in Calls \ {c} : IsStoring(d)

Provider(c) == ExchangeCode(c) \/ Refresh(c)

Storing(c) == Open(c) \/ Fill(c) \/ Rename(c) \/ Fail(c) \/ SetAuthorized(c) \/ SetRefreshed(c)

Revoking(c) == AskRevoke(c) \/ RemoveFile(c) \/ TakeTokens(c)

Owner == \E a \in Attempts :
            \/ \E redirect \in Redirects[a] : Authorize(a, redirect)
            \/ Return(a) \/ Deliver(a)

Next ==
    \/ /\ \/ Owner
          \/ \E c \in Calls :
               \/ AskToken(c) \/ TakeToken(c) \/ Provider(c) \/ Storing(c)
               \/ Revoking(c) \/ Announce(c)
       /\ crossed' = (crossed \/ Crossing')
    \/ \E c \in Calls : Drop(c)
    \/ Remount
    \/ Restart

Spec == Init /\ [][Next]_vars

-----------------------------------------------------------------------------
(* Properties *)

\* The provider refuses a refresh only of an authorization whose last
\* rotation was lost on its way to the handle: with a dropped call, a failed
\* write, a crash or a replaced handle.  Overlapping calls never use one
\* refresh token twice.
RefusedOnlyIfLost == ghosts.refused = {}

\* What was revoked is neither on file nor in the handle ever after: no
\* refresh that waited for the lock, no crash and no remount brings it back.
\* Revocations that something overtakes out of the lock's reach are not
\* among them, those at whose removal of the file
\*   - a call still works on a handle that was replaced and has the tokens,
\*   - a finish has exchanged the code and is not over,
\*   - the revocation itself is on a replaced handle, and the new one has
\*     loaded the tokens, or
\*   - the temporary file has the tokens, left of a call that was dropped,
\*     and another is about to rename it.
\* By the bound at Drop no file operation of a dropped call is still to come.
RevokedStaysRevoked ==
    \A a \in ghosts.forgotten : file.auth # a /\ memory[current].auth # a

\* Between stores the file, the handle and what the listeners were told are
\* of one authorization, whatever failed, was dropped or crashed before; but
\* from where, since the last load,
\*   - a finish stored while another call did,
\*   - a call stored for a handle that was replaced, or
\*   - a call was dropped between the file and the handle: renamed and not
\*     set, or removed and not taken.
StoresAgree ==
    (~crossed /\ \A c \in Calls : ~IsStoring(c)) =>
        /\ Parsed(file) = memory[current]
        /\ told = memory[current].auth
=============================================================================
