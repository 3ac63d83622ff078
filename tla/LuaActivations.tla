--------------------------- MODULE LuaActivations ---------------------------
(***************************************************************************)
(* What calls, pcall, coroutines and to-be-closed variables promise: each  *)
(* thread is a stack of activations, each with the variables it still has  *)
(* to close.  An error ends at the innermost pcall, after every variable   *)
(* on the way was closed, the last one first; a function that closes is    *)
(* like any other and may fail itself.                                     *)
(***************************************************************************)
EXTENDS Naturals, Sequences, SequencesExt

CONSTANTS
    Threads, Main,
    Levels           \* where a variable may lie

VARIABLES
    acts,            \* of each thread, from its base
    running,         \* the thread that runs, after those that resumed it
    fresh,           \* threads that were not resumed yet
    deep             \* whether there is no room for another call from C

actVars == <<acts, running, fresh, deep>>

Activation(kind) == [kind |-> kind, vars |-> <<>>, mode |-> "runs"]
Function == Activation("function")

ActInit ==
    /\ acts = [t \in Threads |-> IF t = Main THEN <<Activation("base"), Function>> ELSE <<Activation("base")>>]
    /\ running = <<Main>> /\ fresh = Threads \ {Main} /\ deep \in BOOLEAN

Now0 == Last(running)
Stack0 == acts[Now0]
Innermost == Last(Stack0)
Runs == running # <<>> /\ Innermost.kind = "function" /\ Innermost.mode = "runs"
AllOpen(s) == FlattenSeq([n \in DOMAIN s |-> s[n].vars])
Becomes0(s) == acts' = [acts EXCEPT ![Now0] = s] /\ UNCHANGED <<running, fresh>>

Enter ==
    /\ Runs
    /\ \E under \in {<<>>, <<Activation("pcall")>>, <<Activation("boundary")>>} : Becomes0(Stack0 \o under \o <<Function>>)

Open ==
    /\ Runs
    /\ \E x \in Levels :
        /\ \A n \in DOMAIN AllOpen(Stack0) : AllOpen(Stack0)[n] < x
        /\ Becomes0([Stack0 EXCEPT ![Len(Stack0)].vars = Append(@, x)])

Leaves == Runs /\ Innermost.vars # <<>> /\ Becomes0([Stack0 EXCEPT ![Len(Stack0)].mode = "leaving"])

(* What is left when n activations end; nothing runs at a base.            *)
Ending(n) ==
    LET s == SubSeq(Stack0, 1, Len(Stack0) - n)
        over == Len(s) = 1 /\ s[1].mode = "runs"
    IN /\ acts' = [acts EXCEPT ![Now0] = IF over THEN <<[s[1] EXCEPT !.mode = "dead"]>> ELSE s]
       /\ running' \in (IF over THEN {running, Front(running)} ELSE {running})
       /\ UNCHANGED fresh

(* The thread of a function that ended goes back to the one that resumed it.*)
Ends0 == running # <<>> /\ Innermost.mode = "dead" /\ running' = Front(running) /\ UNCHANGED <<acts, fresh>>

Return0 ==
    /\ running # <<>> /\ Innermost.kind = "function" /\ Innermost.vars = <<>>
    /\ LET under == Stack0[Len(Stack0) - 1]
       IN Ending(1) \/ (under.kind \in {"pcall", "boundary"} /\ under.mode = "runs" /\ Ending(2))

(* pcall returns: its function did, or its variables are closed.           *)
Caught == running # <<>> /\ Innermost.kind = "pcall" /\ Innermost.vars = <<>> /\ Ending(1)

Closes == running # <<>> /\ Innermost.mode \in {"leaving", "failing", "reset"}

CloseLast ==
    /\ Closes /\ Innermost.vars # <<>>
    /\ Becomes0(Append([Stack0 EXCEPT ![Len(Stack0)].vars = Front(@)], Function))

(* Where an error ends; s: the stack of the thread that fails.             *)
Fails0(s) ==
    LET pcalls == {n \in DOMAIN s : s[n].kind = "pcall"}
        at == IF pcalls = {} THEN 1 ELSE CHOOSE n \in pcalls : \A m \in pcalls : m <= n
        with(mode) == acts' = [acts EXCEPT ![Now0] =
                        Append(SubSeq(s, 1, at - 1), [s[at] EXCEPT !.mode = mode, !.vars = AllOpen(SubSeq(s, at, Len(s)))])]
    IN /\ UNCHANGED fresh
       /\ \/ at > 1 /\ with("failing") /\ UNCHANGED running
          \/ at = 1 /\ (s[1].mode = "reset" \/ Now0 = Main) /\ with("reset") /\ UNCHANGED running
          \/ at = 1 /\ s[1].mode = "runs" /\ Now0 # Main /\ with("dead") /\ running' = Front(running)
          \/ at = 1 /\ s[1].mode = "runs" /\ Now0 # Main /\ with("reset") /\ UNCHANGED running

Raise0 == Runs /\ Fails0(Stack0)

(* pcall itself cannot call any more.                                      *)
ProtectFails == Runs /\ deep /\ Becomes0(Append(Stack0, [Activation("pcall") EXCEPT !.mode = "failing"]))

(* A variable that cannot be closed: no call is possible any more.         *)
CloseFails ==
    /\ Closes /\ Innermost.vars # <<>> /\ deep
    /\ Fails0([Stack0 EXCEPT ![Len(Stack0)].vars = Front(@)])

Yield0 ==
    /\ Runs /\ Now0 # Main /\ Stack0[1].mode = "runs" /\ \A n \in DOMAIN Stack0 : Stack0[n].kind # "boundary"
    /\ running' = Front(running) /\ UNCHANGED <<acts, fresh>>

Resume0(u) ==
    /\ Runs /\ u \notin ToSet(running) /\ acts[u][1].mode = "runs"
    /\ running' = Append(running, u) /\ fresh' = fresh \ {u}
    /\ acts' = IF u \in fresh THEN [acts EXCEPT ![u] = Append(@, Function)] ELSE acts

(* A coroutine that cannot be called any more.                             *)
ResumeFails(u) ==
    /\ Runs /\ deep /\ u \in fresh
    /\ fresh' = fresh \ {u}
    /\ \/ acts' = [acts EXCEPT ![u][1].mode = "dead"] /\ UNCHANGED running
       \/ acts' = [acts EXCEPT ![u][1].mode = "reset"] /\ running' = Append(running, u)

(* coroutine.close: of a thread that is not running, or of itself.         *)
Close0(u) ==
    /\ Runs /\ u # Main /\ (u = Now0 \/ u \notin ToSet(running))
    /\ acts' = [acts EXCEPT ![u] = <<[@[1] EXCEPT !.mode = "reset", !.vars = AllOpen(acts[u])]>>]
    /\ running' = (IF u = Now0 THEN running ELSE Append(running, u))
    /\ fresh' = fresh \ {u}

IsReset ==
    /\ running # <<>> /\ Innermost.mode = "reset" /\ Innermost.vars = <<>>
    /\ acts' = [acts EXCEPT ![Now0][1].mode = "dead"] /\ running' = Front(running) /\ UNCHANGED fresh

ActNext ==
    /\ deep' \in BOOLEAN
    /\ \/ Enter \/ Open \/ Leaves \/ Return0 \/ Ends0 \/ Caught \/ CloseLast \/ Raise0 \/ ProtectFails \/ CloseFails \/ Yield0 \/ IsReset
       \/ \E u \in Threads : Resume0(u) \/ ResumeFails(u) \/ Close0(u)
       \/ UNCHANGED <<acts, running, fresh>>

ActSpec == ActInit /\ [][ActNext]_actVars

=============================================================================
