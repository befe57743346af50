----------------------------- MODULE PipeTunnel -----------------------------
(***************************************************************************)
(* Cross-worker forwarding of lines (ww/net/pipe_tunnel.c) and the life of *)
(* the lines themselves (ww/net/line.h, line.c).                           *)
(*                                                                         *)
(* pipeTo joins a line of one worker, borrowed from the tunnel before the  *)
(* pipe, to a line that the pipe creates on another worker.  From then on  *)
(* each call of a neighbour is a message to the other worker.  A pair is   *)
(* shared by the registry, its two attached sides, the queued messages and *)
(* the functions that work on it, each with a counted reference; the last  *)
(* one out releases the two lines.                                         *)
(*                                                                         *)
(* A worker's call stack is todo[w], the calls it still has to make, the   *)
(* next one first.  Each call makes at most one access to the state that   *)
(* the two workers share, so that two workers interleave as the threads    *)
(* do.  A call out to a neighbour stays on the stack until it returns; the *)
(* neighbour may call the pipe again before that.                          *)
(***************************************************************************)
EXTENDS Integers, Sequences, FiniteSets

CONSTANTS
    Workers,     \* event workers
    Pairs,       \* pairs ever made, each from a line of its own
    Home,        \* Home[p][s]: the worker that owns side s of pair p
    Loads        \* bounds, of which a behaviour has one: what the neighbours
                 \* of a pair may send and how often, and how often an open
                 \* mailbox refuses a submission

Sides == {"borrowed", "owned"}
Other(s) == IF s = "borrowed" THEN "owned" ELSE "borrowed"

ASSUME PipeAssumption ==
    /\ IsFiniteSet(Workers) /\ IsFiniteSet(Pairs)
    /\ Home \in [Pairs -> [Sides -> Workers]]
    /\ \A p \in Pairs : Home[p]["borrowed"] # Home[p]["owned"]
    /\ Loads \subseteq [kinds : SUBSET (Sides \X {"Payload", "Est"}),
                        sends : Nat, refusals : Nat]

VARIABLES
    load,        \* the bounds of this behaviour
    refs,        \* pair->refs; 0 before the commit and after the free
    attached,    \* attached[p]: sides with borrowed_attached, owned_attached
    registry,    \* pairs linked in state->pairs, those with registered set
    terminal,    \* pairs with terminal set
    finished,    \* finished[p]: sides with prev_finished, next_finished
    init_delivered,  \* pairs with owned_init_delivered set
    stopping,    \* state->stopping
    alive,       \* alive[p, s]: line->alive
    refc,        \* refc[p, s]: line->refc
    lstate,      \* lines whose state of this tunnel names their pair
    established, \* borrowed lines marked established
    queue,       \* queue[w]: messages accepted for worker w
    open,        \* workers whose mailbox accepts messages
    phase,       \* phase[w]: where its shutdown is
    main,        \* where the application's shutdown is; "aborted" once the
                 \* process has ended on the spot
    todo,        \* todo[w]: calls still to be made, innermost first
    holds,       \* references taken by functions now on a stack
    trace,       \* trace[p, s]: what the neighbour of a line saw and did
    sent,        \* sent[p, s]: payloads that neighbour has sent
    estSent,     \* lines whose neighbour has sent Est
    refusals,    \* refusals so far
    fault        \* an assertion failed or freed storage was used

pairVars == <<refs, attached, registry, terminal, finished, init_delivered,
              stopping>>
lineVars == <<alive, refc, lstate, established>>
mailVars == <<queue, open>>
lifeVars == <<phase, main>>
neighbourVars == <<trace, sent, estSent, refusals, load>>
vars == <<pairVars, lineVars, mailVars, lifeVars, todo, holds,
          neighbourVars, fault>>

Lines == Pairs \X Sides
NoHolds == [pair |-> [p \in Pairs |-> 0], line |-> [l \in Lines |-> 0]]

(* A borrowed line may be established already: its neighbour has had Est.  *)
Init ==
    /\ load \in Loads
    /\ refs = [p \in Pairs |-> 0]
    /\ attached = [p \in Pairs |-> {}]
    /\ registry = {} /\ terminal = {} /\ init_delivered = {}
    /\ finished = [p \in Pairs |-> {}]
    /\ stopping = FALSE
    /\ alive = [l \in Lines |-> l[2] = "borrowed"]
    /\ refc = [l \in Lines |-> IF l[2] = "borrowed" THEN 1 ELSE 0]
    /\ lstate = {} /\ estSent = {}
    /\ established \in SUBSET Pairs
    /\ queue = [w \in Workers |-> << >>]
    /\ open = Workers
    /\ phase = [w \in Workers |-> "running"]
    /\ main = "running"
    /\ todo = [w \in Workers |-> << >>]
    /\ holds = NoHolds
    /\ trace = [l \in Lines |->
                 IF l[2] = "borrowed" /\ l[1] \in established
                 THEN << <<"Est", 0>> >> ELSE << >>]
    /\ sent = [l \in Lines |-> 0]
    /\ refusals = 0
    /\ fault = FALSE

-----------------------------------------------------------------------------
(* The call stack.  A call names its pair and, when it has one, its side.  *)
Call(op, p, s) == [op |-> op, p |-> p, s |-> s]
Send(p, s, m, failed) ==
    [op |-> "load", p |-> p, s |-> s, m |-> m, failed |-> failed]

At(w, op) == todo[w] # << >> /\ Head(todo[w]).op = op
Top(w) == Head(todo[w])
Then(w, calls) == todo' = [todo EXCEPT ![w] = calls \o Tail(@)]
Begin(w, calls) == todo' = [todo EXCEPT ![w] = calls \o @]

(* A pair is used only while somebody holds a reference to it.             *)
Uses(p) == fault' = (fault \/ refs[p] = 0)

(* What the functions on the stacks hold beside the sides, the registry    *)
(* and the messages.                                                       *)
HoldPair(p, d) == holds' = [holds EXCEPT !.pair[p] = @ + d]
HoldBoth(p, s, d) ==
    holds' = [holds EXCEPT !.pair[p] = @ + d, !.line[p, s] = @ + d]

(* lineUnRefInternal on each line of D: nobody releases a line twice, and  *)
(* the last reference to a line goes only after its logical death, with    *)
(* its tunnel states cleared.                                              *)
UnrefLines(D) ==
    [l \in Lines |-> IF l \in D THEN refc[l] - 1 ELSE refc[l]]
UnrefIsBad(D, live) ==
    \E l \in D : \/ refc[l] = 0
                 \/ refc[l] = 1 /\ (live[l] \/ l \in lstate)

-----------------------------------------------------------------------------
(* pipePairRef and lineRefForce.                                           *)
RefPair(w) ==
    /\ At(w, "ref")
    /\ LET p == Top(w).p  s == Top(w).s IN
       /\ refs' = [refs EXCEPT ![p] = @ + 1]
       /\ refc' = [refc EXCEPT ![p, s] = @ + 1]
       /\ HoldBoth(p, s, 1)
       /\ fault' = (fault \/ refs[p] = 0 \/ refc[p, s] = 0)
    /\ Then(w, << >>)
    /\ UNCHANGED <<attached, registry, terminal, finished, init_delivered,
                   stopping, alive, lstate, established, mailVars, lifeVars,
                   neighbourVars>>

(* pipePairUnref by one of the three kinds of owner: a side or the         *)
(* registry, which are no longer counted, or a function on the stack.  The *)
(* last reference releases the lines of the pair and frees it.             *)
UnrefPair(w) ==
    /\ At(w, "unrefOwner") \/ At(w, "unref")
    /\ LET p == Top(w).p
           lines == {p} \X Sides
           last == refs[p] = 1 IN
       /\ refs' = [refs EXCEPT ![p] = IF @ = 0 THEN 0 ELSE @ - 1]
       /\ refc' = IF last THEN UnrefLines(lines) ELSE refc
       /\ fault' = (\/ fault
                    \/ refs[p] = 0
                    \/ last /\ (p \in registry \/ attached[p] # {})
                    \/ last /\ UnrefIsBad(lines, alive))
       /\ IF Top(w).op = "unref" THEN HoldPair(p, -1) ELSE UNCHANGED holds
    /\ Then(w, << >>)
    /\ UNCHANGED <<attached, registry, terminal, finished, init_delivered,
                   stopping, alive, lstate, established, mailVars, lifeVars,
                   neighbourVars>>

(* lineUnref by a function on the stack.                                   *)
UnrefLine(w) ==
    /\ At(w, "lineUnref")
    /\ LET p == Top(w).p  s == Top(w).s IN
       /\ refc' = UnrefLines({<<p, s>>})
       /\ fault' = (fault \/ UnrefIsBad({<<p, s>>}, alive))
       /\ holds' = [holds EXCEPT !.line[p, s] = @ - 1]
    /\ Then(w, << >>)
    /\ UNCHANGED <<pairVars, alive, lstate, established, mailVars, lifeVars,
                   neighbourVars>>

(* lineDestroy where the code checks that the line is alive: the pipe for  *)
(* the owned line, the creator of the borrowed one.                        *)
DestroyLine(w) ==
    /\ At(w, "destroy")
    /\ LET l == <<Top(w).p, Top(w).s>>
           dead == [alive EXCEPT ![l] = FALSE] IN
       IF alive[l]
       THEN /\ alive' = dead
            /\ refc' = UnrefLines({l})
            /\ fault' = (fault \/ UnrefIsBad({l}, dead))
       ELSE UNCHANGED <<alive, refc, fault>>
    /\ Then(w, << >>)
    /\ UNCHANGED <<pairVars, lstate, established, mailVars, lifeVars, holds,
                   neighbourVars>>

(* pipePairDetach, up to the exchange and the line's own state.            *)
Detach(w) ==
    /\ At(w, "detach")
    /\ LET p == Top(w).p  s == Top(w).s IN
       /\ Uses(p)
       /\ attached' = [attached EXCEPT ![p] = @ \ {s}]
       /\ IF s \in attached[p]
          THEN /\ lstate' = lstate \ {<<p, s>>}
               /\ Then(w, <<Call("unrefOwner", p, s),
                            Call("unregister", p, s)>>)
          ELSE lstate' = lstate /\ Then(w, << >>)
    /\ UNCHANGED <<refs, registry, terminal, finished, init_delivered,
                   stopping, alive, refc, established, mailVars, lifeVars,
                   holds, neighbourVars>>

\* Mutant of MaybeUnregister: the registration is not checked again.
MaybeUnregister_NoRecheck(w) ==
    /\ At(w, "unregister")
    /\ LET p == Top(w).p
           gone == attached[p] = {} IN
       /\ Uses(p)
       /\ registry' = IF gone THEN registry \ {p} ELSE registry
       /\ Then(w, IF gone THEN <<Call("unrefOwner", p, Top(w).s)>> ELSE << >>)
    /\ UNCHANGED <<refs, attached, terminal, finished, init_delivered,
                   stopping, lineVars, mailVars, lifeVars, holds,
                   neighbourVars>>

(* pipePairMaybeUnregister: the block under pairs_lock, and the registry's *)
(* reference once it is unlocked.                                          *)
MaybeUnregister(w) ==
    /\ At(w, "unregister")
    /\ LET p == Top(w).p
           gone == p \in registry /\ attached[p] = {} IN
       /\ Uses(p)
       /\ registry' = IF gone THEN registry \ {p} ELSE registry
       /\ Then(w, IF gone THEN <<Call("unrefOwner", p, Top(w).s)>> ELSE << >>)
    /\ UNCHANGED <<refs, attached, terminal, finished, init_delivered,
                   stopping, lineVars, mailVars, lifeVars, holds,
                   neighbourVars>>

-----------------------------------------------------------------------------
(* pipeCloseBorrowed and pipeCloseOwned.                                   *)
CloseCalls(p, s) ==
    <<Call("ref", p, s), Call("detach", p, s), Call("finish", p, s)>>
    \o (IF s = "owned" THEN <<Call("destroy", p, s)>> ELSE << >>)
    \o <<Call("lineUnref", p, s), Call("unref", p, s)>>

(* pipeReconcileLine.                                                      *)
Reconcile(w) ==
    /\ At(w, "reconcile")
    /\ LET p == Top(w).p  s == Top(w).s IN
       /\ Uses(p)
       /\ Then(w, IF s \in attached[p] THEN CloseCalls(p, s) ELSE << >>)
    /\ UNCHANGED <<pairVars, lineVars, mailVars, lifeVars, holds,
                   neighbourVars>>

(* Calls into a neighbour: what it sees, and the call on the stack.  A     *)
(* creator that is told of the end of its line destroys it before it       *)
(* returns.                                                                *)
Tell(p, s, what) == trace' = [trace EXCEPT ![p, s] = Append(@, what)]

(* Whether tunnelPrevDownStreamFinish or tunnelNextUpStreamFinish is due.  *)
FinishIsDue(p, s) ==
    /\ alive[p, s] /\ s \notin finished[p]
    /\ s = "owned" => p \in init_delivered

Finish(w) ==
    /\ At(w, "finish")
    /\ LET p == Top(w).p  s == Top(w).s IN
       /\ Uses(p)
       /\ IF FinishIsDue(p, s)
          THEN /\ Tell(p, s, <<"Fin", 0>>)
               /\ Then(w, <<Call("callout", p, s)>>
                          \o IF s = "borrowed" THEN <<Call("destroy", p, s)>>
                                               ELSE << >>)
          ELSE trace' = trace /\ Then(w, << >>)
    /\ UNCHANGED <<pairVars, lineVars, mailVars, lifeVars, holds, sent,
                   estSent, refusals, load>>

Return(w) ==
    /\ At(w, "callout")
    /\ Then(w, << >>)
    /\ UNCHANGED <<pairVars, lineVars, mailVars, lifeVars, holds,
                   neighbourVars, fault>>

-----------------------------------------------------------------------------
\* Mutant of Escalation: a refusal is only handled locally.
Escalation_Quiet(p, refused) == << >>

(* pipeSend: the check of terminal, then the submission.  What the caller  *)
(* does with a failure is named by failed: pipeReconcileLine of its own    *)
(* side, the store of terminal (a Finish), both (DownStreamEst), or the    *)
(* rollback of pipeTo; a refusal is escalated as well.                     *)
Escalation(p, refused) ==
    IF refused THEN <<Call("escalate", p, "owned")>> ELSE << >>
Rollback(p, s) ==
    <<Call("terminal", p, s), Call("detach", p, "borrowed"),
      Call("reconcile", p, "owned")>>
FailureCalls(p, s, failed, refused) ==
    (CASE failed = "reconcile" -> <<Call("reconcile", p, Other(s))>>
       [] failed = "terminal" -> <<Call("terminal", p, s)>>
       [] failed = "terminalReconcile" ->
            <<Call("terminal", p, s), Call("reconcile", p, Other(s))>>
       [] failed = "rollback" -> Rollback(p, s))
    \o Escalation(p, refused)

LoadTerminal(w) ==
    /\ At(w, "load")
    /\ LET c == Top(w) IN
       /\ Uses(c.p)
       /\ Then(w, IF c.p \in terminal
                  THEN FailureCalls(c.p, c.s, c.failed, FALSE)
                  ELSE <<[c EXCEPT !.op = "submit"]>>)
    /\ UNCHANGED <<pairVars, lineVars, mailVars, lifeVars, holds,
                   neighbourVars>>

\* Mutant of Submit: a refusal is cleaned up and forgotten.
Submit_Forget(w) ==
    /\ At(w, "submit")
    /\ LET c == Top(w)
           to == Home[c.p][c.s] IN
       /\ refs' = [refs EXCEPT ![c.p] = @ + 1]
       /\ refc' = [refc EXCEPT ![c.p, c.s] = @ + 1]
       /\ fault' = (fault \/ refs[c.p] = 0 \/ refc[c.p, c.s] = 0)
       /\ \/ /\ to \in open
             /\ queue' = [queue EXCEPT ![to] =
                            Append(@, [p |-> c.p, s |-> c.s, m |-> c.m])]
             /\ Then(w, << >>)
             /\ UNCHANGED <<holds, refusals>>
          \/ /\ to \notin open \/ refusals < load.refusals
             /\ refusals' = IF to \in open THEN refusals + 1 ELSE refusals
             /\ HoldBoth(c.p, c.s, 1)
             /\ Then(w, <<Call("lineUnref", c.p, c.s), Call("unref", c.p, c.s)>>)
             /\ UNCHANGED queue
    /\ UNCHANGED <<attached, registry, terminal, finished, init_delivered,
                   stopping, alive, lstate, established, open, lifeVars,
                   trace, sent, estSent, load>>

(* The message carries a reference to the pair and to the line it is for.  *)
(* A mailbox refuses when its worker closes it, or for want of memory.  A  *)
(* refused message goes to cleanupQueuedPipeMessage on the sender's        *)
(* thread, which does not own that line and so closes nothing.             *)
Submit(w) ==
    /\ At(w, "submit")
    /\ LET c == Top(w)
           to == Home[c.p][c.s] IN
       /\ refs' = [refs EXCEPT ![c.p] = @ + 1]
       /\ refc' = [refc EXCEPT ![c.p, c.s] = @ + 1]
       /\ fault' = (fault \/ refs[c.p] = 0 \/ refc[c.p, c.s] = 0)
       /\ \/ /\ to \in open
             /\ queue' = [queue EXCEPT ![to] =
                            Append(@, [p |-> c.p, s |-> c.s, m |-> c.m])]
             /\ Then(w, << >>)
             /\ UNCHANGED <<holds, refusals>>
          \/ /\ to \notin open \/ refusals < load.refusals
             /\ refusals' = IF to \in open THEN refusals + 1 ELSE refusals
             /\ HoldBoth(c.p, c.s, 1)
             /\ Then(w, <<Call("terminal", c.p, c.s),
                          Call("lineUnref", c.p, c.s), Call("unref", c.p, c.s)>>
                        \o FailureCalls(c.p, c.s, c.failed, TRUE))
             /\ UNCHANGED queue
    /\ UNCHANGED <<attached, registry, terminal, finished, init_delivered,
                   stopping, alive, lstate, established, open, lifeVars,
                   trace, sent, estSent, load>>

(* The store of terminal, which every failure path makes.                  *)
SetTerminal(w) ==
    /\ At(w, "terminal")
    /\ Uses(Top(w).p)
    /\ terminal' = terminal \cup {Top(w).p}
    /\ Then(w, << >>)
    /\ UNCHANGED <<refs, attached, registry, finished, init_delivered,
                   stopping, lineVars, mailVars, lifeVars, holds,
                   neighbourVars>>

(* pipeEscalateRefusal: the shutdown is requested unless it already is; a  *)
(* request that cannot be made aborts the process.                         *)
Escalate(w) ==
    /\ At(w, "escalate")
    /\ main' \in IF main = "running" THEN {"requested", "aborted"} ELSE {main}
    /\ Then(w, << >>)
    /\ UNCHANGED <<pairVars, lineVars, mailVars, phase, holds, neighbourVars,
                   fault>>

-----------------------------------------------------------------------------
(* Messages.  pipeMessageLineIsUsable decides; the message's references    *)
(* are then released by the receiver.  The mailbox hands a message over    *)
(* with the references it carries.                                         *)
MessageDone(p, s) == <<Call("lineUnref", p, s), Call("unref", p, s)>>
IsUsable(p, s) ==
    /\ alive[p, s] /\ s \in attached[p] /\ p \notin terminal
    /\ <<p, s>> \in lstate

TakeMessage(w) ==
    /\ queue' = [queue EXCEPT ![w] = Tail(@)]
    /\ LET m == Head(queue[w]) IN HoldBoth(m.p, m.s, 1)

(* pipeApplyUp and pipeApplyDown.                                          *)
ApplyMessage(w) ==
    /\ todo[w] = << >> /\ phase[w] = "running" /\ queue[w] # << >>
    /\ TakeMessage(w)
    /\ LET p == Head(queue[w]).p
           s == Head(queue[w]).s
           m == Head(queue[w]).m IN
       /\ Uses(p)
       /\ CASE ~IsUsable(p, s) ->
                 /\ Begin(w, <<Call("terminal", p, s), Call("reconcile", p, s)>>
                             \o MessageDone(p, s))
                 /\ UNCHANGED <<trace, init_delivered, established>>
            [] IsUsable(p, s) /\ m[1] = "Fin" ->
                 /\ Begin(w, CloseCalls(p, s) \o MessageDone(p, s))
                 /\ UNCHANGED <<trace, init_delivered, established>>
            [] IsUsable(p, s) /\ m[1] = "Est" /\ s = "borrowed"
                              /\ p \in established ->
                 /\ Begin(w, MessageDone(p, s))
                 /\ UNCHANGED <<trace, init_delivered, established>>
            [] OTHER ->
                 /\ Begin(w, <<Call("callout", p, s)>> \o MessageDone(p, s))
                 /\ Tell(p, s, m)
                 /\ init_delivered' = IF m[1] = "Init"
                                      THEN init_delivered \cup {p}
                                      ELSE init_delivered
                 /\ established' = IF m[1] = "Est" /\ s = "borrowed"
                                   THEN established \cup {p}
                                   ELSE established
    /\ UNCHANGED <<refs, attached, registry, terminal, finished, stopping,
                   alive, refc, lstate, open, lifeVars, sent, estSent,
                   refusals, load>>

(* cleanupQueuedPipeMessage on the thread of the worker that quiesces.     *)
CleanMessage(w) ==
    /\ todo[w] = << >> /\ phase[w] = "closing" /\ queue[w] # << >>
    /\ TakeMessage(w)
    /\ LET p == Head(queue[w]).p  s == Head(queue[w]).s IN
       Begin(w, <<Call("terminal", p, s), Call("reconcile", p, s)>>
                \o MessageDone(p, s))
    /\ UNCHANGED <<pairVars, lineVars, open, lifeVars, neighbourVars, fault>>

-----------------------------------------------------------------------------
(* The neighbours, external: the tunnel before the pipe on the borrowed    *)
(* line and the one behind it on the owned line.  They call the pipe from  *)
(* an event of their worker, from within a call the pipe makes to them, or *)
(* from their own onWorkerStop, and only while the line is open for them:  *)
(* after Init, and before a Finish in either direction.                    *)
MayCall(w) ==
    IF todo[w] = << >> THEN phase[w] \in {"running", "stopping"}
                       ELSE At(w, "callout")
Closing == {"Fin", "Finished"}
IsOpen(p, s) ==
    /\ alive[p, s] /\ <<p, s>> \in lstate
    /\ s = "owned" => trace[p, s] # << >>
    /\ \A i \in 1 .. Len(trace[p, s]) : trace[p, s][i][1] \notin Closing

(* The bound on what they send.                                            *)
MaySend(p, s, kind) ==
    /\ <<s, kind>> \in load.kinds
    /\ sent[p, "borrowed"] + sent[p, "owned"]
        + Cardinality({v \in Sides : <<p, v>> \in estSent}) < load.sends

(* UpStreamPayload, UpStreamPause, UpStreamResume and the DownStream ones; *)
(* UpStreamEst and DownStreamEst, which stores terminal on a failure.      *)
Forward(w, p, s) ==
    /\ MayCall(w) /\ Home[p][s] = w /\ IsOpen(p, s)
    /\ MaySend(p, s, "Payload")
    /\ sent' = [sent EXCEPT ![p, s] = @ + 1]
    /\ Begin(w, <<Send(p, Other(s), <<"Payload", sent[p, s] + 1>>,
                       "reconcile")>>)
    /\ UNCHANGED <<pairVars, lineVars, mailVars, lifeVars, holds, trace,
                   estSent, refusals, load, fault>>

ForwardEst(w, p, s) ==
    /\ MayCall(w) /\ Home[p][s] = w /\ IsOpen(p, s)
    /\ MaySend(p, s, "Est") /\ <<p, s>> \notin estSent
    /\ estSent' = estSent \cup {<<p, s>>}
    /\ Begin(w, <<Send(p, Other(s), <<"Est", 0>>,
                       IF s = "owned" THEN "terminalReconcile"
                                      ELSE "reconcile")>>)
    /\ UNCHANGED <<pairVars, lineVars, mailVars, lifeVars, holds, trace,
                   sent, refusals, load, fault>>

(* UpStreamFin, after which the creator of the borrowed line destroys it,  *)
(* and DownStreamFin, which destroys the owned line itself.                *)
ForwardFin(w, p, s) ==
    /\ MayCall(w) /\ Home[p][s] = w /\ IsOpen(p, s)
    /\ refs' = [refs EXCEPT ![p] = @ + 1]
    /\ HoldPair(p, 1)
    /\ Uses(p)
    /\ finished' = [finished EXCEPT ![p] = @ \cup {s}]
    /\ Tell(p, s, <<"Finished", 0>>)
    /\ Begin(w, LET calls == <<Call("detach", p, s),
                               Send(p, Other(s), <<"Fin", 0>>, "terminal")>>
                IN IF s = "owned"
                   THEN calls \o <<Call("destroy", p, s), Call("unref", p, s)>>
                   ELSE calls \o <<Call("unref", p, s), Call("destroy", p, s)>>)
    /\ UNCHANGED <<attached, registry, terminal, init_delivered, stopping,
                   lineVars, mailVars, lifeVars, sent, estSent,
                   refusals, load>>

(* A borrowed line that is not joined, or no longer, ends without the pipe.*)
EndUnpaired(w, p) ==
    /\ todo[w] = << >> /\ phase[w] \in {"running", "stopping"}
    /\ Home[p]["borrowed"] = w
    /\ alive[p, "borrowed"] /\ <<p, "borrowed">> \notin lstate
    /\ Begin(w, <<Call("destroy", p, "borrowed")>>)
    /\ UNCHANGED <<pairVars, lineVars, mailVars, lifeVars, holds,
                   neighbourVars, fault>>

-----------------------------------------------------------------------------
(* pipeTo: the checks without the lock and the line that it creates.       *)
NeverJoined(p) == refs[p] = 0 /\ refc[p, "owned"] = 0 /\ p \notin terminal
PipeTo(w, p) ==
    /\ todo[w] = << >> /\ phase[w] = "running"
    /\ Home[p]["borrowed"] = w /\ alive[p, "borrowed"]
    /\ NeverJoined(p) /\ ~stopping
    /\ alive' = [alive EXCEPT ![p, "owned"] = TRUE]
    /\ refc' = [refc EXCEPT ![p, "owned"] = 1]
    /\ Begin(w, <<Call("commit", p, "owned")>>)
    /\ UNCHANGED <<pairVars, lstate, established, mailVars, lifeVars, holds,
                   neighbourVars, fault>>

\* Mutant of Commit: the lock is taken, but stopping is not read again.
Commit_NoRecheck(w) ==
    /\ At(w, "commit")
    /\ LET p == Top(w).p  lines == {p} \X Sides IN
       /\ refs' = [refs EXCEPT ![p] = 4]
       /\ HoldPair(p, 1)
       /\ attached' = [attached EXCEPT ![p] = Sides]
       /\ registry' = registry \cup {p}
       /\ refc' = [l \in Lines |-> IF l \in lines THEN refc[l] + 1 ELSE refc[l]]
       /\ lstate' = lstate \cup lines
       /\ Then(w, <<Send(p, "owned", <<"Init", 0>>, "rollback"),
                    Call("unref", p, "owned")>>)
    /\ UNCHANGED <<terminal, finished, init_delivered, stopping, alive,
                   established, mailVars, lifeVars, neighbourVars, fault>>

(* The block under pairs_lock: refused when the pipe is stopping, else     *)
(* published with its four references.                                     *)
Commit(w) ==
    /\ At(w, "commit")
    /\ LET p == Top(w).p  lines == {p} \X Sides IN
       IF stopping
       THEN /\ Then(w, <<Call("destroy", p, "owned")>>)
            /\ UNCHANGED <<refs, attached, registry, refc, lstate, holds, fault>>
       ELSE /\ refs' = [refs EXCEPT ![p] = 4]
            /\ HoldPair(p, 1)
            /\ attached' = [attached EXCEPT ![p] = Sides]
            /\ registry' = registry \cup {p}
            /\ fault' = (fault \/ \E l \in lines : ~alive[l] \/ refc[l] = 0)
            /\ refc' = [l \in Lines |->
                          IF l \in lines THEN refc[l] + 1 ELSE refc[l]]
            /\ lstate' = lstate \cup lines
            /\ Then(w, <<Send(p, "owned", <<"Init", 0>>, "rollback"),
                         Call("unref", p, "owned")>>)
    /\ UNCHANGED <<terminal, finished, init_delivered, stopping, alive,
                   established, mailVars, lifeVars, neighbourVars>>

-----------------------------------------------------------------------------
(* Shutdown, as the application's controller drives it: it asks the pipe   *)
(* to stop, then every worker to quiesce; when all have, every worker runs *)
(* its stop callbacks; when all have, the pipe is stopped.                 *)
RequestShutdown ==
    /\ main = "running"
    /\ main' = "requested"
    /\ UNCHANGED <<pairVars, lineVars, mailVars, phase, todo, holds,
                   neighbourVars, fault>>

(* pipetunnelDefaultOnQuiesceRequest.                                      *)
OnQuiesceRequest ==
    /\ main = "requested"
    /\ stopping' = TRUE
    /\ terminal' = terminal \cup registry
    /\ main' = "quiescing"
    /\ UNCHANGED <<refs, attached, registry, finished, init_delivered,
                   lineVars, mailVars, phase, todo, holds, neighbourVars,
                   fault>>

CloseMailbox(w) ==
    /\ main = "quiescing" /\ phase[w] = "running"
    /\ open' = open \ {w}
    /\ phase' = [phase EXCEPT ![w] = "closing"]
    /\ UNCHANGED <<pairVars, lineVars, queue, main, todo, holds,
                   neighbourVars, fault>>

Quiesce(w) ==
    /\ phase[w] = "closing" /\ todo[w] = << >> /\ queue[w] = << >>
    /\ phase' = [phase EXCEPT ![w] = "quiesced"]
    /\ UNCHANGED <<pairVars, lineVars, mailVars, main, todo, holds,
                   neighbourVars, fault>>

(* Worker w begins its onWorkerStop callbacks.                             *)
BeginStop(w) ==
    /\ \A v \in Workers : phase[v] \notin {"running", "closing"}
    /\ phase[w] = "quiesced"
    /\ phase' = [phase EXCEPT ![w] = "stopping"]
    /\ UNCHANGED <<pairVars, lineVars, mailVars, main, todo, holds,
                   neighbourVars, fault>>

\* Mutant of AttachedHere: only the borrowed lines of the worker are found.
AttachedHere_BorrowedOnly(w) ==
    {l \in Lines : l[1] \in registry /\ l[2] \in attached[l[1]]
                  /\ l[2] = "borrowed" /\ Home[l[1]]["borrowed"] = w}

(* pipeFindPairForWorker.                                                  *)
AttachedHere(w) ==
    {l \in Lines : l[1] \in registry /\ l[2] \in attached[l[1]]
                                     /\ Home[l[1]][l[2]] = w}

(* pipeDrainWorker: one round of its loop.                                 *)
DrainNext(w) ==
    /\ phase[w] \in {"stopping", "draining"} /\ todo[w] = << >>
    /\ \E l \in AttachedHere(w) :
          /\ refs' = [refs EXCEPT ![l[1]] = @ + 1]
          /\ HoldPair(l[1], 1)
          /\ Uses(l[1])
          /\ Begin(w, <<Call("terminal", l[1], l[2]),
                        Call("reconcile", l[1], l[2]),
                        Call("unref", l[1], l[2])>>)
    /\ phase' = [phase EXCEPT ![w] = "draining"]
    /\ UNCHANGED <<attached, registry, terminal, finished, init_delivered,
                   stopping, lineVars, mailVars, main, neighbourVars>>

DrainDone(w) ==
    /\ phase[w] \in {"stopping", "draining"} /\ todo[w] = << >>
    /\ AttachedHere(w) = {}
    /\ phase' = [phase EXCEPT ![w] = "drained"]
    /\ UNCHANGED <<pairVars, lineVars, mailVars, main, todo, holds,
                   neighbourVars, fault>>

(* pipetunnelDefaultOnStop and pipetunnelDestroy: both abort on a pair     *)
(* that is left.                                                           *)
OnStop ==
    /\ main = "quiescing" /\ \A w \in Workers : phase[w] = "drained"
    /\ main' = "stopped"
    /\ fault' = (fault \/ registry # {})
    /\ UNCHANGED <<pairVars, lineVars, mailVars, phase, todo, holds,
                   neighbourVars>>

Stopped == main \in {"stopped", "aborted"} /\ UNCHANGED vars

-----------------------------------------------------------------------------
PipeStep(w) ==
    \/ RefPair(w) \/ UnrefPair(w) \/ UnrefLine(w) \/ DestroyLine(w)
    \/ Detach(w) \/ MaybeUnregister(w) \/ Reconcile(w) \/ Finish(w)
    \/ LoadTerminal(w) \/ Submit(w) \/ SetTerminal(w) \/ Escalate(w)
    \/ Commit(w) \/ Return(w)

WorkerStep(w) ==
    /\ main # "aborted"
    /\ \/ PipeStep(w) \/ ApplyMessage(w) \/ CleanMessage(w)
       \/ CloseMailbox(w) \/ Quiesce(w) \/ BeginStop(w)
       \/ DrainNext(w) \/ DrainDone(w)

NeighbourStep(w, p) ==
    /\ main # "aborted"
    /\ \/ PipeTo(w, p) \/ EndUnpaired(w, p)
       \/ \E s \in Sides :
             \/ Forward(w, p, s) \/ ForwardEst(w, p, s) \/ ForwardFin(w, p, s)

Next ==
    \/ \E w \in Workers : WorkerStep(w)
    \/ \E w \in Workers, p \in Pairs : NeighbourStep(w, p)
    \/ RequestShutdown \/ OnQuiesceRequest \/ OnStop \/ Stopped

Spec == Init /\ [][Next]_vars

(* Workers run their calls and their messages, and the shutdown goes on    *)
(* once it is requested; neighbours need never call, nor anybody ask for a *)
(* shutdown.                                                               *)
FairSpec ==
    /\ Spec
    /\ \A w \in Workers : WF_vars(WorkerStep(w))
    /\ WF_vars(OnQuiesceRequest) /\ WF_vars(OnStop)

-----------------------------------------------------------------------------
(* Reference counts are exact, whatever the two workers are in the middle  *)
(* of.  A pair is held by the registry, by each attached side, by each     *)
(* queued message and by the functions at work; a line by its creator      *)
(* until it dies, by its pair and by the same messages and functions.  No  *)
(* assertion of pipe_tunnel.c or line.c fails, nothing is used after it    *)
(* was freed, and the final stop finds the registry empty.                 *)
QueuedFor(p, s) ==
    Cardinality({i \in 1 .. Len(queue[Home[p][s]]) :
                    /\ queue[Home[p][s]][i].p = p
                    /\ queue[Home[p][s]][i].s = s})
B(c) == IF c THEN 1 ELSE 0
ClaimsOnPair(p) ==
    B(p \in registry) + Cardinality(attached[p])
    + QueuedFor(p, "borrowed") + QueuedFor(p, "owned") + holds.pair[p]
OwnerRefs(w, p) ==
    Cardinality({i \in 1 .. Len(todo[w]) :
                    todo[w][i].op = "unrefOwner" /\ todo[w][i].p = p})
PendingOwnerRefs(p) ==
    OwnerRefs(Home[p]["borrowed"], p) + OwnerRefs(Home[p]["owned"], p)
ClaimsOnLine(p, s) ==
    B(alive[p, s]) + B(refs[p] > 0) + QueuedFor(p, s) + holds.line[p, s]
PipeInv ==
    /\ ~fault
    /\ \A p \in Pairs :
          /\ refs[p] = ClaimsOnPair(p) + PendingOwnerRefs(p)
          /\ \A s \in Sides :
                /\ refc[p, s] = ClaimsOnLine(p, s)
                /\ <<p, s>> \in lstate <=> s \in attached[p]

(* What each neighbour sees is one conversation: the tunnel behind the     *)
(* pipe first gets Init, once; payloads arrive in the order in which the   *)
(* other neighbour sent them with none left out in between; Est arrives at *)
(* most once, and not on a line that was established before it was joined; *)
(* and after a Finish in either direction nothing is delivered and no      *)
(* second Finish is.                                                       *)
Seen(t, m) == {i \in 1 .. Len(t) : t[i][1] = m}
OneConversation ==
    \A p \in Pairs, s \in Sides :
       LET t == trace[p, s] IN
       /\ \A i \in 1 .. Len(t) :
             /\ t[i][1] \in Closing => i = Len(t)
             /\ t[i][1] = "Init" <=> (s = "owned" /\ i = 1)
       /\ Cardinality(Seen(t, "Est")) <= 1
       /\ \A i \in Seen(t, "Payload") :
             t[i][2] = Cardinality({j \in Seen(t, "Payload") : j <= i})

(* The stop transition and the publication of pairs are serialised: once   *)
(* the pipe is stopping, every registered pair is terminal, the ones whose *)
(* pipeTo passed the check without the lock before that included.          *)
SweepIsComplete == stopping => registry \subseteq terminal

(* When the pipe has been stopped every pair is freed and every line it    *)
(* made is back in its pool.                                               *)
NothingKept ==
    main = "stopped" =>
        \A p \in Pairs : refs[p] = 0 /\ refc[p, "owned"] = 0

(* One side that is detached brings down the other: by its message, by the *)
(* terminal flag, or, if the message was refused, by the shutdown that the *)
(* refusal asks for (an abort, if that cannot be asked for, ends it too).  *)
HalfClosedEnds ==
    \A p \in Pairs :
       (p \in registry /\ attached[p] # Sides)
          ~> (refs[p] = 0 \/ main = "aborted")
=============================================================================
