----------------------------- MODULE GatewayProofs -----------------------------
(***************************************************************************)
(* The lemmas about the gateway, whatever it is composed with: how the     *)
(* dispatcher's promise chain moves, that the passes on it form one chain  *)
(* and the reports that wait for one are there to be taken off, and that   *)
(* the sessions stay in their type.                                        *)
(***************************************************************************)
EXTENDS Gateway, FiniteSetTheorems, TLAPS

USE DEF Tasks, NoTask

-----------------------------------------------------------------------------
(* The dispatcher's three ways to move its promise chain.                  *)

Enqueues(p, t) ==
    /\ pass[p].pc = "free"
    /\ pass' = [pass EXCEPT ![p] = [NoRun EXCEPT !.pc = "read", !.after = dispatchChain,
                                                 !.report = t]]
    /\ dispatchChain' = p

Advances(p) ==
    /\ Turn(p)
    /\ \E new \in Pass :
        /\ new.pc \in {"devices", "count", "claim", "assign"}
        /\ new.after = NoPass /\ new.report = pass[p].report
        /\ new.pc = "claim" => /\ new.dev \in Devices
                               /\ HasSlot(new.dev, new.limit) /\ UNCHANGED row
        /\ new.pc = "assign" => new.task \in Tasks
        /\ pass' = [pass EXCEPT ![p] = new]
    /\ UNCHANGED <<dispatchChain, chain>>

PassStep ==
    \/ \E p \in Passes : Enqueues(p, NoTask) /\ UNCHANGED chain
    \/ \E p \in Passes, t \in Tasks : Enqueues(p, t) /\ chain[t] # <<>> /\ ~AwaitsPass(t)
                                        /\ UNCHANGED chain
    \/ \E p \in Passes : Turn(p) /\ Settle(p)
    \/ \E p \in Passes : Advances(p)
    \/ UNCHANGED dispatchVars /\ UNCHANGED chain
    \/ \E t \in Tasks, rep \in Received : chain' = [chain EXCEPT ![t] = Append(@, rep)]
                                            /\ UNCHANGED dispatchVars
    \/ \E t \in Tasks : /\ chain[t] # <<>> /\ ~AwaitsPass(t)
                        /\ chain' = [chain EXCEPT ![t] = Tail(@)]
                        /\ UNCHANGED dispatchVars

(* What a pass whose turn it is may do without settling.                   *)
LEMMA StepAdvances ==
    ASSUME NEW p \in Passes, Turn(p), NEW new \in Pass, Step(p, new),
           new.pc \in {"devices", "count", "claim", "assign"},
           new.after = NoPass, new.report = pass[p].report,
           new.pc = "claim" => new.dev \in Devices /\ HasSlot(new.dev, new.limit) /\ UNCHANGED row,
           new.pc = "assign" => new.task \in Tasks
    PROVE  Advances(p)
  BY DEF Step, Advances

(* Going on to the next device either leaves a device to count or ends the *)
(* pass.                                                                   *)
LEMMA ProceedMoves ==
    ASSUME GatewayTypeOK, NEW p \in Passes, Turn(p), NEW todo \in SUBSET Devices,
           NEW again \in BOOLEAN, Proceed(p, todo, again)
    PROVE  Advances(p) \/ Settle(p)
<1> DEFINE going == [pass[p] EXCEPT !.pc = "count", !.dev = NoDevice, !.task = NoTask]
           same  == [going EXCEPT !.todo = todo, !.again = again]
           more  == [going EXCEPT !.todo = pass[p].online, !.again = FALSE]
<1>0. pass[p] \in Pass /\ pass[p].after = NoPass
  BY DEF GatewayTypeOK, Turn
<1>1. same \in Pass /\ same.pc = "count" /\ same.after = NoPass /\ same.report = pass[p].report
  BY <1>0 DEF Pass
<1>2. more \in Pass /\ more.pc = "count" /\ more.after = NoPass /\ more.report = pass[p].report
  BY <1>0 DEF Pass
<1>3. Step(p, same) \/ Step(p, more) \/ Settle(p)
  BY DEF Proceed
<1>4. CASE Step(p, same)
  <2> HIDE DEF same
  <2> QED BY <1>1, <1>4, StepAdvances
<1>5. CASE Step(p, more)
  <2> HIDE DEF more
  <2> QED BY <1>2, <1>5, StepAdvances
<1>q. QED BY <1>3, <1>4, <1>5

(* A step of pass p.                                                       *)
PassRuns(p) ==
    \/ ReadConnection(p)
    \/ ReadDevices(p)
    \/ \E d \in Devices : CountSlots(p, d)
    \/ \E skipped \in SUBSET Tasks : Claim(p, skipped)
    \/ SendAssign(p)

(* Every statement of dispatchForUser moves its own pass only, and takes   *)
(* its turn.                                                               *)
LEMMA PassMoves ==
    ASSUME GatewayTypeOK, ConnectionTypeOK, NEW p \in Passes, PassRuns(p)
    PROVE  Advances(p) \/ (Turn(p) /\ Settle(p))
<1>0. pass[p] \in Pass /\ connection.limit \in 0..MaxLimit
  BY MaxLimitAssumption DEF GatewayTypeOK, ConnectionTypeOK, Connections
<1>1. ASSUME ReadConnection(p)
      PROVE  Advances(p) \/ (Turn(p) /\ Settle(p))
  <2> DEFINE new == [pass[p] EXCEPT !.pc = "devices", !.limit = connection.limit]
  <2>1. Turn(p) /\ (Step(p, new) \/ Settle(p))
    BY <1>1 DEF ReadConnection
  <2>2. new \in Pass /\ new.pc = "devices" /\ new.after = NoPass /\ new.report = pass[p].report
    BY <1>0, <2>1 DEF Pass, Turn
  <2> HIDE DEF new
  <2>q. QED BY <2>1, <2>2, StepAdvances
<1>2. ASSUME ReadDevices(p)
      PROVE  Advances(p) \/ (Turn(p) /\ Settle(p))
  <2> DEFINE online == {d \in Devices : device[d] = "ONLINE"}
             new    == [pass[p] EXCEPT !.pc = "count", !.online = online, !.todo = online]
  <2>1. Turn(p) /\ (Step(p, new) \/ Settle(p))
    BY <1>2 DEF ReadDevices
  <2>2. new \in Pass /\ new.pc = "count" /\ new.after = NoPass /\ new.report = pass[p].report
    BY <1>0, <2>1 DEF Pass, Turn
  <2> HIDE DEF new
  <2>q. QED BY <2>1, <2>2, StepAdvances
<1>3. ASSUME NEW d \in Devices, CountSlots(p, d)
      PROVE  Advances(p) \/ (Turn(p) /\ Settle(p))
  <2>0. Turn(p) /\ UNCHANGED row
    BY <1>3 DEF CountSlots, tableVars
  <2>1. CASE HasSlot(d, pass[p].limit)
    <3> DEFINE new == [pass[p] EXCEPT !.pc = "claim", !.dev = d, !.todo = @ \ {d}]
    <3>1. Step(p, new)
      BY <1>3, <2>1 DEF CountSlots
    <3>2. /\ new \in Pass /\ new.pc = "claim" /\ new.after = NoPass
          /\ new.report = pass[p].report /\ new.dev = d /\ new.limit = pass[p].limit
      BY <1>0, <2>0 DEF Pass, Turn
    <3> HIDE DEF new
    <3>q. QED BY <2>0, <2>1, <3>1, <3>2, StepAdvances
  <2>2. CASE ~HasSlot(d, pass[p].limit)
    <3>1. Proceed(p, pass[p].todo \ {d}, pass[p].again)
      BY <1>3, <2>2 DEF CountSlots
    <3>2. pass[p].todo \ {d} \in SUBSET Devices /\ pass[p].again \in BOOLEAN
      BY <1>0 DEF Pass
    <3>q. QED BY <2>0, <3>1, <3>2, ProceedMoves
  <2>q. QED BY <2>1, <2>2
<1>4. ASSUME NEW skipped \in SUBSET Tasks, Claim(p, skipped)
      PROVE  Advances(p) \/ (Turn(p) /\ Settle(p))
  <2>1. Turn(p) /\ (Settle(p) \/ \E t \in Tasks : Step(p, [pass[p] EXCEPT !.pc = "assign", !.task = t]))
    BY <1>4 DEF Claim, Claimable, Queued
  <2>2. ASSUME NEW t \in Tasks, Step(p, [pass[p] EXCEPT !.pc = "assign", !.task = t])
        PROVE  Advances(p)
    <3> DEFINE new == [pass[p] EXCEPT !.pc = "assign", !.task = t]
    <3>1. /\ new \in Pass /\ new.pc = "assign" /\ new.after = NoPass
          /\ new.report = pass[p].report /\ new.task \in Tasks
      BY <1>0, <2>1 DEF Pass, Turn
    <3>2. Step(p, new)
      BY <2>2
    <3> HIDE DEF new
    <3>q. QED BY <2>1, <3>1, <3>2, StepAdvances
  <2>q. QED BY <2>1, <2>2
<1>5. ASSUME SendAssign(p)
      PROVE  Advances(p) \/ (Turn(p) /\ Settle(p))
  <2>1. Turn(p) /\ Proceed(p, pass[p].todo, TRUE) /\ pass[p].todo \in SUBSET Devices
    BY <1>0, <1>5 DEF SendAssign, Pass
  <2>q. QED BY <2>1, ProceedMoves
<1>q. QED
  BY <1>1, <1>2, <1>3, <1>4, <1>5 DEF PassRuns

(* scheduleDispatch appends one pass to the chain.                         *)
LEMMA DispatchEnqueues ==
    ASSUME NEW t, Dispatch(t)
    PROVE  \E p \in Passes : Enqueues(p, t)
  BY DEF Dispatch, Enqueues

(* What the handlers of a session and of a report do to the promise chain. *)
Serves(s) ==
    \/ \E d \in Devices : Connect(s, d)
    \/ Identify(s)
    \/ MarkOnline(s)
    \/ Drop(s)
    \/ MarkOffline(s)
    \/ Requeue(s)

(* What a socket's handlers do to the dispatcher: nothing, or ask for a    *)
(* pass.                                                                   *)
LEMMA SessionMoves ==
    ASSUME NEW s \in Sessions, Serves(s)
    PROVE  PassStep
<1>1. UNCHANGED chain
  BY DEF Serves, Connect, Identify, MarkOnline, Drop, MarkOffline, Requeue
<1>2. Dispatch(NoTask) \/ UNCHANGED dispatchVars
  BY DEF Serves, Connect, Identify, MarkOnline, Drop, MarkOffline, Requeue
<1>q. QED BY <1>1, <1>2, DispatchEnqueues DEF PassStep

(* A report at the head of its chain is applied and may ask for a pass it  *)
(* waits for.                                                              *)
LEMMA ReportMoves ==
    ASSUME NEW t \in Tasks,
           ApplyReport(t) \/ \E s \in Sessions, rep \in Reports : Receive(s, t, rep)
    PROVE  PassStep
<1>1. ASSUME NEW s \in Sessions, NEW rep \in Reports, Receive(s, t, rep) PROVE PassStep
  BY <1>1 DEF Receive, Joined, PassStep
<1>2. CASE ApplyReport(t)
  <2>1. chain[t] # <<>> /\ ~AwaitsPass(t)
    BY <1>2 DEF ApplyReport
  <2>2. \/ Dispatch(t) /\ UNCHANGED chain
        \/ chain' = [chain EXCEPT ![t] = Tail(@)] /\ UNCHANGED dispatchVars
    BY <1>2 DEF ApplyReport
  <2>3. CASE Dispatch(t) /\ UNCHANGED chain
    BY <2>1, <2>3, DispatchEnqueues DEF PassStep
  <2>4. CASE chain' = [chain EXCEPT ![t] = Tail(@)] /\ UNCHANGED dispatchVars
    BY <2>1, <2>4 DEF PassStep
  <2>q. QED BY <2>2, <2>3, <2>4
<1>q. QED BY <1>1, <1>2

-----------------------------------------------------------------------------
(* A report that waits for a pass is the head of its chain, and no other   *)
(* pass is its: so that the pass, when it settles, has a report to take    *)
(* off.                                                                    *)
ReportsAwait ==
    /\ \A p \in Passes : pass[p].report # NoTask =>
            pass[p].pc # "free" /\ chain[pass[p].report] # <<>>
    /\ \A p, q \in Passes : pass[p].report = pass[q].report /\ pass[p].report # NoTask => p = q

DispatcherTypeOK ==
    /\ chain \in [Tasks -> Seq(Received)]
    /\ dispatchChain \in Passes \cup {NoPass}
    /\ pass \in [Passes -> Pass]

(* A pass that is about to hand something out does so to a device.         *)
ClaimsForADevice == \A p \in Passes : pass[p].pc = "claim" => pass[p].dev \in Devices

(* The tail of a queue has the type of the queue.                          *)
LEMMA TailTyped ==
    ASSUME NEW S, NEW s \in Seq(S), s # <<>>
    PROVE  Tail(s) \in Seq(S)
  OBVIOUS

(* A pass that has just been asked for is a pass.                          *)
LEMMA BlankTyped ==
    ASSUME NEW t \in Tasks \cup {NoTask}, NEW a \in Passes \cup {NoPass}
    PROVE  /\ NoRun \in Pass
           /\ [NoRun EXCEPT !.pc = "read", !.after = a, !.report = t] \in Pass
<1>1. 0 \in 0..MaxLimit /\ {} \in SUBSET Devices /\ NoTask \in Tasks \cup {NoTask}
  BY MaxLimitAssumption
<1>2. NoRun \in Pass
  BY <1>1 DEF NoRun, Pass
<1>q. QED BY <1>2 DEF Pass

(* A pass whose predecessor has settled differs from before in that only.  *)
LEMMA ReleasedTyped ==
    ASSUME NEW x \in Pass
    PROVE  /\ [x EXCEPT !.after = NoPass] \in Pass
           /\ [x EXCEPT !.after = NoPass].report = x.report
           /\ [x EXCEPT !.after = NoPass].pc = x.pc
           /\ [x EXCEPT !.after = NoPass].after = NoPass
           /\ [x EXCEPT !.after = NoPass].dev = x.dev
           /\ [x EXCEPT !.after = NoPass].limit = x.limit
  BY DEF Pass

(* The dispatcher keeps its types, and a report its pass.                  *)
LEMMA DispatcherStep ==
    ASSUME DispatcherTypeOK, ReportsAwait, PassStep
    PROVE  DispatcherTypeOK' /\ ReportsAwait'
<1> USE DEF DispatcherTypeOK, ReportsAwait
<1>0. /\ \A p \in Passes : pass[p] \in Pass /\ pass[p].report \in Tasks \cup {NoTask}
      /\ \A p \in Passes : pass[p].after \in Passes \cup {NoPass}
  BY DEF Pass
<1>1. ASSUME NEW p \in Passes, NEW t \in Tasks \cup {NoTask}, Enqueues(p, t), UNCHANGED chain,
             t # NoTask => chain[t] # <<>> /\ ~AwaitsPass(t)
      PROVE  DispatcherTypeOK' /\ ReportsAwait'
  <2> DEFINE new == [NoRun EXCEPT !.pc = "read", !.after = dispatchChain, !.report = t]
  <2>1. new \in Pass /\ new.pc = "read" /\ new.report = t
    BY BlankTyped DEF NoRun
  <2>2. pass' = [pass EXCEPT ![p] = new] /\ dispatchChain' = p
    BY <1>1 DEF Enqueues
  <2> HIDE DEF new
  <2>3. DispatcherTypeOK'
    BY <1>1, <2>1, <2>2
  <2>4. ReportsAwait'
    BY <1>0, <1>1, <2>1, <2>2 DEF AwaitsPass
  <2>q. QED BY <2>3, <2>4
<1>2. ASSUME NEW p \in Passes, Turn(p), Settle(p)
      PROVE  DispatcherTypeOK' /\ ReportsAwait'
  <2>1. /\ \A q \in Passes : pass'[q] \in Pass
        /\ \A q \in Passes : q # p => pass'[q].report = pass[q].report /\ pass'[q].pc = pass[q].pc
        /\ pass'[p].report = NoTask
    <3>1. NoRun \in Pass /\ NoRun.report = NoTask
      BY BlankTyped DEF NoRun
    <3>2. \A q \in Passes : /\ [pass[q] EXCEPT !.after = NoPass] \in Pass
                            /\ [pass[q] EXCEPT !.after = NoPass].report = pass[q].report
                            /\ [pass[q] EXCEPT !.after = NoPass].pc = pass[q].pc
      BY <1>0, ReleasedTyped
    <3>3. \A q \in Passes : pass'[q] = IF q = p THEN NoRun
                                      ELSE IF pass[q].after = p
                                      THEN [pass[q] EXCEPT !.after = NoPass] ELSE pass[q]
      BY <1>2 DEF Settle
    <3>q. QED BY <1>0, <3>1, <3>2, <3>3
  <2>2. chain' \in [Tasks -> Seq(Received)]
    BY <1>0, <1>2, TailTyped DEF Settle
  <2>3. DispatcherTypeOK'
    BY <1>2, <2>1, <2>2 DEF Settle
  <2>4. \A q \in Passes : pass'[q].report # NoTask =>
            q # p /\ pass'[q].report # pass[p].report
    BY <1>0, <2>1
  <2>5. \A t \in Tasks : t # pass[p].report => chain'[t] = chain[t]
    BY <1>0, <1>2 DEF Settle
  <2>6. ReportsAwait'
    BY <1>0, <2>1, <2>4, <2>5
  <2>q. QED BY <2>3, <2>6
<1>3. ASSUME NEW p \in Passes, Advances(p)
      PROVE  DispatcherTypeOK' /\ ReportsAwait'
  <2>1. PICK new \in Pass : /\ new.pc \in {"devices", "count", "claim", "assign"}
                            /\ new.report = pass[p].report
                            /\ pass' = [pass EXCEPT ![p] = new]
    BY <1>3 DEF Advances
  <2>2. UNCHANGED <<dispatchChain, chain>> /\ pass[p].pc # "free"
    BY <1>3 DEF Advances, Turn
  <2>q. QED BY <1>0, <2>1, <2>2
<1>4. ASSUME UNCHANGED dispatchVars, UNCHANGED chain
      PROVE  DispatcherTypeOK' /\ ReportsAwait'
  BY <1>4 DEF dispatchVars
<1>5. ASSUME NEW t \in Tasks, NEW rep \in Received, chain' = [chain EXCEPT ![t] = Append(@, rep)],
             UNCHANGED dispatchVars
      PROVE  DispatcherTypeOK' /\ ReportsAwait'
  <2>1. Append(chain[t], rep) \in Seq(Received) /\ Append(chain[t], rep) # <<>>
    OBVIOUS
  <2>q. QED BY <1>0, <1>5, <2>1 DEF dispatchVars
<1>6. ASSUME NEW t \in Tasks, chain[t] # <<>>, ~AwaitsPass(t),
             chain' = [chain EXCEPT ![t] = Tail(@)], UNCHANGED dispatchVars
      PROVE  DispatcherTypeOK' /\ ReportsAwait'
  <2>1. Tail(chain[t]) \in Seq(Received)
    BY <1>6, TailTyped
  <2>q. QED BY <1>0, <1>6, <2>1 DEF dispatchVars, AwaitsPass
<1>q. QED
  BY <1>1, <1>2, <1>3, <1>4, <1>5, <1>6 DEF PassStep

(* A pass that is about to claim claims for a device.                      *)
LEMMA ForADeviceStep ==
    ASSUME DispatcherTypeOK, ClaimsForADevice, PassStep
    PROVE  ClaimsForADevice'
<1> USE DEF DispatcherTypeOK, ClaimsForADevice
<1>1. ASSUME NEW p \in Passes, NEW t \in Tasks \cup {NoTask}, Enqueues(p, t)
      PROVE  ClaimsForADevice'
  BY <1>1 DEF Enqueues, NoRun
<1>2. ASSUME NEW p \in Passes, Settle(p)
      PROVE  ClaimsForADevice'
  <2>1. \A q \in Passes : pass'[q] = IF q = p THEN NoRun
                                    ELSE IF pass[q].after = p
                                    THEN [pass[q] EXCEPT !.after = NoPass] ELSE pass[q]
    BY <1>2 DEF Settle
  <2>2. \A q \in Passes : /\ [pass[q] EXCEPT !.after = NoPass].pc = pass[q].pc
                          /\ [pass[q] EXCEPT !.after = NoPass].dev = pass[q].dev
    BY ReleasedTyped
  <2>3. NoRun.pc # "claim"
    BY DEF NoRun
  <2>4. ASSUME NEW q \in Passes, pass'[q].pc = "claim" PROVE pass'[q].dev \in Devices
    <3>1. CASE pass[q].after = p
      BY <2>1, <2>2, <2>3, <2>4, <3>1
    <3>2. CASE pass[q].after # p
      BY <2>1, <2>3, <2>4, <3>2
    <3>q. QED BY <3>1, <3>2
  <2>q. QED BY <2>4
<1>3. ASSUME NEW p \in Passes, Advances(p)
      PROVE  ClaimsForADevice'
  BY <1>3 DEF Advances
<1>4. ASSUME UNCHANGED dispatchVars PROVE ClaimsForADevice'
  BY <1>4 DEF dispatchVars
<1>q. QED BY <1>1, <1>2, <1>3, <1>4 DEF PassStep

-----------------------------------------------------------------------------
(* The passes of a user form one chain of promises: no two wait for the    *)
(* same one, the end of the chain is dispatchChain, and only the pass at   *)
(* its front has started.                                                  *)
Underway(p) == pass[p].pc # "free"

OneChain ==
    /\ \A p, q \in Passes : Underway(p) /\ Underway(q) /\ pass[p].after = pass[q].after => p = q
    /\ \A p \in Passes : Underway(p) /\ pass[p].after # NoPass =>
            /\ Underway(pass[p].after)
            /\ pass[p].after # dispatchChain
            /\ pass[p].pc = "read"
    /\ dispatchChain # NoPass => Underway(dispatchChain)
    /\ dispatchChain = NoPass => \A p \in Passes : Underway(p) => pass[p].after # NoPass

(* The waiting passes stay one chain: a new one is appended at its end, and*)
(* only the one at its head moves or settles (dispatchChains).             *)
LEMMA OneChainStep ==
    ASSUME DispatcherTypeOK, ReportsAwait, OneChain, PassStep
    PROVE  OneChain'
<1>0. /\ \A p \in Passes : pass[p] \in Pass /\ pass[p].after \in Passes \cup {NoPass}
      /\ dispatchChain \in Passes \cup {NoPass}
  BY DEF DispatcherTypeOK, Pass
<1>1. ASSUME NEW p \in Passes, NEW t \in Tasks \cup {NoTask}, Enqueues(p, t)
      PROVE  OneChain'
  <2> DEFINE new == [NoRun EXCEPT !.pc = "read", !.after = dispatchChain, !.report = t]
  <2>1. new \in Pass /\ new.pc = "read" /\ new.after = dispatchChain
    BY <1>0, BlankTyped DEF NoRun
  <2>2. pass' = [pass EXCEPT ![p] = new] /\ dispatchChain' = p /\ pass[p].pc = "free"
    BY <1>1 DEF Enqueues
  <2> HIDE DEF new
  <2>3. pass'[p] = new /\ \A q \in Passes : q # p => pass'[q] = pass[q]
    BY <2>2 DEF DispatcherTypeOK
  <2>q. QED BY <1>0, <2>1, <2>2, <2>3, NoPassAssumption DEF OneChain, Underway
<1>2. ASSUME NEW p \in Passes, Turn(p), Settle(p)
      PROVE  OneChain'
  <2>1. /\ pass'[p].pc = "free"
        /\ \A q \in Passes : q # p => /\ pass'[q].pc = pass[q].pc
                                      /\ pass'[q].after = IF pass[q].after = p THEN NoPass
                                                        ELSE pass[q].after
    <3>1. \A q \in Passes : pass'[q] = IF q = p THEN NoRun
                                      ELSE IF pass[q].after = p
                                      THEN [pass[q] EXCEPT !.after = NoPass] ELSE pass[q]
      BY <1>2 DEF Settle
    <3>2. \A q \in Passes : /\ [pass[q] EXCEPT !.after = NoPass].pc = pass[q].pc
                            /\ [pass[q] EXCEPT !.after = NoPass].after = NoPass
      BY <1>0, ReleasedTyped
    <3>3. pass'[p].pc = "free"
      <4>1. pass'[p] = NoRun
        BY <3>1
      <4>2. NoRun.pc = "free"
        BY DEF NoRun
      <4>q. QED BY <4>1, <4>2
    <3>4. ASSUME NEW q \in Passes, q # p
          PROVE  /\ pass'[q].pc = pass[q].pc
                 /\ pass'[q].after = IF pass[q].after = p THEN NoPass ELSE pass[q].after
      <4>1. CASE pass[q].after = p
        BY <3>1, <3>2, <3>4, <4>1
      <4>2. CASE pass[q].after # p
        BY <3>1, <3>4, <4>2
      <4>q. QED BY <4>1, <4>2
    <3>q. QED BY <3>3, <3>4
  <2>2. dispatchChain' = IF dispatchChain = p THEN NoPass ELSE dispatchChain
    BY <1>2 DEF Settle
  <2>3. pass[p].pc # "free" /\ pass[p].after = NoPass
    BY <1>2 DEF Turn
  <2>q. QED BY <1>0, <2>1, <2>2, <2>3, NoPassAssumption DEF OneChain, Underway
<1>3. ASSUME NEW p \in Passes, Advances(p)
      PROVE  OneChain'
  <2>1. PICK new \in Pass : /\ new.pc \in {"devices", "count", "claim", "assign"}
                            /\ new.after = NoPass
                            /\ pass' = [pass EXCEPT ![p] = new]
    BY <1>3 DEF Advances
  <2>2. UNCHANGED dispatchChain /\ pass[p].pc # "free" /\ pass[p].after = NoPass
    BY <1>3 DEF Advances, Turn
  <2>3. pass'[p] = new /\ \A q \in Passes : q # p => pass'[q] = pass[q]
    BY <2>1 DEF DispatcherTypeOK
  <2>q. QED BY <1>0, <2>1, <2>2, <2>3, NoPassAssumption DEF OneChain, Underway
<1>4. ASSUME UNCHANGED dispatchVars PROVE OneChain'
  BY <1>4 DEF dispatchVars, OneChain, Underway
<1>q. QED
  BY <1>1, <1>2, <1>3, <1>4 DEF PassStep

(* So at most one pass is past its first statement.                        *)
LEMMA OneRuns ==
    ASSUME DispatcherTypeOK, OneChain, NEW p \in Passes, NEW q \in Passes, Turn(p),
           pass[q].pc \in {"devices", "count", "claim", "assign"}
    PROVE  q = p
  BY DEF DispatcherTypeOK, OneChain, Underway, Turn, Pass

-----------------------------------------------------------------------------
(* What the handlers make of a session is a session.                       *)
LEMMA SessionTyped ==
    ASSUME NEW x \in Session
    PROVE  /\ NoSession \in Session
           /\ Settled(x) \in Session
           /\ [x EXCEPT !.connect = "mark"] \in Session
           /\ [x EXCEPT !.connect = "done"] \in Session
           /\ [x EXCEPT !.disconnect = "requeue"] \in Session
           /\ [x EXCEPT !.disconnect = "none"] \in Session
           /\ \A how \in {"mark", "none"} :
                  [x EXCEPT !.open = FALSE, !.disconnect = how] \in Session
  BY DEF Session, NoSession, Settled

(* The devices and their sockets.                                          *)
SocketsTypeOK ==
    /\ device \in [Devices -> {"ONLINE", "OFFLINE", "GONE"}]
    /\ session \in [Sessions -> Session]
    /\ overlooked \in BOOLEAN

(* Sockets and devices keep their types, whatever connects or closes.      *)
LEMMA SocketsTyped ==
    ASSUME SocketsTypeOK, NEW s \in Sessions, Serves(s)
    PROVE  SocketsTypeOK'
<1>0. /\ session[s] \in Session
      /\ Settled([session[s] EXCEPT !.connect = "done"]) \in Session
      /\ Settled([session[s] EXCEPT !.disconnect = "none"]) \in Session
  BY SessionTyped DEF SocketsTypeOK
<1>1. /\ device \in [Devices -> {"ONLINE", "OFFLINE", "GONE"}]
      /\ session \in [Sessions -> Session] /\ overlooked \in BOOLEAN
      /\ \/ \E d \in Devices : Connect(s, d)
         \/ Identify(s) \/ MarkOnline(s) \/ Drop(s) \/ MarkOffline(s) \/ Requeue(s)
  BY DEF SocketsTypeOK, Serves
<1>2. overlooked' \in BOOLEAN
  BY <1>1 DEF Connect, Identify, MarkOnline, Drop, MarkOffline, Requeue
<1>3. device' \in [Devices -> {"ONLINE", "OFFLINE", "GONE"}]
  BY <1>1 DEF Connect, Identify, MarkOnline, Drop, MarkOffline, Requeue, SetStatus
<1>4. ASSUME NEW x \in Session, session' = [session EXCEPT ![s] = x]
      PROVE  session' \in [Sessions -> Session]
  BY <1>1, <1>4
<1>5. ASSUME NEW d \in Devices, Connect(s, d)
      PROVE  session' \in [Sessions -> Session]
  <2> DEFINE new == [device |-> d, open |-> TRUE, connect |-> "find", disconnect |-> "none"]
  <2>1. session' = [session EXCEPT ![s] = new]
    BY <1>5 DEF Connect
  <2>2. new \in Session
    BY DEF Session
  <2> HIDE DEF new
  <2>q. QED BY <1>4, <2>1, <2>2
<1>6. ASSUME Identify(s) PROVE session' \in [Sessions -> Session]
  <2> DEFINE new == IF device[session[s].device] = "GONE" THEN NoSession
                    ELSE [session[s] EXCEPT !.connect = "mark"]
  <2>1. session' = [session EXCEPT ![s] = new]
    BY <1>1, <1>6 DEF Identify
  <2>2. new \in Session
    BY <1>0, SessionTyped
  <2> HIDE DEF new
  <2>q. QED BY <1>4, <2>1, <2>2
<1>7. ASSUME MarkOnline(s) PROVE session' \in [Sessions -> Session]
  <2> DEFINE new == Settled([session[s] EXCEPT !.connect = "done"])
  <2>1. session' = [session EXCEPT ![s] = new]
    BY <1>1, <1>7 DEF MarkOnline
  <2>2. new \in Session
    BY <1>0, SessionTyped
  <2> HIDE DEF new
  <2>q. QED BY <1>4, <2>1, <2>2
<1>8. ASSUME Drop(s) PROVE session' \in [Sessions -> Session]
  <2> DEFINE new == [session[s] EXCEPT !.open = FALSE,
                                        !.disconnect = IF Identified(s) THEN "mark" ELSE "none"]
  <2>1. session' = [session EXCEPT ![s] = new]
    BY <1>1, <1>8 DEF Drop
  <2>2. new \in Session
    BY <1>0, SessionTyped
  <2> HIDE DEF new
  <2>q. QED BY <1>4, <2>1, <2>2
<1>9. ASSUME MarkOffline(s) PROVE session' \in [Sessions -> Session]
  <2> DEFINE new == [session[s] EXCEPT !.disconnect = "requeue"]
  <2>1. session' = [session EXCEPT ![s] = new]
    BY <1>1, <1>9 DEF MarkOffline
  <2>2. new \in Session
    BY <1>0, SessionTyped
  <2> HIDE DEF new
  <2>q. QED BY <1>4, <2>1, <2>2
<1>10. ASSUME Requeue(s) PROVE session' \in [Sessions -> Session]
  <2> DEFINE new == Settled([session[s] EXCEPT !.disconnect = "none"])
  <2>1. session' = [session EXCEPT ![s] = new]
    BY <1>1, <1>10 DEF Requeue
  <2>2. new \in Session
    BY <1>0, SessionTyped
  <2> HIDE DEF new
  <2>q. QED BY <1>4, <2>1, <2>2
<1>11. session' \in [Sessions -> Session]
  BY <1>1, <1>5, <1>6, <1>7, <1>8, <1>9, <1>10
<1>q. QED BY <1>2, <1>3, <1>11 DEF SocketsTypeOK

-----------------------------------------------------------------------------
(* What the gateway may do to the row of task t.                           *)
HandsOut(p, t) ==
    /\ Turn(p) /\ pass[p].pc = "claim"
    /\ row[t].status = "QUEUED" /\ row'[t] = Claimed(row[t], pass[p].dev)
IsReported(t) ==
    /\ ApplyReport(t) /\ chain[t] # <<>> /\ Writable(row[t])
    /\ row'[t] = Reported(row[t], Head(chain[t]))
DeviceWrites(t) ==
    \/ row'[t] = row[t]
    \/ row[t].status \in Occupying /\ row'[t] = Requeued(row[t])
    \/ IsReported(t)
    \/ row'[t] = DeviceForgotten(row[t])
    \/ \E p \in Passes : HandsOut(p, t)

GatewayActs ==
    \/ \E p \in Passes : PassRuns(p)
    \/ \E s \in Sessions : Serves(s)
    \/ \E t \in Tasks : ApplyReport(t) \/ \E s \in Sessions, rep \in Reports : Receive(s, t, rep)
    \/ \E d \in Devices : RemoveDevice(d)

(* Every action of the gateway is a step of the dispatcher.                *)
LEMMA GatewayMoves ==
    ASSUME GatewayTypeOK, ConnectionTypeOK, GatewayActs
    PROVE  PassStep
<1>1. ASSUME NEW d \in Devices, RemoveDevice(d) PROVE PassStep
  BY <1>1 DEF RemoveDevice, PassStep
<1>2. ASSUME NEW p \in Passes, PassRuns(p) PROVE PassStep
  BY <1>2, PassMoves DEF PassStep
<1>q. QED BY <1>1, <1>2, SessionMoves, ReportMoves DEF GatewayActs

(* What the gateway writes into a row: claims apart, only the statements of*)
(* DeviceWrites.                                                           *)
LEMMA GatewayWrites ==
    ASSUME GatewayTypeOK, row \in [Tasks -> Row], GatewayActs
    PROVE  /\ SocketsTypeOK' /\ UNCHANGED created
           /\ row' = [t \in Tasks |-> row'[t]]
           /\ \A t \in Tasks : DeviceWrites(t)
<1> USE DEF SocketsTypeOK, GatewayTypeOK
<1>1. ASSUME UNCHANGED row PROVE row' = [t \in Tasks |-> row'[t]] /\ \A t \in Tasks : DeviceWrites(t)
  BY <1>1 DEF DeviceWrites
<1>2. ASSUME NEW p \in Passes, PassRuns(p)
      PROVE  /\ SocketsTypeOK' /\ UNCHANGED created
             /\ row' = [t \in Tasks |-> row'[t]] /\ \A t \in Tasks : DeviceWrites(t)
  <2>1. SocketsTypeOK' /\ UNCHANGED created
    BY <1>2 DEF PassRuns, ReadConnection, ReadDevices, CountSlots, Claim, SendAssign, tableVars
  <2>2. CASE UNCHANGED row
    BY <1>1, <2>1, <2>2
  <2>3. CASE ~UNCHANGED row
    <3>1. PICK skipped \in SUBSET Tasks : Claim(p, skipped)
      BY <1>2, <2>3 DEF PassRuns, ReadConnection, ReadDevices, CountSlots, SendAssign, tableVars
    <3>2. PICK u \in Tasks : /\ row[u].status = "QUEUED" /\ Turn(p) /\ pass[p].pc = "claim"
                             /\ row' = [row EXCEPT ![u] = Claimed(@, pass[p].dev)]
      BY <2>3, <3>1 DEF Claim, Claimable, Queued
    <3>3. \A t \in Tasks : DeviceWrites(t)
      BY <3>2 DEF DeviceWrites, HandsOut
    <3>q. QED BY <2>1, <3>2, <3>3
  <2>q. QED BY <2>2, <2>3
<1>3. ASSUME NEW s \in Sessions, Serves(s)
      PROVE  /\ SocketsTypeOK' /\ UNCHANGED created
             /\ row' = [t \in Tasks |-> row'[t]] /\ \A t \in Tasks : DeviceWrites(t)
  <2>1. SocketsTypeOK'
    BY <1>3, SocketsTyped
  <2>2. CASE Requeue(s)
    BY <2>1, <2>2 DEF Requeue, DeviceWrites, Occupied
  <2>3. CASE ~Requeue(s)
    BY <1>1, <1>3, <2>1, <2>3 DEF Serves, Connect, Identify, MarkOnline, Drop, MarkOffline, tableVars
  <2>q. QED BY <2>2, <2>3
<1>4. ASSUME NEW t \in Tasks, NEW s \in Sessions, NEW rep \in Reports, Receive(s, t, rep)
      PROVE  /\ SocketsTypeOK' /\ UNCHANGED created
             /\ row' = [u \in Tasks |-> row'[u]] /\ \A u \in Tasks : DeviceWrites(u)
  BY <1>1, <1>4 DEF Receive, tableVars
<1>5. ASSUME NEW t \in Tasks, ApplyReport(t)
      PROVE  /\ SocketsTypeOK' /\ UNCHANGED created
             /\ row' = [u \in Tasks |-> row'[u]] /\ \A u \in Tasks : DeviceWrites(u)
  <2>1. /\ SocketsTypeOK' /\ UNCHANGED created
        /\ chain[t] # <<>> /\ row' = [row EXCEPT ![t] = Reported(@, Head(chain[t]))]
    BY <1>5 DEF ApplyReport
  <2>3. \A u \in Tasks : u # t => row'[u] = row[u]
    BY <2>1
  <2>4. DeviceWrites(t)
    <3>1. row'[t] = Reported(row[t], Head(chain[t]))
      BY <2>1
    <3>q. QED BY <1>5, <2>1, <3>1 DEF DeviceWrites, IsReported, Reported
  <2>q. QED BY <2>1, <2>3, <2>4 DEF DeviceWrites
<1>6. ASSUME NEW d \in Devices, RemoveDevice(d)
      PROVE  /\ SocketsTypeOK' /\ UNCHANGED created
             /\ row' = [t \in Tasks |-> row'[t]] /\ \A t \in Tasks : DeviceWrites(t)
  BY <1>6 DEF RemoveDevice, DeviceWrites
<1>q. QED BY <1>2, <1>3, <1>4, <1>5, <1>6 DEF GatewayActs
=============================================================================
