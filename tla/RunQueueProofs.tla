--------------------------- MODULE RunQueueProofs ---------------------------
(***************************************************************************)
(* Proofs about RunQueue, for any number of rows, loops, kicks and crashes. *)
(* LoopInv is inductive as the lane stands and gives "one turn at a time"   *)
(* and "never twice".  That the row under a handler stays "running" needs   *)
(* more, BootInv: that nothing enters the lane before boot has recovered,   *)
(* which is the hypothesis NoEarlyRows of the theorems that depend on it    *)
(* (RunQueue_boot_window.cfg shows that the code does not guarantee it).    *)
(***************************************************************************)
EXTENDS RunQueue, TLAPS

NoEarlyRows  == EarlyRows = {}
DbNeverFails == DbMayFail = FALSE

\* A drain in progress has set the flag, so there is one of them.
FlagInv == /\ OneTurnAtATime
           /\ \A l \in Loops : Busy(l) => draining

\* A loop has a row from the reply to its claim until it has recorded the outcome.
HandInv == \A l \in Loops : /\ cur[l] # NoRow <=> pc[l] \in {"got", "run", "finish"}
                            /\ pc[l] = "finish" => out[l] \in {"done", "failed"}

\* A row that could still be claimed has not been run, nor has one just claimed.
FreshInv ==
    /\ \A r \in Rows : /\ enq[r] \in {"idle", "insert"} => status[r] = "absent"
                       /\ status[r] \in {"absent", "queued"} => runs[r] = 0
    /\ \A l \in Loops : /\ pc[l] = "got" => runs[cur[l]] = 0
                        /\ cur[l] # NoRow => status[cur[l]] \notin {"absent", "queued"}
    /\ RunAtMostOnce

LoopInv == TypeOK /\ FlagInv /\ HandInv /\ FreshInv

\* Before boot has ended the lane is untouched.
BootInv == /\ phase # "up" => /\ \A l \in Loops : ~Busy(l)
                              /\ \A r \in Rows : enq[r] \notin {"insert", "kick"}
                              /\ \A b \in Presses : press[b] = "idle"
                              /\ lateStarts = 0
           /\ HeldRowIsRunning

\* Once one turn was let through the closed lane no loop is about to start another.
ShutInv == paused \/ held => \/ lateStarts = 0
                             \/ /\ lateStarts = 1
                                /\ \A l \in Loops : pc[l] \notin {"claim", "got"}
-----------------------------------------------------------------------------
(* The helpers.                                                             *)

\* drain() leaves every loop alone but, if the lane was open and idle, one idle loop,
\* which it sends to its first claim.
LEMMA DrainEffect ==
  ASSUME TypeOK, FlagInv, NEW x \in BOOLEAN, NEW y \in BOOLEAN, NEW z \in BOOLEAN, Drain(x, y, z)
  PROVE  /\ draining' \in BOOLEAN /\ pc' \in [Loops -> LoopPc]
         /\ FlagInv'
         /\ \A l \in Loops : pc'[l] = pc[l] \/ (pc[l] = "idle" /\ pc'[l] = "claim")
         /\ y \/ z => pc' = pc
<1>1. CASE draining \/ ~x \/ y \/ z
  BY <1>1 DEF Drain, TypeOK, FlagInv, OneTurnAtATime, Busy
<1>2. CASE ~(draining \/ ~x \/ y \/ z)
  <2>1. /\ draining' = TRUE /\ ~draining /\ ~y /\ ~z
        /\ \E l \in Loops : ~Busy(l) /\ pc' = [pc EXCEPT ![l] = "claim"]
    BY <1>2 DEF Drain
  <2>2. PICK l \in Loops : ~Busy(l) /\ pc' = [pc EXCEPT ![l] = "claim"]
    BY <2>1
  <2>3. \A m \in Loops : pc[m] = "idle"
    BY <2>1 DEF FlagInv, Busy
  <2> QED
    BY <2>1, <2>2, <2>3 DEF TypeOK, FlagInv, OneTurnAtATime, Busy, LoopPc
<1> QED
  BY <1>1, <1>2
-----------------------------------------------------------------------------
(* LoopInv is inductive.                                                    *)

LEMMA InitLoopInv == Init => LoopInv
<1> SUFFICES ASSUME Init PROVE LoopInv
  OBVIOUS
<1>1. TypeOK
  BY ConstAssumption DEF Init, TypeOK, RowStatus, Phases, LoopPc, Outcomes, EnqPc, PressPc
<1>2. FlagInv /\ HandInv /\ FreshInv
  BY ConstAssumption DEF Init, FlagInv, OneTurnAtATime, Busy, HandInv, FreshInv, RunAtMostOnce
<1> QED
  BY <1>1, <1>2 DEF LoopInv

LEMMA TypeStep == LoopInv /\ [Next]_vars => TypeOK'
<1> SUFFICES ASSUME LoopInv, [Next]_vars PROVE TypeOK'
  OBVIOUS
<1>1. ASSUME NEW l \in Loops, Claim(l) PROVE TypeOK'
  <2>1. status' \in [Rows -> RowStatus] /\ pc' \in [Loops -> LoopPc]
        /\ cur' \in [Loops -> Rows \cup {NoRow}]
    <3>1. CASE \E r \in Queued : /\ status' = [status EXCEPT ![r] = "running"]
                                /\ pc' = [pc EXCEPT ![l] = "got"]
                                /\ cur' = [cur EXCEPT ![l] = r]
      BY <3>1 DEF Queued, LoopInv, TypeOK, RowStatus, LoopPc
    <3>2. CASE pc' = [pc EXCEPT ![l] = "empty"] /\ UNCHANGED <<status, cur>>
      BY <3>2 DEF LoopInv, TypeOK, LoopPc
    <3> QED
      BY <1>1, <3>1, <3>2 DEF Claim
  <2> QED
    BY <1>1, <2>1 DEF Claim, mongoVars, procVars, loopVars, callVars, histVars, LoopInv, TypeOK
<1>2. ASSUME NEW l \in Loops, DrainDone(l) PROVE TypeOK'
  BY <1>2 DEF DrainDone, mongoVars, procVars, loopVars, callVars, histVars, LoopInv, TypeOK,
     RowStatus, Phases, LoopPc, Outcomes, EnqPc
<1>3. ASSUME NEW l \in Loops, RunOne(l) PROVE TypeOK'
  BY <1>3 DEF RunOne, mongoVars, procVars, loopVars, callVars, histVars, LoopInv, TypeOK,
     RowStatus, Phases, LoopPc, Outcomes, EnqPc
<1>4. ASSUME NEW l \in Loops, HandlerEnds(l) PROVE TypeOK'
  BY <1>4 DEF HandlerEnds, mongoVars, procVars, loopVars, callVars, histVars, LoopInv, TypeOK,
     RowStatus, Phases, LoopPc, Outcomes, EnqPc
<1>5. ASSUME NEW l \in Loops, Finish(l) PROVE TypeOK'
  <2>1. status' \in [Rows -> RowStatus]
    BY <1>5 DEF Finish, LoopInv, HandInv, TypeOK, RowStatus
  <2>2. pc' \in [Loops -> LoopPc] /\ draining' \in BOOLEAN
    BY <1>5 DEF Finish, LoopInv, TypeOK, LoopPc
  <2>3. cur' \in [Loops -> Rows \cup {NoRow}] /\ out' \in [Loops -> Outcomes]
    BY <1>5 DEF Finish, LoopInv, TypeOK, Outcomes
  <2> QED
    BY <1>5, <2>1, <2>2, <2>3 DEF Finish, mongoVars, procVars, loopVars, callVars, histVars,
       LoopInv, TypeOK
<1>6. ASSUME NEW l \in Loops, RequestFails(l) PROVE TypeOK'
  BY <1>6 DEF RequestFails, mongoVars, procVars, loopVars, callVars, histVars, LoopInv, TypeOK,
     RowStatus, Phases, LoopPc, Outcomes, EnqPc
<1>7. ASSUME NEW r \in Rows, EnqueueCheck(r) PROVE TypeOK'
  BY <1>7 DEF EnqueueCheck, mongoVars, procVars, loopVars, callVars, histVars, LoopInv, TypeOK,
     RowStatus, Phases, LoopPc, Outcomes, EnqPc
<1>8. ASSUME NEW r \in Rows, EnqueueInsert(r) PROVE TypeOK'
  BY <1>8 DEF EnqueueInsert, mongoVars, procVars, loopVars, callVars, histVars, LoopInv, TypeOK,
     RowStatus, Phases, LoopPc, Outcomes, EnqPc
<1>9. ASSUME NEW r \in Rows, EnqueueKick(r) PROVE TypeOK'
  <2>1. draining' \in BOOLEAN /\ pc' \in [Loops -> LoopPc]
    BY <1>9, DrainEffect DEF EnqueueKick, LoopInv, TypeOK
  <2> QED
    BY <1>9, <2>1 DEF EnqueueKick, mongoVars, procVars, loopVars, callVars, histVars, LoopInv,
       TypeOK, EnqPc, Phases
<1>10. ASSUME NEW r \in Rows, Cancel(r) PROVE TypeOK'
  BY <1>10 DEF Cancel, mongoVars, procVars, loopVars, callVars, histVars, LoopInv, TypeOK,
     RowStatus, Phases, LoopPc, Outcomes, EnqPc
<1>11. ASSUME NEW r \in Rows, PromoteRead(r) PROVE TypeOK'
  <2>1. promo' \in [Rows -> Nat]
    BY <1>11 DEF PromoteRead, Queued, LoopInv, TypeOK
  <2> QED
    BY <1>11, <2>1 DEF PromoteRead, mongoVars, procVars, loopVars, callVars, histVars, LoopInv,
       TypeOK
<1>12. ASSUME NEW r \in Rows, PromoteWrite(r) PROVE TypeOK'
  BY <1>12 DEF PromoteWrite, mongoVars, procVars, loopVars, callVars, histVars, LoopInv, TypeOK,
     RowStatus, Phases, LoopPc, Outcomes, EnqPc
<1>13. ASSUME NEW b \in Presses, NEW on \in BOOLEAN, SetPaused(b, on) PROVE TypeOK'
  <2>1. press' \in [Presses -> PressPc]
    BY <1>13 DEF SetPaused, LoopInv, TypeOK, PressPc
  <2>2. paused' \in BOOLEAN /\ lateStarts' \in Nat /\ crossed' \in BOOLEAN
    BY <1>13 DEF SetPaused, LoopInv, TypeOK
  <2> QED
    BY <1>13, <2>1, <2>2 DEF SetPaused, mongoVars, loopVars, LoopInv, TypeOK
<1>14. ASSUME NEW b \in BOOLEAN, Hold(b) PROVE TypeOK'
  <2>1. draining' \in BOOLEAN /\ pc' \in [Loops -> LoopPc]
    BY <1>14, DrainEffect DEF Hold, LoopInv, TypeOK
  <2> QED
    BY <1>14, <2>1 DEF Hold, mongoVars, procVars, loopVars, callVars, histVars, LoopInv, TypeOK
<1>15. ASSUME NEW b \in Presses, PressAnswered(b) PROVE TypeOK'
  <2>1. draining' \in BOOLEAN /\ pc' \in [Loops -> LoopPc]
    BY <1>15, DrainEffect DEF PressAnswered, LoopInv, TypeOK
  <2>2. press' \in [Presses -> PressPc]
    BY <1>15 DEF PressAnswered, LoopInv, TypeOK, PressPc
  <2> QED
    BY <1>15, <2>1, <2>2 DEF PressAnswered, mongoVars, histVars, LoopInv, TypeOK
<1>15a. ASSUME NEW b \in Presses, PressStored(b) PROVE TypeOK'
  <2>1. press' \in [Presses -> PressPc]
    BY <1>15a DEF PressStored, LoopInv, TypeOK, PressPc
  <2>2. pausedSetting' \in BOOLEAN
    BY <1>15a DEF PressStored
  <2> QED
    BY <1>15a, <2>1, <2>2 DEF PressStored, procVars, loopVars, histVars, LoopInv, TypeOK
<1>15b. ASSUME NEW b \in Presses, PressRefused(b) PROVE TypeOK'
  <2>1. press' \in [Presses -> PressPc]
    BY <1>15b DEF PressRefused, LoopInv, TypeOK, PressPc
  <2> QED
    BY <1>15b, <2>1 DEF PressRefused, mongoVars, procVars, loopVars, histVars, LoopInv, TypeOK
<1>16. ASSUME Boot PROVE TypeOK'
  BY <1>16 DEF Boot, mongoVars, procVars, loopVars, callVars, histVars, LoopInv, TypeOK,
     RowStatus, Phases, LoopPc, Outcomes, EnqPc
<1>17. ASSUME StartBegins PROVE TypeOK'
  BY <1>17 DEF StartBegins, mongoVars, procVars, loopVars, callVars, histVars, LoopInv, TypeOK,
     RowStatus, Phases, LoopPc, Outcomes, EnqPc
<1>18. ASSUME StartReadsPause PROVE TypeOK'
  BY <1>18 DEF StartReadsPause, mongoVars, procVars, loopVars, callVars, histVars, LoopInv,
     TypeOK, RowStatus, Phases, LoopPc, Outcomes, EnqPc
<1>19. ASSUME Recover PROVE TypeOK'
  BY <1>19 DEF Recover, mongoVars, procVars, loopVars, callVars, histVars, LoopInv, TypeOK,
     RowStatus, Phases, LoopPc, Outcomes, EnqPc
<1>20. ASSUME StartKicks PROVE TypeOK'
  <2>1. draining' \in BOOLEAN /\ pc' \in [Loops -> LoopPc]
    BY <1>20, DrainEffect DEF StartKicks, LoopInv, TypeOK
  <2> QED
    BY <1>20, <2>1 DEF StartKicks, mongoVars, procVars, loopVars, callVars, histVars, LoopInv,
       TypeOK, EnqPc, Phases
<1>21. ASSUME Crash PROVE TypeOK'
  <2>1. /\ pc' \in [Loops -> LoopPc] /\ cur' \in [Loops -> Rows \cup {NoRow}]
        /\ out' \in [Loops -> Outcomes]
    BY <1>21 DEF Crash, LoopPc, Outcomes
  <2>2. enq' \in [Rows -> EnqPc] /\ promo' \in [Rows -> Nat]
    BY <1>21 DEF Crash, LoopInv, TypeOK, EnqPc
  <2>3. /\ phase' \in Phases /\ started' \in BOOLEAN /\ paused' \in BOOLEAN
        /\ held' \in BOOLEAN /\ draining' \in BOOLEAN
    BY <1>21 DEF Crash, Phases
  <2>4. crashes' \in Nat /\ lateStarts' \in Nat
    BY <1>21 DEF Crash, LoopInv, TypeOK
  <2>4a. crossed' \in BOOLEAN /\ press' \in [Presses -> PressPc]
    BY <1>21 DEF Crash, PressPc
  <2>5. UNCHANGED <<status, prio, at, clock, pausedSetting, runs>>
    BY <1>21 DEF Crash, mongoVars
  <2> QED
    BY <2>1, <2>2, <2>3, <2>4, <2>4a, <2>5 DEF LoopInv, TypeOK
<1>22. ASSUME UNCHANGED vars PROVE TypeOK'
  BY <1>22 DEF vars, mongoVars, procVars, loopVars, callVars, histVars, LoopInv, TypeOK,
     RowStatus, Phases, LoopPc, Outcomes, EnqPc
<1> QED
  BY <1>1, <1>2, <1>3, <1>4, <1>5, <1>6, <1>7, <1>8, <1>9, <1>10, <1>11, <1>12, <1>13, <1>14,
     <1>15, <1>15a, <1>15b, <1>16, <1>17, <1>18, <1>19, <1>20, <1>21, <1>22 DEF Next, LoopStep, BootStep

LEMMA FlagStep == LoopInv /\ [Next]_vars => FlagInv'
<1> SUFFICES ASSUME LoopInv, [Next]_vars PROVE FlagInv'
  OBVIOUS
<1>1. ASSUME NEW l \in Loops, Claim(l) PROVE FlagInv'
  BY <1>1 DEF Claim, mongoVars, procVars, loopVars, callVars, histVars, LoopInv, TypeOK,
     FlagInv, OneTurnAtATime, Busy
<1>2. ASSUME NEW l \in Loops, DrainDone(l) PROVE FlagInv'
  BY <1>2 DEF DrainDone, mongoVars, procVars, loopVars, callVars, histVars, LoopInv, TypeOK,
     FlagInv, OneTurnAtATime, Busy
<1>3. ASSUME NEW l \in Loops, RunOne(l) PROVE FlagInv'
  BY <1>3 DEF RunOne, mongoVars, procVars, loopVars, callVars, histVars, LoopInv, TypeOK,
     FlagInv, OneTurnAtATime, Busy
<1>4. ASSUME NEW l \in Loops, HandlerEnds(l) PROVE FlagInv'
  BY <1>4 DEF HandlerEnds, mongoVars, procVars, loopVars, callVars, histVars, LoopInv, TypeOK,
     FlagInv, OneTurnAtATime, Busy
<1>5. ASSUME NEW l \in Loops, Finish(l) PROVE FlagInv'
  BY <1>5 DEF Finish, mongoVars, procVars, loopVars, callVars, histVars, LoopInv, TypeOK,
     FlagInv, OneTurnAtATime, Busy
<1>6. ASSUME NEW l \in Loops, RequestFails(l) PROVE FlagInv'
  BY <1>6 DEF RequestFails, mongoVars, procVars, loopVars, callVars, histVars, LoopInv, TypeOK,
     FlagInv, OneTurnAtATime, Busy
<1>7. ASSUME NEW r \in Rows, EnqueueCheck(r) PROVE FlagInv'
  BY <1>7 DEF EnqueueCheck, mongoVars, procVars, loopVars, callVars, histVars, LoopInv, TypeOK,
     FlagInv, OneTurnAtATime, Busy
<1>8. ASSUME NEW r \in Rows, EnqueueInsert(r) PROVE FlagInv'
  BY <1>8 DEF EnqueueInsert, mongoVars, procVars, loopVars, callVars, histVars, LoopInv, TypeOK,
     FlagInv, OneTurnAtATime, Busy
<1>9. ASSUME NEW r \in Rows, EnqueueKick(r) PROVE FlagInv'
  BY <1>9, DrainEffect DEF EnqueueKick, LoopInv, TypeOK
<1>10. ASSUME NEW r \in Rows, Cancel(r) PROVE FlagInv'
  BY <1>10 DEF Cancel, mongoVars, procVars, loopVars, callVars, histVars, LoopInv, TypeOK,
     FlagInv, OneTurnAtATime, Busy
<1>11. ASSUME NEW r \in Rows, PromoteRead(r) PROVE FlagInv'
  BY <1>11 DEF PromoteRead, mongoVars, procVars, loopVars, callVars, histVars, LoopInv, TypeOK,
     FlagInv, OneTurnAtATime, Busy
<1>12. ASSUME NEW r \in Rows, PromoteWrite(r) PROVE FlagInv'
  BY <1>12 DEF PromoteWrite, mongoVars, procVars, loopVars, callVars, histVars, LoopInv, TypeOK,
     FlagInv, OneTurnAtATime, Busy
<1>13. ASSUME NEW b \in Presses, NEW on \in BOOLEAN, SetPaused(b, on) PROVE FlagInv'
  BY <1>13 DEF SetPaused, mongoVars, procVars, loopVars, callVars, histVars, LoopInv, TypeOK,
     FlagInv, OneTurnAtATime, Busy
<1>14. ASSUME NEW b \in BOOLEAN, Hold(b) PROVE FlagInv'
  <2>1. CASE b
    BY <1>14, <2>1 DEF Hold, LoopInv, FlagInv, OneTurnAtATime, Busy
  <2>2. CASE ~b
    BY <1>14, <2>2, DrainEffect DEF Hold, LoopInv, TypeOK
  <2> QED
    BY <2>1, <2>2
<1>15. ASSUME NEW b \in Presses, PressAnswered(b) PROVE FlagInv'
  BY <1>15, DrainEffect DEF PressAnswered, LoopInv, TypeOK
<1>15a. ASSUME NEW b \in Presses, PressStored(b) PROVE FlagInv'
  BY <1>15a DEF PressStored, mongoVars, procVars, loopVars, callVars, histVars, LoopInv, TypeOK,
     FlagInv, OneTurnAtATime, Busy
<1>15b. ASSUME NEW b \in Presses, PressRefused(b) PROVE FlagInv'
  BY <1>15b DEF PressRefused, mongoVars, procVars, loopVars, callVars, histVars, LoopInv, TypeOK,
     FlagInv, OneTurnAtATime, Busy
<1>16. ASSUME Boot PROVE FlagInv'
  BY <1>16 DEF Boot, mongoVars, procVars, loopVars, callVars, histVars, LoopInv, TypeOK,
     FlagInv, OneTurnAtATime, Busy
<1>17. ASSUME StartBegins PROVE FlagInv'
  BY <1>17 DEF StartBegins, mongoVars, procVars, loopVars, callVars, histVars, LoopInv, TypeOK,
     FlagInv, OneTurnAtATime, Busy
<1>18. ASSUME StartReadsPause PROVE FlagInv'
  BY <1>18 DEF StartReadsPause, mongoVars, procVars, loopVars, callVars, histVars, LoopInv,
     TypeOK, FlagInv, OneTurnAtATime, Busy
<1>19. ASSUME Recover PROVE FlagInv'
  BY <1>19 DEF Recover, mongoVars, procVars, loopVars, callVars, histVars, LoopInv, TypeOK,
     FlagInv, OneTurnAtATime, Busy
<1>20. ASSUME StartKicks PROVE FlagInv'
  BY <1>20, DrainEffect DEF StartKicks, LoopInv, TypeOK
<1>21. ASSUME Crash PROVE FlagInv'
  BY <1>21 DEF Crash, mongoVars, procVars, loopVars, callVars, histVars, LoopInv, TypeOK,
     FlagInv, OneTurnAtATime, Busy
<1>22. ASSUME UNCHANGED vars PROVE FlagInv'
  BY <1>22 DEF vars, mongoVars, procVars, loopVars, callVars, histVars, LoopInv, TypeOK,
     FlagInv, OneTurnAtATime, Busy
<1> QED
  BY <1>1, <1>2, <1>3, <1>4, <1>5, <1>6, <1>7, <1>8, <1>9, <1>10, <1>11, <1>12, <1>13, <1>14,
     <1>15, <1>15a, <1>15b, <1>16, <1>17, <1>18, <1>19, <1>20, <1>21, <1>22 DEF Next, LoopStep, BootStep

LEMMA HandStep == LoopInv /\ [Next]_vars => HandInv'
<1> SUFFICES ASSUME LoopInv, [Next]_vars PROVE HandInv'
  OBVIOUS
<1>1. ASSUME NEW l \in Loops, Claim(l) PROVE HandInv'
  <2>1. \A m \in Loops : m # l => pc'[m] = pc[m] /\ cur'[m] = cur[m] /\ out'[m] = out[m]
    BY <1>1 DEF Claim, Queued, LoopInv, TypeOK
  <2>2. \/ pc'[l] = "got" /\ cur'[l] \in Rows
        \/ pc'[l] = "empty" /\ cur'[l] = cur[l] /\ pc[l] = "claim"
    BY <1>1 DEF Claim, Queued, LoopInv, TypeOK
  <2> QED
    BY <2>1, <2>2, ConstAssumption DEF LoopInv, HandInv
<1>2. ASSUME NEW l \in Loops, DrainDone(l) PROVE HandInv'
  BY <1>2, ConstAssumption DEF DrainDone, mongoVars, procVars, loopVars, callVars, histVars,
     LoopInv, TypeOK, HandInv
<1>3. ASSUME NEW l \in Loops, RunOne(l) PROVE HandInv'
  BY <1>3, ConstAssumption DEF RunOne, mongoVars, procVars, loopVars, callVars, histVars,
     LoopInv, TypeOK, HandInv
<1>4. ASSUME NEW l \in Loops, HandlerEnds(l) PROVE HandInv'
  BY <1>4, ConstAssumption DEF HandlerEnds, mongoVars, procVars, loopVars, callVars, histVars,
     LoopInv, TypeOK, HandInv
<1>5. ASSUME NEW l \in Loops, Finish(l) PROVE HandInv'
  BY <1>5, ConstAssumption DEF Finish, mongoVars, procVars, loopVars, callVars, histVars,
     LoopInv, TypeOK, HandInv
<1>6. ASSUME NEW l \in Loops, RequestFails(l) PROVE HandInv'
  BY <1>6, ConstAssumption DEF RequestFails, mongoVars, procVars, loopVars, callVars, histVars,
     LoopInv, TypeOK, HandInv
<1>7. ASSUME NEW r \in Rows, EnqueueCheck(r) PROVE HandInv'
  BY <1>7, ConstAssumption DEF EnqueueCheck, mongoVars, procVars, loopVars, callVars, histVars,
     LoopInv, TypeOK, HandInv
<1>8. ASSUME NEW r \in Rows, EnqueueInsert(r) PROVE HandInv'
  BY <1>8, ConstAssumption DEF EnqueueInsert, mongoVars, procVars, loopVars, callVars, histVars,
     LoopInv, TypeOK, HandInv
<1>9. ASSUME NEW r \in Rows, EnqueueKick(r) PROVE HandInv'
  <2>1. \A l \in Loops : pc'[l] = pc[l] \/ (pc[l] = "idle" /\ pc'[l] = "claim")
    BY <1>9, DrainEffect DEF EnqueueKick, LoopInv, TypeOK
  <2> QED
    BY <1>9, <2>1 DEF EnqueueKick, LoopInv, HandInv
<1>10. ASSUME NEW r \in Rows, Cancel(r) PROVE HandInv'
  BY <1>10, ConstAssumption DEF Cancel, mongoVars, procVars, loopVars, callVars, histVars,
     LoopInv, TypeOK, HandInv
<1>11. ASSUME NEW r \in Rows, PromoteRead(r) PROVE HandInv'
  BY <1>11, ConstAssumption DEF PromoteRead, mongoVars, procVars, loopVars, callVars, histVars,
     LoopInv, TypeOK, HandInv
<1>12. ASSUME NEW r \in Rows, PromoteWrite(r) PROVE HandInv'
  BY <1>12, ConstAssumption DEF PromoteWrite, mongoVars, procVars, loopVars, callVars, histVars,
     LoopInv, TypeOK, HandInv
<1>13. ASSUME NEW b \in Presses, NEW on \in BOOLEAN, SetPaused(b, on) PROVE HandInv'
  BY <1>13, ConstAssumption DEF SetPaused, mongoVars, procVars, loopVars, callVars, histVars,
     LoopInv, TypeOK, HandInv
<1>14. ASSUME NEW b \in BOOLEAN, Hold(b) PROVE HandInv'
  <2>1. \A l \in Loops : pc'[l] = pc[l] \/ (pc[l] = "idle" /\ pc'[l] = "claim")
    BY <1>14, DrainEffect DEF Hold, LoopInv, TypeOK
  <2> QED
    BY <1>14, <2>1 DEF Hold, LoopInv, HandInv
<1>15. ASSUME NEW b \in Presses, PressAnswered(b) PROVE HandInv'
  <2>1. \A l \in Loops : pc'[l] = pc[l] \/ (pc[l] = "idle" /\ pc'[l] = "claim")
    BY <1>15, DrainEffect DEF PressAnswered, LoopInv, TypeOK
  <2> QED
    BY <1>15, <2>1 DEF PressAnswered, LoopInv, HandInv
<1>15a. ASSUME NEW b \in Presses, PressStored(b) PROVE HandInv'
  BY <1>15a, ConstAssumption DEF PressStored, mongoVars, procVars, loopVars, callVars, histVars,
     LoopInv, TypeOK, HandInv
<1>15b. ASSUME NEW b \in Presses, PressRefused(b) PROVE HandInv'
  BY <1>15b, ConstAssumption DEF PressRefused, mongoVars, procVars, loopVars, callVars, histVars,
     LoopInv, TypeOK, HandInv
<1>16. ASSUME Boot PROVE HandInv'
  BY <1>16, ConstAssumption DEF Boot, mongoVars, procVars, loopVars, callVars, histVars,
     LoopInv, TypeOK, HandInv
<1>17. ASSUME StartBegins PROVE HandInv'
  BY <1>17, ConstAssumption DEF StartBegins, mongoVars, procVars, loopVars, callVars, histVars,
     LoopInv, TypeOK, HandInv
<1>18. ASSUME StartReadsPause PROVE HandInv'
  BY <1>18, ConstAssumption DEF StartReadsPause, mongoVars, procVars, loopVars, callVars,
     histVars, LoopInv, TypeOK, HandInv
<1>19. ASSUME Recover PROVE HandInv'
  BY <1>19, ConstAssumption DEF Recover, mongoVars, procVars, loopVars, callVars, histVars,
     LoopInv, TypeOK, HandInv
<1>20. ASSUME StartKicks PROVE HandInv'
  <2>1. \A l \in Loops : pc'[l] = pc[l] \/ (pc[l] = "idle" /\ pc'[l] = "claim")
    BY <1>20, DrainEffect DEF StartKicks, LoopInv, TypeOK
  <2> QED
    BY <1>20, <2>1 DEF StartKicks, LoopInv, HandInv
<1>21. ASSUME Crash PROVE HandInv'
  BY <1>21, ConstAssumption DEF Crash, mongoVars, procVars, loopVars, callVars, histVars,
     LoopInv, TypeOK, HandInv
<1>22. ASSUME UNCHANGED vars PROVE HandInv'
  BY <1>22, ConstAssumption DEF vars, mongoVars, procVars, loopVars, callVars, histVars,
     LoopInv, TypeOK, HandInv
<1> QED
  BY <1>1, <1>2, <1>3, <1>4, <1>5, <1>6, <1>7, <1>8, <1>9, <1>10, <1>11, <1>12, <1>13, <1>14,
     <1>15, <1>15a, <1>15b, <1>16, <1>17, <1>18, <1>19, <1>20, <1>21, <1>22 DEF Next, LoopStep, BootStep

LEMMA FreshStep == LoopInv /\ [Next]_vars => FreshInv'
<1> SUFFICES ASSUME LoopInv, [Next]_vars PROVE FreshInv'
  OBVIOUS
<1>1. ASSUME NEW l \in Loops, Claim(l) PROVE FreshInv'
  <2>1. CASE \E r \in Queued : /\ status' = [status EXCEPT ![r] = "running"]
                              /\ pc' = [pc EXCEPT ![l] = "got"]
                              /\ cur' = [cur EXCEPT ![l] = r]
    <3>1. PICK r \in Queued : /\ status' = [status EXCEPT ![r] = "running"]
                             /\ pc' = [pc EXCEPT ![l] = "got"]
                             /\ cur' = [cur EXCEPT ![l] = r]
      BY <2>1
    <3>2. r \in Rows /\ status[r] = "queued" /\ runs[r] = 0
      BY DEF Queued, LoopInv, FreshInv
    <3>3. enq' = enq /\ runs' = runs
      BY <1>1 DEF Claim, callVars, histVars
    <3> QED
      BY <3>1, <3>2, <3>3 DEF LoopInv, TypeOK, FreshInv, RunAtMostOnce
  <2>2. CASE pc' = [pc EXCEPT ![l] = "empty"] /\ UNCHANGED <<status, cur>>
    BY <1>1, <2>2 DEF Claim, callVars, histVars, LoopInv, TypeOK, FreshInv, RunAtMostOnce
  <2> QED
    BY <1>1, <2>1, <2>2 DEF Claim
<1>2. ASSUME NEW l \in Loops, DrainDone(l) PROVE FreshInv'
  BY <1>2 DEF DrainDone, mongoVars, procVars, loopVars, callVars, histVars, LoopInv, TypeOK,
     FreshInv, RunAtMostOnce
<1>3. ASSUME NEW l \in Loops, RunOne(l) PROVE FreshInv'
  <2>1. CASE /\ pc' = [pc EXCEPT ![l] = "run"]
             /\ runs' = [runs EXCEPT ![cur[l]] = @ + 1]
    <3>1. /\ cur[l] \in Rows /\ runs[cur[l]] = 0
          /\ status[cur[l]] \notin {"absent", "queued"}
      BY <1>3 DEF RunOne, LoopInv, TypeOK, HandInv, FreshInv
    <3>2. \A m \in Loops : m # l => pc[m] = "idle"
      BY <1>3 DEF RunOne, LoopInv, FlagInv, OneTurnAtATime, Busy
    <3>3. status' = status /\ enq' = enq /\ cur' = cur
      BY <1>3 DEF RunOne, mongoVars, callVars
    <3>4. \A m \in Loops : pc'[m] # "got"
      BY <1>3, <2>1, <3>2 DEF LoopInv, TypeOK
    <3>5. \A r \in Rows : runs'[r] = IF r = cur[l] THEN 1 ELSE runs[r]
      BY <2>1, <3>1 DEF LoopInv, TypeOK
    <3> QED
      BY <3>1, <3>3, <3>4, <3>5 DEF LoopInv, FreshInv, RunAtMostOnce
  <2>2. CASE pc' = [pc EXCEPT ![l] = "finish"] /\ runs' = runs
    BY <1>3, <2>2 DEF RunOne, mongoVars, callVars, LoopInv, TypeOK, FreshInv, RunAtMostOnce
  <2> QED
    BY <1>3, <2>1, <2>2 DEF RunOne
<1>4. ASSUME NEW l \in Loops, HandlerEnds(l) PROVE FreshInv'
  BY <1>4 DEF HandlerEnds, mongoVars, procVars, loopVars, callVars, histVars, LoopInv, TypeOK,
     FreshInv, RunAtMostOnce
<1>5. ASSUME NEW l \in Loops, Finish(l) PROVE FreshInv'
  <2>1. /\ cur[l] \in Rows /\ out[l] \in {"done", "failed"}
        /\ status[cur[l]] \notin {"absent", "queued"}
    BY <1>5 DEF Finish, LoopInv, TypeOK, HandInv, FreshInv
  <2>2. /\ status' = [status EXCEPT ![cur[l]] = out[l]]
        /\ cur' = [cur EXCEPT ![l] = NoRow]
        /\ enq' = enq /\ runs' = runs
    BY <1>5 DEF Finish, callVars, histVars
  <2>3. \A m \in Loops : pc'[m] = "got" => m # l /\ pc[m] = "got"
    BY <1>5 DEF Finish, LoopInv, TypeOK
  <2> QED
    BY <2>1, <2>2, <2>3 DEF LoopInv, TypeOK, FreshInv, RunAtMostOnce
<1>6. ASSUME NEW l \in Loops, RequestFails(l) PROVE FreshInv'
  BY <1>6 DEF RequestFails, mongoVars, procVars, loopVars, callVars, histVars, LoopInv, TypeOK,
     FreshInv, RunAtMostOnce
<1>7. ASSUME NEW r \in Rows, EnqueueCheck(r) PROVE FreshInv'
  BY <1>7 DEF EnqueueCheck, mongoVars, procVars, loopVars, callVars, histVars, LoopInv, TypeOK,
     FreshInv, RunAtMostOnce
<1>8. ASSUME NEW r \in Rows, EnqueueInsert(r) PROVE FreshInv'
  BY <1>8 DEF EnqueueInsert, mongoVars, procVars, loopVars, callVars, histVars, LoopInv, TypeOK,
     FreshInv, RunAtMostOnce
<1>9. ASSUME NEW r \in Rows, EnqueueKick(r) PROVE FreshInv'
  <2>1. \A l \in Loops : pc'[l] = pc[l] \/ (pc[l] = "idle" /\ pc'[l] = "claim")
    BY <1>9, DrainEffect DEF EnqueueKick, LoopInv, TypeOK
  <2> QED
    BY <1>9, <2>1 DEF EnqueueKick, mongoVars, procVars, loopVars, callVars, histVars, LoopInv,
       TypeOK, FreshInv, RunAtMostOnce
<1>10. ASSUME NEW r \in Rows, Cancel(r) PROVE FreshInv'
  BY <1>10 DEF Cancel, mongoVars, procVars, loopVars, callVars, histVars, LoopInv, TypeOK,
     FreshInv, RunAtMostOnce
<1>11. ASSUME NEW r \in Rows, PromoteRead(r) PROVE FreshInv'
  BY <1>11 DEF PromoteRead, mongoVars, procVars, loopVars, callVars, histVars, LoopInv, TypeOK,
     FreshInv, RunAtMostOnce
<1>12. ASSUME NEW r \in Rows, PromoteWrite(r) PROVE FreshInv'
  BY <1>12 DEF PromoteWrite, mongoVars, procVars, loopVars, callVars, histVars, LoopInv, TypeOK,
     FreshInv, RunAtMostOnce
<1>13. ASSUME NEW b \in Presses, NEW on \in BOOLEAN, SetPaused(b, on) PROVE FreshInv'
  BY <1>13 DEF SetPaused, mongoVars, procVars, loopVars, callVars, histVars, LoopInv, TypeOK,
     FreshInv, RunAtMostOnce
<1>14. ASSUME NEW b \in BOOLEAN, Hold(b) PROVE FreshInv'
  <2>1. \A l \in Loops : pc'[l] = pc[l] \/ (pc[l] = "idle" /\ pc'[l] = "claim")
    BY <1>14, DrainEffect DEF Hold, LoopInv, TypeOK
  <2> QED
    BY <1>14, <2>1 DEF Hold, mongoVars, procVars, loopVars, callVars, histVars, LoopInv, TypeOK,
       FreshInv, RunAtMostOnce
<1>15. ASSUME NEW b \in Presses, PressAnswered(b) PROVE FreshInv'
  <2>1. \A l \in Loops : pc'[l] = pc[l] \/ (pc[l] = "idle" /\ pc'[l] = "claim")
    BY <1>15, DrainEffect DEF PressAnswered, LoopInv, TypeOK
  <2> QED
    BY <1>15, <2>1 DEF PressAnswered, mongoVars, procVars, loopVars, callVars, histVars, LoopInv,
       TypeOK, FreshInv, RunAtMostOnce
<1>15a. ASSUME NEW b \in Presses, PressStored(b) PROVE FreshInv'
  BY <1>15a DEF PressStored, mongoVars, procVars, loopVars, callVars, histVars, LoopInv, TypeOK,
     FreshInv, RunAtMostOnce
<1>15b. ASSUME NEW b \in Presses, PressRefused(b) PROVE FreshInv'
  BY <1>15b DEF PressRefused, mongoVars, procVars, loopVars, callVars, histVars, LoopInv, TypeOK,
     FreshInv, RunAtMostOnce
<1>16. ASSUME Boot PROVE FreshInv'
  BY <1>16 DEF Boot, mongoVars, procVars, loopVars, callVars, histVars, LoopInv, TypeOK,
     FreshInv, RunAtMostOnce
<1>17. ASSUME StartBegins PROVE FreshInv'
  BY <1>17 DEF StartBegins, mongoVars, procVars, loopVars, callVars, histVars, LoopInv, TypeOK,
     FreshInv, RunAtMostOnce
<1>18. ASSUME StartReadsPause PROVE FreshInv'
  BY <1>18 DEF StartReadsPause, mongoVars, procVars, loopVars, callVars, histVars, LoopInv,
     TypeOK, FreshInv, RunAtMostOnce
<1>19. ASSUME Recover PROVE FreshInv'
  BY <1>19 DEF Recover, mongoVars, procVars, loopVars, callVars, histVars, LoopInv, TypeOK,
     FreshInv, RunAtMostOnce
<1>20. ASSUME StartKicks PROVE FreshInv'
  <2>1. \A l \in Loops : pc'[l] = pc[l] \/ (pc[l] = "idle" /\ pc'[l] = "claim")
    BY <1>20, DrainEffect DEF StartKicks, LoopInv, TypeOK
  <2> QED
    BY <1>20, <2>1 DEF StartKicks, mongoVars, procVars, loopVars, callVars, histVars, LoopInv,
       TypeOK, FreshInv, RunAtMostOnce
<1>21. ASSUME Crash PROVE FreshInv'
  BY <1>21 DEF Crash, mongoVars, procVars, loopVars, callVars, histVars, LoopInv, TypeOK,
     FreshInv, RunAtMostOnce
<1>22. ASSUME UNCHANGED vars PROVE FreshInv'
  BY <1>22 DEF vars, mongoVars, procVars, loopVars, callVars, histVars, LoopInv, TypeOK,
     FreshInv, RunAtMostOnce
<1> QED
  BY <1>1, <1>2, <1>3, <1>4, <1>5, <1>6, <1>7, <1>8, <1>9, <1>10, <1>11, <1>12, <1>13, <1>14,
     <1>15, <1>15a, <1>15b, <1>16, <1>17, <1>18, <1>19, <1>20, <1>21, <1>22 DEF Next, LoopStep, BootStep

LEMMA LoopInvStep == LoopInv /\ [Next]_vars => LoopInv'
  BY TypeStep, FlagStep, HandStep, FreshStep DEF LoopInv
-----------------------------------------------------------------------------
(* With nothing entering the lane before it is started.                     *)

LEMMA InitBootInv == Init => BootInv /\ ShutInv
  BY ConstAssumption DEF Init, BootInv, ShutInv, Busy, HeldRowIsRunning

\* A loop that is busy has the lane to itself; what it holds is "running".
LEMMA Alone ==
  ASSUME LoopInv, BootInv, NEW l \in Loops, pc[l] # "idle"
  PROVE  /\ phase = "up"
         /\ \A m \in Loops : m # l => pc[m] = "idle" /\ cur[m] = NoRow
         /\ pc[l] \in {"got", "run", "finish"} =>
               cur[l] \in Rows /\ cur[l] # NoRow /\ status[cur[l]] = "running"
         /\ pc[l] \in {"claim", "empty"} => cur[l] = NoRow
  BY DEF LoopInv, TypeOK, FlagInv, OneTurnAtATime, Busy, HandInv, BootInv, HeldRowIsRunning, LoopPc

LEMMA BootInvStep == LoopInv /\ BootInv /\ NoEarlyRows /\ [Next]_vars => BootInv'
<1> SUFFICES ASSUME LoopInv /\ BootInv /\ NoEarlyRows, [Next]_vars PROVE BootInv'
  OBVIOUS
<1>1. ASSUME NEW l \in Loops, Claim(l) PROVE BootInv'
  <2>1. /\ phase = "up" /\ phase' = phase
        /\ \A m \in Loops : m # l => cur[m] = NoRow
        /\ cur[l] = NoRow
    BY <1>1, Alone DEF Claim, procVars
  <2>2. \/ UNCHANGED <<status, cur>>
        \/ \E r \in Queued : /\ status' = [status EXCEPT ![r] = "running"]
                             /\ cur' = [cur EXCEPT ![l] = r]
    BY <1>1 DEF Claim
  <2> QED
    BY <2>1, <2>2 DEF LoopInv, TypeOK, BootInv, HeldRowIsRunning, Queued
<1>2. ASSUME NEW l \in Loops, DrainDone(l) PROVE BootInv'
  <2>1. phase = "up"
    BY <1>2, Alone DEF DrainDone
  <2> QED
    BY <1>2, <2>1 DEF DrainDone, mongoVars, procVars, loopVars, callVars, histVars, LoopInv,
       TypeOK, BootInv, HeldRowIsRunning
<1>3. ASSUME NEW l \in Loops, RunOne(l) PROVE BootInv'
  <2>1. phase = "up"
    BY <1>3, Alone DEF RunOne
  <2> QED
    BY <1>3, <2>1 DEF RunOne, mongoVars, procVars, loopVars, callVars, histVars, LoopInv,
       TypeOK, BootInv, HeldRowIsRunning
<1>4. ASSUME NEW l \in Loops, HandlerEnds(l) PROVE BootInv'
  <2>1. phase = "up"
    BY <1>4, Alone DEF HandlerEnds
  <2> QED
    BY <1>4, <2>1 DEF HandlerEnds, mongoVars, procVars, loopVars, callVars, histVars, LoopInv,
       TypeOK, BootInv, HeldRowIsRunning
<1>5. ASSUME NEW l \in Loops, Finish(l) PROVE BootInv'
  <2>1. /\ phase = "up" /\ phase' = phase
        /\ \A m \in Loops : m # l => cur[m] = NoRow
    BY <1>5, Alone DEF Finish
  <2>2. cur' = [cur EXCEPT ![l] = NoRow]
    BY <1>5 DEF Finish
  <2> QED
    BY <2>1, <2>2 DEF LoopInv, TypeOK, BootInv, HeldRowIsRunning
<1>6. ASSUME NEW l \in Loops, RequestFails(l) PROVE BootInv'
  <2>1. phase = "up"
    BY <1>6, Alone DEF RequestFails
  <2> QED
    BY <1>6, <2>1 DEF RequestFails, mongoVars, procVars, loopVars, callVars, histVars, LoopInv,
       TypeOK, BootInv, HeldRowIsRunning
<1>7. ASSUME NEW r \in Rows, EnqueueCheck(r) PROVE BootInv'
  <2>1. phase = "up"
    BY <1>7 DEF EnqueueCheck, CanCall, NoEarlyRows
  <2> QED
    BY <1>7, <2>1 DEF EnqueueCheck, mongoVars, procVars, loopVars, callVars, histVars, BootInv,
       HeldRowIsRunning
<1>8. ASSUME NEW r \in Rows, EnqueueInsert(r) PROVE BootInv'
  <2>1. phase = "up" /\ status[r] = "absent"
    BY <1>8 DEF EnqueueInsert, BootInv, LoopInv, FreshInv
  <2> QED
    BY <1>8, <2>1 DEF EnqueueInsert, mongoVars, procVars, loopVars, callVars, histVars, LoopInv,
       TypeOK, BootInv, HeldRowIsRunning
<1>9. ASSUME NEW r \in Rows, EnqueueKick(r) PROVE BootInv'
  <2>1. phase = "up"
    BY <1>9 DEF EnqueueKick, BootInv
  <2> QED
    BY <1>9, <2>1 DEF EnqueueKick, mongoVars, procVars, loopVars, callVars, histVars, BootInv,
       HeldRowIsRunning
<1>10. ASSUME NEW r \in Rows, Cancel(r) PROVE BootInv'
  BY <1>10 DEF Cancel, mongoVars, procVars, loopVars, callVars, histVars, LoopInv, TypeOK,
     BootInv, HeldRowIsRunning
<1>11. ASSUME NEW r \in Rows, PromoteRead(r) PROVE BootInv'
  BY <1>11 DEF PromoteRead, mongoVars, procVars, loopVars, callVars, histVars, LoopInv, TypeOK,
     BootInv, HeldRowIsRunning, Busy
<1>12. ASSUME NEW r \in Rows, PromoteWrite(r) PROVE BootInv'
  BY <1>12 DEF PromoteWrite, mongoVars, procVars, loopVars, callVars, histVars, LoopInv, TypeOK,
     BootInv, HeldRowIsRunning, Busy
<1>13. ASSUME NEW b \in Presses, NEW on \in BOOLEAN, SetPaused(b, on) PROVE BootInv'
  BY <1>13 DEF SetPaused, mongoVars, procVars, loopVars, callVars, histVars, LoopInv, TypeOK,
     BootInv, HeldRowIsRunning, Busy
<1>14. ASSUME NEW b \in BOOLEAN, Hold(b) PROVE BootInv'
  BY <1>14 DEF Hold, mongoVars, procVars, loopVars, callVars, histVars, BootInv, HeldRowIsRunning
<1>15. ASSUME NEW b \in Presses, PressAnswered(b) PROVE BootInv'
  <2>1. phase = "up"
    BY <1>15 DEF PressAnswered, BootInv
  <2> QED
    BY <1>15, <2>1 DEF PressAnswered, mongoVars, procVars, loopVars, callVars, histVars, BootInv,
       HeldRowIsRunning
<1>15a. ASSUME NEW b \in Presses, PressStored(b) PROVE BootInv'
  BY <1>15a DEF PressStored, mongoVars, procVars, loopVars, callVars, histVars, LoopInv, TypeOK,
     BootInv, HeldRowIsRunning, Busy
<1>15b. ASSUME NEW b \in Presses, PressRefused(b) PROVE BootInv'
  BY <1>15b DEF PressRefused, mongoVars, procVars, loopVars, callVars, histVars, LoopInv, TypeOK,
     BootInv, HeldRowIsRunning, Busy
<1>16. ASSUME Boot PROVE BootInv'
  BY <1>16 DEF Boot, mongoVars, procVars, loopVars, callVars, histVars, LoopInv, TypeOK,
     BootInv, HeldRowIsRunning, Busy
<1>17. ASSUME StartBegins PROVE BootInv'
  BY <1>17 DEF StartBegins, mongoVars, procVars, loopVars, callVars, histVars, LoopInv, TypeOK,
     BootInv, HeldRowIsRunning, Busy
<1>18. ASSUME StartReadsPause PROVE BootInv'
  BY <1>18 DEF StartReadsPause, mongoVars, procVars, loopVars, callVars, histVars, LoopInv,
     TypeOK, BootInv, HeldRowIsRunning, Busy
<1>19. ASSUME Recover PROVE BootInv'
  <2>1. \A l \in Loops : cur[l] = NoRow /\ pc[l] = "idle"
    BY <1>19 DEF Recover, BootInv, Busy, LoopInv, HandInv
  <2> QED
    BY <1>19, <2>1 DEF Recover, mongoVars, procVars, loopVars, callVars, histVars, BootInv,
       HeldRowIsRunning, Busy
<1>20. ASSUME StartKicks PROVE BootInv'
  BY <1>20 DEF StartKicks, mongoVars, procVars, loopVars, callVars, histVars, BootInv,
     HeldRowIsRunning
<1>21. ASSUME Crash PROVE BootInv'
  BY <1>21 DEF Crash, mongoVars, procVars, loopVars, callVars, histVars, LoopInv, TypeOK,
     BootInv, HeldRowIsRunning, Busy
<1>22. ASSUME UNCHANGED vars PROVE BootInv'
  BY <1>22 DEF vars, mongoVars, procVars, loopVars, callVars, histVars, LoopInv, TypeOK,
     BootInv, HeldRowIsRunning, Busy
<1> QED
  BY <1>1, <1>2, <1>3, <1>4, <1>5, <1>6, <1>7, <1>8, <1>9, <1>10, <1>11, <1>12, <1>13, <1>14,
     <1>15, <1>15a, <1>15b, <1>16, <1>17, <1>18, <1>19, <1>20, <1>21, <1>22 DEF Next, LoopStep, BootStep

\* The flags are tested before every claim, and drain() is not entered while one is set.
LEMMA ShutInvStep == LoopInv /\ BootInv /\ ShutInv /\ [Next]_vars => ShutInv'
<1> SUFFICES ASSUME LoopInv /\ BootInv /\ ShutInv, [Next]_vars PROVE ShutInv'
  OBVIOUS
<1>1. ASSUME NEW l \in Loops, Claim(l) PROVE ShutInv'
  BY <1>1 DEF Claim, mongoVars, procVars, loopVars, callVars, histVars, LoopInv, TypeOK, ShutInv
<1>2. ASSUME NEW l \in Loops, DrainDone(l) PROVE ShutInv'
  BY <1>2 DEF DrainDone, mongoVars, procVars, loopVars, callVars, histVars, LoopInv, TypeOK,
     ShutInv
<1>3. ASSUME NEW l \in Loops, RunOne(l) PROVE ShutInv'
  <2>1. /\ pc[l] = "got" /\ UNCHANGED <<paused, held>>
        /\ pc' = [pc EXCEPT ![l] = "run"] \/ pc' = [pc EXCEPT ![l] = "finish"]
        /\ \/ lateStarts' = lateStarts
           \/ lateStarts' = IF paused \/ held THEN lateStarts + 1 ELSE lateStarts
    BY <1>3 DEF RunOne, procVars
  <2>2. \A m \in Loops : m # l => pc[m] = "idle"
    BY <2>1, Alone
  <2>3. \A m \in Loops : pc'[m] \notin {"claim", "got"}
    BY <2>1, <2>2 DEF LoopInv, TypeOK
  <2> QED
    BY <2>1, <2>3 DEF ShutInv
<1>4. ASSUME NEW l \in Loops, HandlerEnds(l) PROVE ShutInv'
  BY <1>4 DEF HandlerEnds, mongoVars, procVars, loopVars, callVars, histVars, LoopInv, TypeOK,
     ShutInv
<1>5. ASSUME NEW l \in Loops, Finish(l) PROVE ShutInv'
  BY <1>5 DEF Finish, mongoVars, procVars, loopVars, callVars, histVars, LoopInv, TypeOK,
     ShutInv
<1>6. ASSUME NEW l \in Loops, RequestFails(l) PROVE ShutInv'
  BY <1>6 DEF RequestFails, mongoVars, procVars, loopVars, callVars, histVars, LoopInv, TypeOK,
     ShutInv
<1>7. ASSUME NEW r \in Rows, EnqueueCheck(r) PROVE ShutInv'
  BY <1>7 DEF EnqueueCheck, mongoVars, procVars, loopVars, callVars, histVars, LoopInv, TypeOK,
     ShutInv
<1>8. ASSUME NEW r \in Rows, EnqueueInsert(r) PROVE ShutInv'
  BY <1>8 DEF EnqueueInsert, mongoVars, procVars, loopVars, callVars, histVars, LoopInv, TypeOK,
     ShutInv
<1>9. ASSUME NEW r \in Rows, EnqueueKick(r) PROVE ShutInv'
  <2>1. /\ paused \/ held => pc' = pc
        /\ \A l \in Loops : pc'[l] = pc[l] \/ (pc[l] = "idle" /\ pc'[l] = "claim")
    BY <1>9, DrainEffect DEF EnqueueKick, LoopInv, TypeOK
  <2> QED
    BY <1>9, <2>1 DEF EnqueueKick, mongoVars, procVars, loopVars, callVars, histVars, ShutInv
<1>10. ASSUME NEW r \in Rows, Cancel(r) PROVE ShutInv'
  BY <1>10 DEF Cancel, mongoVars, procVars, loopVars, callVars, histVars, LoopInv, TypeOK,
     ShutInv
<1>11. ASSUME NEW r \in Rows, PromoteRead(r) PROVE ShutInv'
  BY <1>11 DEF PromoteRead, mongoVars, procVars, loopVars, callVars, histVars, LoopInv, TypeOK,
     ShutInv
<1>12. ASSUME NEW r \in Rows, PromoteWrite(r) PROVE ShutInv'
  BY <1>12 DEF PromoteWrite, mongoVars, procVars, loopVars, callVars, histVars, LoopInv, TypeOK,
     ShutInv
<1>13. ASSUME NEW b \in Presses, NEW on \in BOOLEAN, SetPaused(b, on) PROVE ShutInv'
  BY <1>13 DEF SetPaused, mongoVars, procVars, loopVars, callVars, histVars, LoopInv, TypeOK,
     ShutInv
<1>14. ASSUME NEW b \in BOOLEAN, Hold(b) PROVE ShutInv'
  <2>1. b => held' = TRUE /\ lateStarts' = 0 /\ pc' = pc
    BY <1>14 DEF Hold
  <2>2. ~b => /\ held' = FALSE /\ paused' = paused /\ lateStarts' = lateStarts
              /\ paused => pc' = pc
    BY <1>14, DrainEffect DEF Hold, LoopInv, TypeOK
  <2> QED
    BY <2>1, <2>2 DEF ShutInv
<1>15. ASSUME NEW b \in Presses, PressAnswered(b) PROVE ShutInv'
  <2>1. /\ paused \/ held => pc' = pc
        /\ \A l \in Loops : pc'[l] = pc[l] \/ (pc[l] = "idle" /\ pc'[l] = "claim")
    BY <1>15, DrainEffect DEF PressAnswered, LoopInv, TypeOK
  <2> QED
    BY <1>15, <2>1 DEF PressAnswered, mongoVars, procVars, loopVars, callVars, histVars, ShutInv
<1>15a. ASSUME NEW b \in Presses, PressStored(b) PROVE ShutInv'
  BY <1>15a DEF PressStored, mongoVars, procVars, loopVars, callVars, histVars, LoopInv, TypeOK,
     ShutInv
<1>15b. ASSUME NEW b \in Presses, PressRefused(b) PROVE ShutInv'
  BY <1>15b DEF PressRefused, mongoVars, procVars, loopVars, callVars, histVars, LoopInv, TypeOK,
     ShutInv
<1>16. ASSUME Boot PROVE ShutInv'
  BY <1>16 DEF Boot, mongoVars, procVars, loopVars, callVars, histVars, LoopInv, TypeOK, ShutInv
<1>17. ASSUME StartBegins PROVE ShutInv'
  BY <1>17 DEF StartBegins, mongoVars, procVars, loopVars, callVars, histVars, LoopInv, TypeOK,
     ShutInv
<1>18. ASSUME StartReadsPause PROVE ShutInv'
  BY <1>18 DEF StartReadsPause, histVars, BootInv, ShutInv
<1>19. ASSUME Recover PROVE ShutInv'
  BY <1>19 DEF Recover, mongoVars, procVars, loopVars, callVars, histVars, LoopInv, TypeOK,
     ShutInv
<1>20. ASSUME StartKicks PROVE ShutInv'
  <2>1. /\ paused \/ held => pc' = pc
        /\ \A l \in Loops : pc'[l] = pc[l] \/ (pc[l] = "idle" /\ pc'[l] = "claim")
    BY <1>20, DrainEffect DEF StartKicks, LoopInv, TypeOK
  <2> QED
    BY <1>20, <2>1 DEF StartKicks, mongoVars, procVars, loopVars, callVars, histVars, ShutInv
<1>21. ASSUME Crash PROVE ShutInv'
  BY <1>21 DEF Crash, mongoVars, procVars, loopVars, callVars, histVars, LoopInv, TypeOK,
     ShutInv
<1>22. ASSUME UNCHANGED vars PROVE ShutInv'
  BY <1>22 DEF vars, mongoVars, procVars, loopVars, callVars, histVars, LoopInv, TypeOK, ShutInv
<1> QED
  BY <1>1, <1>2, <1>3, <1>4, <1>5, <1>6, <1>7, <1>8, <1>9, <1>10, <1>11, <1>12, <1>13, <1>14,
     <1>15, <1>15a, <1>15b, <1>16, <1>17, <1>18, <1>19, <1>20, <1>21, <1>22 DEF Next, LoopStep, BootStep

\* The switch in memory is the stored one, or the one about to be stored; unless presses
\* crossed, one is written at a time.
SyncInv ==
    /\ PauseInSync
    /\ ~crossed => \A b \in Writing : /\ paused = (press[b] = "pause")
                                     /\ \A c \in Writing : c = b

LEMMA InitSyncInv == Init => SyncInv /\ RunningIsHeld
  BY DEF Init, SyncInv, PauseInSync, Writing, RunningIsHeld

\* What leaves the two switches and the presses alone disturbs nothing of it, unless it
\* is the reading of the settings.
LEMMA SyncKept ==
  ASSUME SyncInv, UNCHANGED <<paused, pausedSetting, press, crossed>>,
         phase' \in {"recover", "count", "up"} => phase \in {"recover", "count", "up"}
  PROVE  SyncInv'
  BY DEF SyncInv, PauseInSync, Writing

LEMMA SyncInvStep == LoopInv /\ BootInv /\ SyncInv /\ DbNeverFails /\ [Next]_vars => SyncInv'
<1> SUFFICES ASSUME LoopInv /\ BootInv /\ SyncInv /\ DbNeverFails, [Next]_vars PROVE SyncInv'
  OBVIOUS
<1>1. ASSUME NEW l \in Loops, Claim(l) PROVE SyncInv'
  BY <1>1, SyncKept DEF Claim, mongoVars, procVars, callVars, histVars
<1>2. ASSUME NEW l \in Loops, DrainDone(l) PROVE SyncInv'
  BY <1>2, SyncKept DEF DrainDone, mongoVars, procVars, callVars, histVars
<1>3. ASSUME NEW l \in Loops, RunOne(l) PROVE SyncInv'
  BY <1>3, SyncKept DEF RunOne, mongoVars, procVars, callVars, histVars
<1>4. ASSUME NEW l \in Loops, HandlerEnds(l) PROVE SyncInv'
  BY <1>4, SyncKept DEF HandlerEnds, mongoVars, procVars, callVars, histVars
<1>5. ASSUME NEW l \in Loops, Finish(l) PROVE SyncInv'
  BY <1>5, SyncKept DEF Finish, mongoVars, procVars, callVars, histVars
<1>6. ASSUME NEW l \in Loops, RequestFails(l) PROVE SyncInv'
  BY <1>6, SyncKept DEF RequestFails, mongoVars, procVars, callVars, histVars
<1>7. ASSUME NEW r \in Rows, EnqueueCheck(r) PROVE SyncInv'
  BY <1>7, SyncKept DEF EnqueueCheck, mongoVars, procVars, callVars, histVars
<1>8. ASSUME NEW r \in Rows, EnqueueInsert(r) PROVE SyncInv'
  BY <1>8, SyncKept DEF EnqueueInsert, mongoVars, procVars, callVars, histVars
<1>9. ASSUME NEW r \in Rows, EnqueueKick(r) PROVE SyncInv'
  BY <1>9, SyncKept DEF EnqueueKick, mongoVars, procVars, callVars, histVars
<1>10. ASSUME NEW r \in Rows, Cancel(r) PROVE SyncInv'
  BY <1>10, SyncKept DEF Cancel, mongoVars, procVars, callVars, histVars
<1>11. ASSUME NEW r \in Rows, PromoteRead(r) PROVE SyncInv'
  BY <1>11, SyncKept DEF PromoteRead, mongoVars, procVars, callVars, histVars
<1>12. ASSUME NEW r \in Rows, PromoteWrite(r) PROVE SyncInv'
  BY <1>12, SyncKept DEF PromoteWrite, mongoVars, procVars, callVars, histVars
<1>13. ASSUME NEW b \in Presses, NEW on \in BOOLEAN, SetPaused(b, on) PROVE SyncInv'
  <2>1. /\ paused' = on /\ press' = [press EXCEPT ![b] = IF on THEN "pause" ELSE "resume"]
        /\ crossed' = (Writing # {}) /\ press \in [Presses -> PressPc]
    BY <1>13 DEF SetPaused, LoopInv, TypeOK
  <2>2. b \in Writing' /\ (on <=> press'[b] = "pause")
    BY <2>1 DEF Writing
  <2>3. ~crossed' => \A c \in Writing' : c = b
    BY <2>1 DEF Writing
  <2> QED
    BY <2>1, <2>2, <2>3 DEF SyncInv, PauseInSync
<1>14. ASSUME NEW b \in BOOLEAN, Hold(b) PROVE SyncInv'
  BY <1>14, SyncKept DEF Hold, mongoVars, procVars, callVars, histVars
<1>15. ASSUME NEW b \in Presses, PressAnswered(b) PROVE SyncInv'
  <2>1. \A c \in Presses : c # b => press'[c] = press[c]
    BY <1>15 DEF PressAnswered, LoopInv, TypeOK
  <2>2. press[b] = "kick" /\ press'[b] = "idle"
    BY <1>15 DEF PressAnswered, LoopInv, TypeOK
  <2>3. UNCHANGED <<paused, pausedSetting, crossed, phase>>
    BY <1>15 DEF PressAnswered, mongoVars, histVars
  <2> QED
    BY <2>1, <2>2, <2>3 DEF SyncInv, PauseInSync, Writing
<1>15a. ASSUME NEW b \in Presses, PressStored(b) PROVE SyncInv'
  <2>1. \A c \in Presses : c # b => press'[c] = press[c]
    BY <1>15a DEF PressStored, LoopInv, TypeOK
  <2>2. press'[b] \notin {"pause", "resume"}
    BY <1>15a DEF PressStored, LoopInv, TypeOK, Writing
  <2>3. /\ UNCHANGED <<paused, crossed, phase>> /\ b \in Writing
        /\ pausedSetting' = (press[b] = "pause")
    BY <1>15a DEF PressStored, procVars, histVars
  <2> QED
    BY <2>1, <2>2, <2>3 DEF SyncInv, PauseInSync, Writing
<1>15b. ASSUME NEW b \in Presses, PressRefused(b) PROVE SyncInv'
  BY <1>15b DEF PressRefused, DbNeverFails
<1>16. ASSUME Boot PROVE SyncInv'
  BY <1>16, SyncKept DEF Boot, mongoVars, procVars, callVars, histVars
<1>17. ASSUME StartBegins PROVE SyncInv'
  BY <1>17, SyncKept DEF StartBegins, mongoVars, procVars, callVars, histVars
<1>18. ASSUME StartReadsPause PROVE SyncInv'
  <2>1. paused' = pausedSetting /\ UNCHANGED <<pausedSetting, press>> /\ phase # "up"
    BY <1>18 DEF StartReadsPause, mongoVars, callVars, DbNeverFails
  <2>2. Writing' = {}
    BY <2>1 DEF BootInv, Writing
  <2> QED
    BY <2>1, <2>2 DEF SyncInv, PauseInSync
<1>19. ASSUME Recover PROVE SyncInv'
  BY <1>19, SyncKept DEF Recover, mongoVars, procVars, callVars, histVars
<1>20. ASSUME StartKicks PROVE SyncInv'
  BY <1>20, SyncKept DEF StartKicks, mongoVars, procVars, callVars, histVars
<1>21. ASSUME Crash PROVE SyncInv'
  BY <1>21 DEF Crash, SyncInv, PauseInSync, Writing
<1>22. ASSUME UNCHANGED vars PROVE SyncInv'
  BY <1>22, SyncKept DEF vars, mongoVars, procVars, callVars, histVars
<1> QED
  BY <1>1, <1>2, <1>3, <1>4, <1>5, <1>6, <1>7, <1>8, <1>9, <1>10, <1>11, <1>12, <1>13, <1>14,
     <1>15, <1>15a, <1>15b, <1>16, <1>17, <1>18, <1>19, <1>20, <1>21, <1>22 DEF Next, LoopStep, BootStep

LEMMA RunningIsHeldStep ==
  LoopInv /\ BootInv /\ RunningIsHeld /\ DbNeverFails /\ [Next]_vars => RunningIsHeld'
<1> SUFFICES ASSUME LoopInv /\ BootInv /\ RunningIsHeld /\ DbNeverFails,
    [Next]_vars PROVE RunningIsHeld'
  OBVIOUS
<1>1. ASSUME NEW l \in Loops, Claim(l) PROVE RunningIsHeld'
  <2>1. cur[l] = NoRow /\ phase = "up"
    BY <1>1, Alone DEF Claim
  <2>2. \/ UNCHANGED <<status, cur>>
        \/ \E r \in Queued : /\ status' = [status EXCEPT ![r] = "running"]
                             /\ cur' = [cur EXCEPT ![l] = r]
    BY <1>1 DEF Claim
  <2> QED
    BY <2>1, <2>2, ConstAssumption DEF LoopInv, TypeOK, RunningIsHeld, Queued
<1>2. ASSUME NEW l \in Loops, DrainDone(l) PROVE RunningIsHeld'
  BY <1>2 DEF DrainDone, mongoVars, procVars, loopVars, callVars, histVars, LoopInv, TypeOK,
     RunningIsHeld, DbNeverFails
<1>3. ASSUME NEW l \in Loops, RunOne(l) PROVE RunningIsHeld'
  BY <1>3 DEF RunOne, mongoVars, procVars, loopVars, callVars, histVars, LoopInv, TypeOK,
     RunningIsHeld, DbNeverFails
<1>4. ASSUME NEW l \in Loops, HandlerEnds(l) PROVE RunningIsHeld'
  BY <1>4 DEF HandlerEnds, mongoVars, procVars, loopVars, callVars, histVars, LoopInv, TypeOK,
     RunningIsHeld, DbNeverFails
<1>5. ASSUME NEW l \in Loops, Finish(l) PROVE RunningIsHeld'
  <2>1. /\ phase = "up" /\ cur[l] \in Rows
        /\ \A m \in Loops : m # l => cur[m] = NoRow
    BY <1>5, Alone DEF Finish
  <2>2. /\ status' = [status EXCEPT ![cur[l]] = out[l]]
        /\ out[l] # "running"
    BY <1>5 DEF Finish, LoopInv, HandInv
  <2>3. \A r \in Rows : status[r] = "running" => r = cur[l]
    BY <2>1, ConstAssumption DEF RunningIsHeld
  <2>4. \A r \in Rows : status'[r] # "running"
    BY <2>1, <2>2, <2>3 DEF LoopInv, TypeOK
  <2> QED
    BY <2>4 DEF RunningIsHeld
<1>6. ASSUME NEW l \in Loops, RequestFails(l) PROVE RunningIsHeld'
  BY <1>6 DEF RequestFails, mongoVars, procVars, loopVars, callVars, histVars, LoopInv, TypeOK,
     RunningIsHeld, DbNeverFails
<1>7. ASSUME NEW r \in Rows, EnqueueCheck(r) PROVE RunningIsHeld'
  BY <1>7 DEF EnqueueCheck, mongoVars, procVars, loopVars, callVars, histVars, LoopInv, TypeOK,
     RunningIsHeld, DbNeverFails
<1>8. ASSUME NEW r \in Rows, EnqueueInsert(r) PROVE RunningIsHeld'
  BY <1>8 DEF EnqueueInsert, mongoVars, procVars, loopVars, callVars, histVars, LoopInv, TypeOK,
     RunningIsHeld, DbNeverFails
<1>9. ASSUME NEW r \in Rows, EnqueueKick(r) PROVE RunningIsHeld'
  BY <1>9 DEF EnqueueKick, mongoVars, procVars, loopVars, callVars, histVars, LoopInv, TypeOK,
     RunningIsHeld, DbNeverFails
<1>10. ASSUME NEW r \in Rows, Cancel(r) PROVE RunningIsHeld'
  BY <1>10 DEF Cancel, mongoVars, procVars, loopVars, callVars, histVars, LoopInv, TypeOK,
     RunningIsHeld, DbNeverFails
<1>11. ASSUME NEW r \in Rows, PromoteRead(r) PROVE RunningIsHeld'
  BY <1>11 DEF PromoteRead, mongoVars, procVars, loopVars, callVars, histVars, LoopInv, TypeOK,
     RunningIsHeld, DbNeverFails
<1>12. ASSUME NEW r \in Rows, PromoteWrite(r) PROVE RunningIsHeld'
  BY <1>12 DEF PromoteWrite, mongoVars, procVars, loopVars, callVars, histVars, LoopInv, TypeOK,
     RunningIsHeld, DbNeverFails
<1>13. ASSUME NEW b \in Presses, NEW on \in BOOLEAN, SetPaused(b, on) PROVE RunningIsHeld'
  BY <1>13 DEF SetPaused, mongoVars, procVars, loopVars, callVars, histVars, LoopInv, TypeOK,
     RunningIsHeld, DbNeverFails
<1>14. ASSUME NEW b \in BOOLEAN, Hold(b) PROVE RunningIsHeld'
  BY <1>14 DEF Hold, mongoVars, procVars, loopVars, callVars, histVars, LoopInv, TypeOK,
     RunningIsHeld, DbNeverFails
<1>15. ASSUME NEW b \in Presses, PressAnswered(b) PROVE RunningIsHeld'
  BY <1>15 DEF PressAnswered, mongoVars, procVars, loopVars, callVars, histVars, LoopInv, TypeOK,
     RunningIsHeld, DbNeverFails
<1>15a. ASSUME NEW b \in Presses, PressStored(b) PROVE RunningIsHeld'
  BY <1>15a DEF PressStored, mongoVars, procVars, loopVars, callVars, histVars, LoopInv, TypeOK,
     RunningIsHeld, DbNeverFails
<1>15b. ASSUME NEW b \in Presses, PressRefused(b) PROVE RunningIsHeld'
  BY <1>15b DEF PressRefused, mongoVars, procVars, loopVars, callVars, histVars, LoopInv, TypeOK,
     RunningIsHeld, DbNeverFails
<1>16. ASSUME Boot PROVE RunningIsHeld'
  BY <1>16 DEF Boot, mongoVars, procVars, loopVars, callVars, histVars, LoopInv, TypeOK,
     RunningIsHeld, DbNeverFails
<1>17. ASSUME StartBegins PROVE RunningIsHeld'
  BY <1>17 DEF StartBegins, mongoVars, procVars, loopVars, callVars, histVars, LoopInv, TypeOK,
     RunningIsHeld, DbNeverFails
<1>18. ASSUME StartReadsPause PROVE RunningIsHeld'
  BY <1>18 DEF StartReadsPause, mongoVars, procVars, loopVars, callVars, histVars, LoopInv,
     TypeOK, RunningIsHeld, DbNeverFails
<1>19. ASSUME Recover PROVE RunningIsHeld'
  BY <1>19 DEF Recover, mongoVars, procVars, loopVars, callVars, histVars, LoopInv, TypeOK,
     RunningIsHeld, DbNeverFails
<1>20. ASSUME StartKicks PROVE RunningIsHeld'
  BY <1>20 DEF StartKicks, mongoVars, procVars, loopVars, callVars, histVars, LoopInv, TypeOK,
     RunningIsHeld, DbNeverFails
<1>21. ASSUME Crash PROVE RunningIsHeld'
  BY <1>21 DEF Crash, mongoVars, procVars, loopVars, callVars, histVars, LoopInv, TypeOK,
     RunningIsHeld, DbNeverFails
<1>22. ASSUME UNCHANGED vars PROVE RunningIsHeld'
  BY <1>22 DEF vars, mongoVars, procVars, loopVars, callVars, histVars, LoopInv, TypeOK,
     RunningIsHeld, DbNeverFails
<1> QED
  BY <1>1, <1>2, <1>3, <1>4, <1>5, <1>6, <1>7, <1>8, <1>9, <1>10, <1>11, <1>12, <1>13, <1>14,
     <1>15, <1>15a, <1>15b, <1>16, <1>17, <1>18, <1>19, <1>20, <1>21, <1>22 DEF Next, LoopStep, BootStep

-----------------------------------------------------------------------------
(* The action properties.                                                   *)

TerminalStays == \A r \in Rows : status[r] \in Terminal => status'[r] = status[r]

LEMMA TerminalStep == LoopInv /\ BootInv /\ [Next]_vars => TerminalStays
<1> SUFFICES ASSUME LoopInv /\ BootInv, [Next]_vars PROVE TerminalStays
  OBVIOUS
<1>1. ASSUME NEW l \in Loops, Claim(l) PROVE TerminalStays
  BY <1>1 DEF Claim, Queued, LoopInv, TypeOK, Terminal, TerminalStays
<1>2. ASSUME NEW l \in Loops, DrainDone(l) PROVE TerminalStays
  BY <1>2 DEF DrainDone, mongoVars, procVars, loopVars, callVars, histVars, LoopInv, TypeOK,
     Terminal, TerminalStays
<1>3. ASSUME NEW l \in Loops, RunOne(l) PROVE TerminalStays
  BY <1>3 DEF RunOne, mongoVars, procVars, loopVars, callVars, histVars, LoopInv, TypeOK,
     Terminal, TerminalStays
<1>4. ASSUME NEW l \in Loops, HandlerEnds(l) PROVE TerminalStays
  BY <1>4 DEF HandlerEnds, mongoVars, procVars, loopVars, callVars, histVars, LoopInv, TypeOK,
     Terminal, TerminalStays
<1>5. ASSUME NEW l \in Loops, Finish(l) PROVE TerminalStays
  <2>1. cur[l] \in Rows /\ status[cur[l]] = "running"
    BY <1>5, Alone DEF Finish
  <2>2. status' = [status EXCEPT ![cur[l]] = out[l]]
    BY <1>5 DEF Finish
  <2> QED
    BY <2>1, <2>2 DEF LoopInv, TypeOK, Terminal, TerminalStays
<1>6. ASSUME NEW l \in Loops, RequestFails(l) PROVE TerminalStays
  BY <1>6 DEF RequestFails, mongoVars, procVars, loopVars, callVars, histVars, LoopInv, TypeOK,
     Terminal, TerminalStays
<1>7. ASSUME NEW r \in Rows, EnqueueCheck(r) PROVE TerminalStays
  BY <1>7 DEF EnqueueCheck, mongoVars, procVars, loopVars, callVars, histVars, LoopInv, TypeOK,
     Terminal, TerminalStays
<1>8. ASSUME NEW r \in Rows, EnqueueInsert(r) PROVE TerminalStays
  BY <1>8 DEF EnqueueInsert, LoopInv, TypeOK, FreshInv, Terminal, TerminalStays
<1>9. ASSUME NEW r \in Rows, EnqueueKick(r) PROVE TerminalStays
  BY <1>9 DEF EnqueueKick, mongoVars, procVars, loopVars, callVars, histVars, LoopInv, TypeOK,
     Terminal, TerminalStays
<1>10. ASSUME NEW r \in Rows, Cancel(r) PROVE TerminalStays
  BY <1>10 DEF Cancel, mongoVars, procVars, loopVars, callVars, histVars, LoopInv, TypeOK,
     Terminal, TerminalStays
<1>11. ASSUME NEW r \in Rows, PromoteRead(r) PROVE TerminalStays
  BY <1>11 DEF PromoteRead, mongoVars, procVars, loopVars, callVars, histVars, LoopInv, TypeOK,
     Terminal, TerminalStays
<1>12. ASSUME NEW r \in Rows, PromoteWrite(r) PROVE TerminalStays
  BY <1>12 DEF PromoteWrite, mongoVars, procVars, loopVars, callVars, histVars, LoopInv, TypeOK,
     Terminal, TerminalStays
<1>13. ASSUME NEW b \in Presses, NEW on \in BOOLEAN, SetPaused(b, on) PROVE TerminalStays
  BY <1>13 DEF SetPaused, mongoVars, procVars, loopVars, callVars, histVars, LoopInv, TypeOK,
     Terminal, TerminalStays
<1>14. ASSUME NEW b \in BOOLEAN, Hold(b) PROVE TerminalStays
  BY <1>14 DEF Hold, mongoVars, procVars, loopVars, callVars, histVars, LoopInv, TypeOK,
     Terminal, TerminalStays
<1>15. ASSUME NEW b \in Presses, PressAnswered(b) PROVE TerminalStays
  BY <1>15 DEF PressAnswered, mongoVars, procVars, loopVars, callVars, histVars, LoopInv, TypeOK,
     Terminal, TerminalStays
<1>15a. ASSUME NEW b \in Presses, PressStored(b) PROVE TerminalStays
  BY <1>15a DEF PressStored, mongoVars, procVars, loopVars, callVars, histVars, LoopInv, TypeOK,
     Terminal, TerminalStays
<1>15b. ASSUME NEW b \in Presses, PressRefused(b) PROVE TerminalStays
  BY <1>15b DEF PressRefused, mongoVars, procVars, loopVars, callVars, histVars, LoopInv, TypeOK,
     Terminal, TerminalStays
<1>16. ASSUME Boot PROVE TerminalStays
  BY <1>16 DEF Boot, mongoVars, procVars, loopVars, callVars, histVars, LoopInv, TypeOK,
     Terminal, TerminalStays
<1>17. ASSUME StartBegins PROVE TerminalStays
  BY <1>17 DEF StartBegins, mongoVars, procVars, loopVars, callVars, histVars, LoopInv, TypeOK,
     Terminal, TerminalStays
<1>18. ASSUME StartReadsPause PROVE TerminalStays
  BY <1>18 DEF StartReadsPause, mongoVars, procVars, loopVars, callVars, histVars, LoopInv,
     TypeOK, Terminal, TerminalStays
<1>19. ASSUME Recover PROVE TerminalStays
  BY <1>19 DEF Recover, mongoVars, procVars, loopVars, callVars, histVars, LoopInv, TypeOK,
     Terminal, TerminalStays
<1>20. ASSUME StartKicks PROVE TerminalStays
  BY <1>20 DEF StartKicks, mongoVars, procVars, loopVars, callVars, histVars, LoopInv, TypeOK,
     Terminal, TerminalStays
<1>21. ASSUME Crash PROVE TerminalStays
  BY <1>21 DEF Crash, mongoVars, procVars, loopVars, callVars, histVars, LoopInv, TypeOK,
     Terminal, TerminalStays
<1>22. ASSUME UNCHANGED vars PROVE TerminalStays
  BY <1>22 DEF vars, mongoVars, procVars, loopVars, callVars, histVars, LoopInv, TypeOK,
     Terminal, TerminalStays
<1> QED
  BY <1>1, <1>2, <1>3, <1>4, <1>5, <1>6, <1>7, <1>8, <1>9, <1>10, <1>11, <1>12, <1>13, <1>14,
     <1>15, <1>15a, <1>15b, <1>16, <1>17, <1>18, <1>19, <1>20, <1>21, <1>22 DEF Next, LoopStep, BootStep

StaysShut == ~draining /\ draining' => \/ ~pausedSetting'
                                       \/ crossed
                                       \/ \E b \in Presses : press[b] = "resume"

LEMMA StaysShutStep == LoopInv /\ BootInv /\ SyncInv /\ [Next]_vars => StaysShut
<1> SUFFICES ASSUME LoopInv /\ BootInv /\ SyncInv, [Next]_vars PROVE StaysShut
  OBVIOUS
<1>1. ASSUME NEW l \in Loops, Claim(l) PROVE StaysShut
  BY <1>1 DEF Claim, mongoVars, procVars, loopVars, callVars, histVars, LoopInv, TypeOK,
     StaysShut
<1>2. ASSUME NEW l \in Loops, DrainDone(l) PROVE StaysShut
  BY <1>2 DEF DrainDone, mongoVars, procVars, loopVars, callVars, histVars, LoopInv, TypeOK,
     StaysShut
<1>3. ASSUME NEW l \in Loops, RunOne(l) PROVE StaysShut
  BY <1>3 DEF RunOne, mongoVars, procVars, loopVars, callVars, histVars, LoopInv, TypeOK,
     StaysShut
<1>4. ASSUME NEW l \in Loops, HandlerEnds(l) PROVE StaysShut
  BY <1>4 DEF HandlerEnds, mongoVars, procVars, loopVars, callVars, histVars, LoopInv, TypeOK,
     StaysShut
<1>5. ASSUME NEW l \in Loops, Finish(l) PROVE StaysShut
  BY <1>5 DEF Finish, mongoVars, procVars, loopVars, callVars, histVars, LoopInv, TypeOK,
     StaysShut
<1>6. ASSUME NEW l \in Loops, RequestFails(l) PROVE StaysShut
  BY <1>6 DEF RequestFails, mongoVars, procVars, loopVars, callVars, histVars, LoopInv, TypeOK,
     StaysShut
<1>7. ASSUME NEW r \in Rows, EnqueueCheck(r) PROVE StaysShut
  BY <1>7 DEF EnqueueCheck, mongoVars, procVars, loopVars, callVars, histVars, LoopInv, TypeOK,
     StaysShut
<1>8. ASSUME NEW r \in Rows, EnqueueInsert(r) PROVE StaysShut
  BY <1>8 DEF EnqueueInsert, mongoVars, procVars, loopVars, callVars, histVars, LoopInv, TypeOK,
     StaysShut
<1>9. ASSUME NEW r \in Rows, EnqueueKick(r) PROVE StaysShut
  <2>1. draining' # draining => ~paused /\ phase \in {"up", "count"}
    BY <1>9 DEF EnqueueKick, Drain, BootInv
  <2>2. pausedSetting' = pausedSetting
    BY <1>9 DEF EnqueueKick, mongoVars
  <2> QED
    BY <2>1, <2>2 DEF SyncInv, PauseInSync, Writing, StaysShut
<1>10. ASSUME NEW r \in Rows, Cancel(r) PROVE StaysShut
  BY <1>10 DEF Cancel, mongoVars, procVars, loopVars, callVars, histVars, LoopInv, TypeOK,
     StaysShut
<1>11. ASSUME NEW r \in Rows, PromoteRead(r) PROVE StaysShut
  BY <1>11 DEF PromoteRead, mongoVars, procVars, loopVars, callVars, histVars, LoopInv, TypeOK,
     StaysShut
<1>12. ASSUME NEW r \in Rows, PromoteWrite(r) PROVE StaysShut
  BY <1>12 DEF PromoteWrite, mongoVars, procVars, loopVars, callVars, histVars, LoopInv, TypeOK,
     StaysShut
<1>13. ASSUME NEW b \in Presses, NEW on \in BOOLEAN, SetPaused(b, on) PROVE StaysShut
  BY <1>13 DEF SetPaused, mongoVars, procVars, loopVars, callVars, histVars, LoopInv, TypeOK,
     StaysShut
<1>14. ASSUME NEW b \in BOOLEAN, Hold(b) PROVE StaysShut
  <2>1. draining' # draining => ~paused /\ phase \in {"up", "count"}
    BY <1>14 DEF Hold, Drain, BootInv
  <2>2. pausedSetting' = pausedSetting
    BY <1>14 DEF Hold, mongoVars
  <2> QED
    BY <2>1, <2>2 DEF SyncInv, PauseInSync, Writing, StaysShut
<1>15. ASSUME NEW b \in Presses, PressAnswered(b) PROVE StaysShut
  <2>1. draining' # draining => ~paused /\ phase \in {"up", "count"}
    BY <1>15 DEF PressAnswered, Drain, BootInv
  <2>2. pausedSetting' = pausedSetting
    BY <1>15 DEF PressAnswered, mongoVars
  <2> QED
    BY <2>1, <2>2 DEF SyncInv, PauseInSync, Writing, StaysShut
<1>15a. ASSUME NEW b \in Presses, PressStored(b) PROVE StaysShut
  BY <1>15a DEF PressStored, mongoVars, procVars, loopVars, callVars, histVars, LoopInv, TypeOK,
     StaysShut
<1>15b. ASSUME NEW b \in Presses, PressRefused(b) PROVE StaysShut
  BY <1>15b DEF PressRefused, mongoVars, procVars, loopVars, callVars, histVars, LoopInv, TypeOK,
     StaysShut
<1>16. ASSUME Boot PROVE StaysShut
  BY <1>16 DEF Boot, mongoVars, procVars, loopVars, callVars, histVars, LoopInv, TypeOK,
     StaysShut
<1>17. ASSUME StartBegins PROVE StaysShut
  BY <1>17 DEF StartBegins, mongoVars, procVars, loopVars, callVars, histVars, LoopInv, TypeOK,
     StaysShut
<1>18. ASSUME StartReadsPause PROVE StaysShut
  BY <1>18 DEF StartReadsPause, mongoVars, procVars, loopVars, callVars, histVars, LoopInv,
     TypeOK, StaysShut
<1>19. ASSUME Recover PROVE StaysShut
  BY <1>19 DEF Recover, mongoVars, procVars, loopVars, callVars, histVars, LoopInv, TypeOK,
     StaysShut
<1>20. ASSUME StartKicks PROVE StaysShut
  <2>1. draining' # draining => ~paused /\ phase \in {"up", "count"}
    BY <1>20 DEF StartKicks, Drain, BootInv
  <2>2. pausedSetting' = pausedSetting
    BY <1>20 DEF StartKicks, mongoVars
  <2> QED
    BY <2>1, <2>2 DEF SyncInv, PauseInSync, Writing, StaysShut
<1>21. ASSUME Crash PROVE StaysShut
  BY <1>21 DEF Crash, mongoVars, procVars, loopVars, callVars, histVars, LoopInv, TypeOK,
     StaysShut
<1>22. ASSUME UNCHANGED vars PROVE StaysShut
  BY <1>22 DEF vars, mongoVars, procVars, loopVars, callVars, histVars, LoopInv, TypeOK,
     StaysShut
<1> QED
  BY <1>1, <1>2, <1>3, <1>4, <1>5, <1>6, <1>7, <1>8, <1>9, <1>10, <1>11, <1>12, <1>13, <1>14,
     <1>15, <1>15a, <1>15b, <1>16, <1>17, <1>18, <1>19, <1>20, <1>21, <1>22 DEF Next, LoopStep, BootStep

-----------------------------------------------------------------------------
(* The lane implements RunLane.                                             *)

\* The row of the loop that has one, when the loops have the rows `c`.
HolderOf(c) == IF \E l \in Loops : c[l] # NoRow
               THEN c[CHOOSE l \in Loops : c[l] # NoRow] ELSE NoRow

LEMMA HolderIs ==
  ASSUME NEW c, NEW l \in Loops, c[l] # NoRow, \A m \in Loops : m # l => c[m] = NoRow
  PROVE  HolderOf(c) = c[l]
<1>1. (CHOOSE m \in Loops : c[m] # NoRow) = l
  BY Zenon
<1>2. \E m \in Loops : c[m] # NoRow
  OBVIOUS
<1> QED
  BY <1>1, <1>2, Zenon DEF HolderOf

LEMMA NoHolder == ASSUME NEW c, \A l \in Loops : c[l] = NoRow PROVE HolderOf(c) = NoRow
  BY Zenon DEF HolderOf

LEMMA HolderNowAndNext == holder = HolderOf(cur) /\ holder' = HolderOf(cur')
  BY Zenon DEF holder, HolderOf

LEMMA InitMaps == Init => Lane!Init
<1> SUFFICES ASSUME Init PROVE Lane!Init
  OBVIOUS
<1>1. HolderOf(cur) = NoRow
  <2>1. \A l \in Loops : cur[l] = NoRow
    BY DEF Init
  <2> QED
    BY <2>1, NoHolder
<1>2. holder = NoRow
  BY <1>1, HolderNowAndNext
<1> QED
  BY <1>2 DEF Init, Lane!Init

LaneStep == Lane!Next \/ UNCHANGED <<status, holder>>

LEMMA Stutters == ASSUME status' = status, cur' = cur PROVE LaneStep
<1>1. holder' = holder
  BY HolderNowAndNext
<1> QED
  BY <1>1 DEF LaneStep

LEMMA EveryStepMaps == LoopInv /\ BootInv /\ [Next]_vars => LaneStep
<1> SUFFICES ASSUME LoopInv /\ BootInv, [Next]_vars PROVE LaneStep
  OBVIOUS
<1>1. ASSUME NEW l \in Loops, Claim(l) PROVE LaneStep
  <2>1. \A m \in Loops : cur[m] = NoRow
    BY <1>1, Alone DEF Claim
  <2>2. CASE \E r \in Queued : /\ status' = [status EXCEPT ![r] = "running"]
                              /\ cur' = [cur EXCEPT ![l] = r]
    <3>1. PICK r \in Queued : /\ status' = [status EXCEPT ![r] = "running"]
                             /\ cur' = [cur EXCEPT ![l] = r]
      BY <2>2
    <3>2. r \in Rows /\ status[r] = "queued" /\ r # NoRow
      BY ConstAssumption DEF Queued
    <3>3. cur'[l] = r /\ \A m \in Loops : m # l => cur'[m] = NoRow
      BY <2>1, <3>1 DEF LoopInv, TypeOK
    <3>4. HolderOf(cur) = NoRow /\ HolderOf(cur') = r
      BY <2>1, <3>2, <3>3, NoHolder, HolderIs
    <3>5. holder = NoRow /\ holder' = r
      BY <3>4, HolderNowAndNext
    <3> QED
      BY <3>1, <3>2, <3>5 DEF LaneStep, Lane!Next, Lane!Take
  <2>3. CASE UNCHANGED <<status, cur>>
    BY <2>3, Stutters
  <2> QED
    BY <1>1, <2>2, <2>3 DEF Claim
<1>2. ASSUME NEW l \in Loops, DrainDone(l) PROVE LaneStep
  BY <1>2, Stutters DEF DrainDone, mongoVars, procVars, loopVars, callVars, histVars
<1>3. ASSUME NEW l \in Loops, RunOne(l) PROVE LaneStep
  BY <1>3, Stutters DEF RunOne, mongoVars, procVars, loopVars, callVars, histVars
<1>4. ASSUME NEW l \in Loops, HandlerEnds(l) PROVE LaneStep
  BY <1>4, Stutters DEF HandlerEnds, mongoVars, procVars, loopVars, callVars, histVars
<1>5. ASSUME NEW l \in Loops, Finish(l) PROVE LaneStep
  <2>1. /\ cur[l] \in Rows /\ cur[l] # NoRow /\ status[cur[l]] = "running"
        /\ out[l] \in {"done", "failed"}
        /\ \A m \in Loops : m # l => cur[m] = NoRow
    BY <1>5, Alone DEF Finish, LoopInv, HandInv
  <2>2. status' = [status EXCEPT ![cur[l]] = out[l]] /\ cur' = [cur EXCEPT ![l] = NoRow]
    BY <1>5 DEF Finish
  <2>3. \A m \in Loops : cur'[m] = NoRow
    BY <2>1, <2>2 DEF LoopInv, TypeOK
  <2>4. HolderOf(cur) = cur[l] /\ HolderOf(cur') = NoRow
    BY <2>1, <2>3, HolderIs, NoHolder
  <2>5. holder = cur[l] /\ holder' = NoRow
    BY <2>4, HolderNowAndNext
  <2>6. Lane!Settle(cur[l], out[l])
    BY <2>1, <2>2, <2>5 DEF Lane!Settle
  <2> QED
    BY <2>1, <2>6 DEF LaneStep, Lane!Next
<1>6. ASSUME NEW l \in Loops, RequestFails(l) PROVE LaneStep
  <2>1. status' = status
    BY <1>6 DEF RequestFails, mongoVars
  <2>2. CASE cur' = cur
    BY <2>1, <2>2, Stutters
  <2>3. CASE /\ pc[l] = "claim" \/ pc[l] = "finish"
             /\ cur' = [cur EXCEPT ![l] = NoRow]
    <3>1. \A m \in Loops : m # l => cur[m] = NoRow
      BY <2>3, Alone
    <3>2. \A m \in Loops : cur'[m] = NoRow
      BY <2>3, <3>1 DEF LoopInv, TypeOK
    <3>3. holder' = NoRow
      <4>1. HolderOf(cur') = NoRow
        BY <3>2, NoHolder
      <4> QED
        BY <4>1, HolderNowAndNext
    <3> QED
      BY <2>1, <3>3 DEF LaneStep, Lane!Next, Lane!Abandon
  <2> QED
    BY <1>6, <2>2, <2>3 DEF RequestFails
<1>7. ASSUME NEW r \in Rows, EnqueueCheck(r) PROVE LaneStep
  BY <1>7, Stutters DEF EnqueueCheck, mongoVars, procVars, loopVars, callVars, histVars
<1>8. ASSUME NEW r \in Rows, EnqueueInsert(r) PROVE LaneStep
  <2>1. status[r] = "absent" /\ status' = [status EXCEPT ![r] = "queued"] /\ cur' = cur
    BY <1>8 DEF EnqueueInsert, loopVars, LoopInv, FreshInv
  <2>2. holder' = holder
    BY <2>1, HolderNowAndNext
  <2> QED
    BY <2>1, <2>2 DEF LaneStep, Lane!Next, Lane!Submit
<1>9. ASSUME NEW r \in Rows, EnqueueKick(r) PROVE LaneStep
  BY <1>9, Stutters DEF EnqueueKick, mongoVars, procVars, loopVars, callVars, histVars
<1>10. ASSUME NEW r \in Rows, Cancel(r) PROVE LaneStep
  <2>1. status[r] = "queued" /\ status' = [status EXCEPT ![r] = "cancelled"] /\ cur' = cur
    BY <1>10 DEF Cancel, loopVars
  <2>2. holder' = holder
    BY <2>1, HolderNowAndNext
  <2> QED
    BY <2>1, <2>2 DEF LaneStep, Lane!Next, Lane!Withdraw
<1>11. ASSUME NEW r \in Rows, PromoteRead(r) PROVE LaneStep
  BY <1>11, Stutters DEF PromoteRead, mongoVars, procVars, loopVars, callVars, histVars
<1>12. ASSUME NEW r \in Rows, PromoteWrite(r) PROVE LaneStep
  BY <1>12, Stutters DEF PromoteWrite, mongoVars, procVars, loopVars, callVars, histVars
<1>13. ASSUME NEW b \in Presses, NEW on \in BOOLEAN, SetPaused(b, on) PROVE LaneStep
  BY <1>13, Stutters DEF SetPaused, mongoVars, procVars, loopVars, callVars, histVars
<1>14. ASSUME NEW b \in BOOLEAN, Hold(b) PROVE LaneStep
  BY <1>14, Stutters DEF Hold, mongoVars, procVars, loopVars, callVars, histVars
<1>15. ASSUME NEW b \in Presses, PressAnswered(b) PROVE LaneStep
  BY <1>15, Stutters DEF PressAnswered, mongoVars, procVars, loopVars, callVars, histVars
<1>15a. ASSUME NEW b \in Presses, PressStored(b) PROVE LaneStep
  BY <1>15a, Stutters DEF PressStored, mongoVars, procVars, loopVars, callVars, histVars
<1>15b. ASSUME NEW b \in Presses, PressRefused(b) PROVE LaneStep
  BY <1>15b, Stutters DEF PressRefused, mongoVars, procVars, loopVars, callVars, histVars
<1>16. ASSUME Boot PROVE LaneStep
  BY <1>16, Stutters DEF Boot, mongoVars, procVars, loopVars, callVars, histVars
<1>17. ASSUME StartBegins PROVE LaneStep
  BY <1>17, Stutters DEF StartBegins, mongoVars, procVars, loopVars, callVars, histVars
<1>18. ASSUME StartReadsPause PROVE LaneStep
  BY <1>18, Stutters DEF StartReadsPause, mongoVars, procVars, loopVars, callVars, histVars
<1>19. ASSUME Recover PROVE LaneStep
  <2>1. cur' = cur
    BY <1>19 DEF Recover, loopVars
  <2>2. \A l \in Loops : cur[l] = NoRow
    BY <1>19 DEF Recover, BootInv, Busy, LoopInv, HandInv
  <2>3. holder = NoRow /\ holder' = holder
    <3>1. HolderOf(cur) = NoRow
      BY <2>2, NoHolder
    <3> QED
      BY <2>1, <3>1, HolderNowAndNext
  <2>4. CASE /\ status' = [r \in Rows |-> IF status[r] = "running"
                                         THEN "interrupted" ELSE status[r]]
             /\ \E r \in Rows : status[r] = "running"
    BY <2>3, <2>4 DEF LaneStep, Lane!Next, Lane!WriteOff
  <2>5. CASE /\ status' = [r \in Rows |-> IF status[r] = "running"
                                         THEN "interrupted" ELSE status[r]]
             /\ ~\E r \in Rows : status[r] = "running"
    <3>1. status' = status
      BY <2>5 DEF LoopInv, TypeOK
    <3> QED
      BY <2>1, <3>1, Stutters
  <2>6. CASE status' = status
    BY <2>1, <2>6, Stutters
  <2> QED
    BY <1>19, <2>4, <2>5, <2>6 DEF Recover
<1>20. ASSUME StartKicks PROVE LaneStep
  BY <1>20, Stutters DEF StartKicks, mongoVars, procVars, loopVars, callVars, histVars
<1>21. ASSUME Crash PROVE LaneStep
  <2>1. status' = status /\ cur' = [l \in Loops |-> NoRow]
    BY <1>21 DEF Crash, mongoVars
  <2>2. holder' = NoRow
    <3>1. \A l \in Loops : cur'[l] = NoRow
      BY <2>1
    <3>2. HolderOf(cur') = NoRow
      BY <3>1, NoHolder
    <3> QED
      BY <3>2, HolderNowAndNext
  <2> QED
    BY <2>1, <2>2 DEF LaneStep, Lane!Next, Lane!Abandon
<1>22. ASSUME UNCHANGED vars PROVE LaneStep
  BY <1>22, Stutters DEF vars, mongoVars, loopVars
<1> QED
  BY <1>1, <1>2, <1>3, <1>4, <1>5, <1>6, <1>7, <1>8, <1>9, <1>10, <1>11, <1>12, <1>13, <1>14,
     <1>15, <1>15a, <1>15b, <1>16, <1>17, <1>18, <1>19, <1>20, <1>21, <1>22 DEF Next, LoopStep, BootStep

-----------------------------------------------------------------------------
(* The theorems.                                                            *)

\* LoopInv holds in every reachable state, Agenda jobs that fire before start(),
\* refused requests and any number of crashes included.
THEOREM LoopInvariant == Spec => []LoopInv
  BY InitLoopInv, LoopInvStep, PTL DEF Spec

\* Every variable of the lane keeps its type (a loop that records an outcome has one).
THEOREM TypeCorrect == Spec => []TypeOK
<1>1. LoopInv => TypeOK
  BY DEF LoopInv
<1> QED
  BY <1>1, LoopInvariant, PTL

\* drain() is never in progress twice in one process, however the kicks interleave.
THEOREM OneTurn == Spec => []OneTurnAtATime
<1>1. LoopInv => OneTurnAtATime
  BY DEF LoopInv, FlagInv
<1> QED
  BY <1>1, LoopInvariant, PTL

\* No row's handler is started a second time, over any number of restarts.
THEOREM NeverTwice == Spec => []RunAtMostOnce
<1>1. LoopInv => RunAtMostOnce
  BY DEF LoopInv, FreshInv
<1> QED
  BY <1>1, LoopInvariant, PTL

\* If no job fires before start() has ended, the lane is untouched until then, and the
\* row a handler runs on stays "running".
THEOREM BootInvariant == ASSUME NoEarlyRows PROVE Spec => []BootInv
<1>1. LoopInv /\ BootInv /\ [Next]_vars => BootInv'
  BY BootInvStep
<1>2. Init => BootInv
  BY InitBootInv
<1> QED
  BY <1>1, <1>2, LoopInvariant, PTL DEF Spec

\* Nothing takes the row away under its handler (cancel, promote, recover).
THEOREM HeldRowStaysRunning == ASSUME NoEarlyRows PROVE Spec => []HeldRowIsRunning
<1>1. BootInv => HeldRowIsRunning
  BY DEF BootInv
<1> QED
  BY <1>1, BootInvariant, PTL

\* A pause or a hold() lets at most the turn through whose claim was under way.
THEOREM AtMostOneAfterShut == ASSUME NoEarlyRows PROVE Spec => []ShutLetsOneThrough
<1>1. LoopInv /\ BootInv /\ ShutInv /\ [Next]_vars => ShutInv'
  BY ShutInvStep
<1>2. Init => ShutInv
  BY InitBootInv
<1>3. ShutInv => ShutLetsOneThrough
  BY DEF ShutInv, ShutLetsOneThrough
<1> QED
  BY <1>1, <1>2, <1>3, LoopInvariant, BootInvariant, PTL DEF Spec

\* If no database request is refused either, the row the operator is shown as running
\* is one that a loop of this process has.
THEOREM RunningRowsAreHeld == ASSUME NoEarlyRows, DbNeverFails PROVE Spec => []RunningIsHeld
<1>1. LoopInv /\ BootInv /\ RunningIsHeld /\ [Next]_vars => RunningIsHeld'
  BY RunningIsHeldStep
<1>2. Init => RunningIsHeld
  BY InitSyncInv
<1> QED
  BY <1>1, <1>2, LoopInvariant, BootInvariant, PTL DEF Spec

\* While no request is refused and nothing enqueues early, the pause switch of the process
\* and the stored one agree in the way SyncInv says (setPaused(), start()).
THEOREM SyncInvariant == ASSUME NoEarlyRows, DbNeverFails PROVE Spec => []SyncInv
<1>1. LoopInv /\ BootInv /\ SyncInv /\ [Next]_vars => SyncInv'
  BY SyncInvStep
<1>2. Init => SyncInv
  BY InitSyncInv
<1> QED
  BY <1>1, <1>2, LoopInvariant, BootInvariant, PTL DEF Spec

\* ... and the switch the lane obeys is the one that is stored, whichever of any number
\* of presses are under way, unless the last one was made before another was written.
THEOREM PauseStaysInSync == ASSUME NoEarlyRows, DbNeverFails PROVE Spec => []PauseInSync
<1>1. SyncInv => PauseInSync
  BY DEF SyncInv
<1> QED
  BY <1>1, SyncInvariant, PTL

\* What became of a turn is written once.
THEOREM OutcomeIsFinal == ASSUME NoEarlyRows PROVE Spec => TerminalIsFinal
<1>1. LoopInv /\ BootInv /\ [Next]_vars => [TerminalStays]_vars
  BY TerminalStep
<1> QED
  BY <1>1, LoopInvariant, BootInvariant, PTL DEF Spec, TerminalIsFinal, TerminalStays

\* No drain starts while the stored switch says paused, unless a resume is being written
\* or the last press was made before another was written.
THEOREM PausedStaysShut == ASSUME NoEarlyRows, DbNeverFails PROVE Spec => PausedLaneStaysShut
<1>1. LoopInv /\ BootInv /\ SyncInv /\ [Next]_vars => [StaysShut]_vars
  BY StaysShutStep
<1> QED
  BY <1>1, LoopInvariant, BootInvariant, SyncInvariant, PTL DEF Spec, PausedLaneStaysShut, StaysShut

\* Every behaviour of the lane is one of RunLane: a turn is taken by one holder at a
\* time, taken once, and settled, abandoned or written off once.
THEOREM ImplementsRunLane == ASSUME NoEarlyRows PROVE Spec => LaneIsImplemented
<1>1. LoopInv /\ BootInv /\ [Next]_vars => [Lane!Next]_Lane!laneVars
  BY EveryStepMaps DEF LaneStep, Lane!laneVars
<1> QED
  BY <1>1, InitMaps, LoopInvariant, BootInvariant, PTL DEF Spec, LaneIsImplemented, Lane!Spec
=============================================================================
