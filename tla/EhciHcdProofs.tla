--------------------------- MODULE EhciHcdProofs ---------------------------
(***************************************************************************)
(* Theorems about EhciHcd, for every value of its constants: its types;    *)
(* who may touch the shared memory (ReinitRecovers and Quiescent of any    *)
(* controller, the refinement of DmaOwnership of every controller that is  *)
(* not "late"); how many steps a call takes.                               *)
(***************************************************************************)
EXTENDS EhciHcd, TLAPS

USE HcdAssumption

-----------------------------------------------------------------------------
(* Type correctness.                                                       *)

LEMMA StagesType ==
  ASSUME NEW t \in Transfers
  PROVE  NumStages(t) \in Stages
BY SMT DEF Transfers, NumStages, HasData, IsControl, Stages, Dirs

LEMMA TdType ==
  ASSUME TypeOK, NEW t \in Transfers, NEW i \in Stages, i <= NumStages(t)
  PROVE  NewTd(t, i) \in Tds
<1>1. NumStages(t) \in Stages
  BY StagesType
<1>2. t.len \in 0 .. MaxLen /\ t.dir \in Dirs
  BY DEF Transfers
<1>3. StageToggle(t, i) \in Bits
  BY <1>2 DEF StageToggle, TypeOK, Bits
<1>4. PipeDir(t) \in Dirs /\ Opposite(PipeDir(t)) \in Dirs
  BY <1>2 DEF PipeDir, Opposite, Dirs
<1> DEFINE n == NewTd(t, i)
<1>5. n.pid \in Pids
  BY <1>4 DEF NewTd, Pids, Dirs
<1>6. n.left \in 0 .. MaxLen + 1
  BY <1>2, SMT DEF NewTd
<1>7. n.next \in 0 .. 3
  BY <1>1, SMT DEF NewTd, Stages
<1>8. n.flags \in SUBSET Flags
  BY DEF NewTd
<1> QED
  BY <1>3, <1>5, <1>6, <1>7, <1>8 DEF NewTd, Tds

LEMMA UnlinkedType ==
  ASSUME TypeOK, NEW t \in Transfers, ~Fits(t), NEW i \in Stages, i <= DataStage(t)
  PROVE  UnlinkedTd(t, i) \in Tds
<1>1. i <= NumStages(t)
  <2>1. t.len \in Nat /\ t.len > 0
    BY SMT DEF Transfers, Fits
  <2> QED
    BY <2>1, SMT DEF NumStages, DataStage, HasData, IsControl, Stages
<1>2. NewTd(t, i) \in Tds
  BY <1>1, TdType
<1>3. 0 \in 0 .. 3
  BY SMT
<1> QED
  BY <1>2, <1>3 DEF UnlinkedTd, Tds

LEMMA QhType ==
  ASSUME NEW k \in 0 .. 3
  PROVE  NewQh(k) \in Overlays
BY SMT DEF NewQh, Overlays, Flags, Bits

LEMMA UnusedType == UnusedTd \in Tds
BY SMT DEF UnusedTd, Tds, Pids, Flags, Bits

LEMMA InitType == Init => TypeOK
<1> SUFFICES ASSUME Init PROVE TypeOK
  OBVIOUS
<1>1. xfer \in Transfers
  BY SMT DEF Init, Transfers, Dirs
<1>2. qh \in Overlays
  BY QhType, SMT DEF Init
<1>3. td \in [Stages -> Tds]
  BY UnusedType DEF Init
<1>4. /\ toggle \in [Dirs -> Bits] /\ devTog \in [Dirs -> Bits] /\ owed \in [Dirs -> Bits]
  BY DEF Init, Bits
<1>5. /\ pc \in Pcs /\ tries \in 1 .. Tries /\ status \in Statuses /\ list \in {"self", "qh"}
      /\ moved \in Nat /\ synced \in BOOLEAN
      /\ actLen \in -(MaxLen + 1) .. MaxLen /\ res \in -(MaxLen + 1) .. MaxLen
  BY SMT DEF Init, Pcs, Statuses
<1>6. /\ run \in BOOLEAN /\ ase \in BOOLEAN /\ rst \in BOOLEAN
      /\ halt \in BOOLEAN /\ ass \in BOOLEAN /\ fatal \in BOOLEAN /\ here \in BOOLEAN
      /\ held \in BOOLEAN
  BY DEF Init
<1> QED
  BY <1>1, <1>2, <1>3, <1>4, <1>5, <1>6 DEF TypeOK

LEMMA SubmitType ==
  ASSUME TypeOK, NEW t \in Calls, Submit(t)
  PROVE  TypeOK'
<1>1. t \in Transfers
  BY DEF HcdAssumption
<1>2. qh' \in Overlays
  BY QhType DEF Submit
<1>3. td' \in [Stages -> Tds]
  <2>1. CASE Fits(t) /\ td' = [i \in Stages |-> IF i <= NumStages(t) THEN NewTd(t, i)
                                                                  ELSE UnusedTd]
    BY <1>1, <2>1, TdType, UnusedType
  <2>2. CASE /\ ~Fits(t)
             /\ td' = [i \in Stages |-> IF i <= DataStage(t) THEN UnlinkedTd(t, i) ELSE td[i]]
    BY <1>1, <2>2, UnlinkedType DEF TypeOK
  <2> QED
    BY <2>1, <2>2 DEF Submit
<1>4. synced' \in BOOLEAN
  BY DEF Submit
<1>5. /\ xfer' \in Transfers /\ status' \in Statuses /\ moved' \in Nat
      /\ pc' \in Pcs /\ list' \in {"self", "qh"} /\ res' \in -(MaxLen + 1) .. MaxLen
  BY <1>1, SMT DEF Submit, TypeOK, Statuses, Pcs
<1> QED
  BY <1>2, <1>3, <1>4, <1>5 DEF Submit, TypeOK, cmd, sts

(* Most driver steps move the program counter, a command bit or the list head. *)
LEMMA ControlStepType ==
  ASSUME TypeOK, pc' \in Pcs, tries' \in 1 .. Tries, list' \in {"self", "qh"},
         run' \in BOOLEAN, ase' \in BOOLEAN, rst' \in BOOLEAN, fatal' \in BOOLEAN,
         UNCHANGED <<call, qh, td, halt, ass, here, held, device>>
  PROVE  TypeOK'
BY DEF TypeOK, call, device

LEMMA InitialisationType ==
  ASSUME TypeOK, InitBegin \/ HaltWait \/ ResetWait \/ Setup \/ Hang
  PROVE  TypeOK'
<1>1. Tries \in 1 .. Tries
  BY SMT
<1>2. CASE InitBegin
  <2>1. pc' \in Pcs
    BY <1>2 DEF InitBegin, Pcs
  <2> QED
    BY <1>1, <1>2, <2>1, ControlStepType DEF InitBegin, TypeOK, mem, sts
<1>3. CASE HaltWait
  <2>1. pc' \in Pcs /\ tries' \in 1 .. Tries
    BY <1>3, SMT DEF HaltWait, Await, PollAgain, TimesOut, TypeOK, Pcs
  <2> QED
    BY <1>3, <2>1, ControlStepType DEF HaltWait, TypeOK, mem, sts
<1>4. CASE ResetWait
  <2>1. pc' \in Pcs /\ tries' \in 1 .. Tries
    BY <1>4, SMT DEF ResetWait, Await, PollAgain, TimesOut, TypeOK, Pcs
  <2> QED
    BY <1>4, <2>1, ControlStepType DEF ResetWait, TypeOK, mem, cmd, sts
<1>5. CASE Setup
  <2>1. pc' \in Pcs
    BY <1>5 DEF Setup, Pcs
  <2> QED
    BY <1>5, <2>1, ControlStepType DEF Setup, TypeOK, sts
<1>6. CASE Hang
  BY <1>6, ControlStepType DEF Hang, TypeOK, vars, drv, mem, cmd, sts
<1> QED
  BY <1>2, <1>3, <1>4, <1>5, <1>6

LEMMA FinishType ==
  ASSUME TypeOK, Finish
  PROVE  TypeOK'
<1> USE DEF cmd, sts, device
<1>1. xfer.len \in 0 .. MaxLen /\ xfer.dir \in Dirs
  BY DEF TypeOK, Transfers
<1>2. qh.left \in 0 .. MaxLen + 1 /\ qh.tog \in Bits
  BY DEF TypeOK, Overlays
<1>3. Transferred(xfer) \in -(MaxLen + 1) .. MaxLen
  BY <1>1, <1>2, SMT DEF Transferred
<1>4. Decode(qh.flags) \in Statuses
  BY DEF Decode, Statuses
<1>5. ASSUME NEW st PROVE SavedToggle(xfer, st) \in [Dirs -> Bits]
  BY <1>1, <1>2 DEF SavedToggle, TypeOK, Bits
<1>6. ASSUME NEW st, NEW n \in -(MaxLen + 1) .. MaxLen
      PROVE  Result(xfer, st, n) \in -(MaxLen + 1) .. MaxLen
  BY SMT DEF Result
<1>7. CASE ~qh.active
  <2>1. /\ status' \in Statuses /\ actLen' \in -(MaxLen + 1) .. MaxLen
        /\ toggle' \in [Dirs -> Bits] /\ res' \in -(MaxLen + 1) .. MaxLen
    BY <1>3, <1>4, <1>5, <1>6, <1>7 DEF Finish
  <2> QED
    BY <2>1 DEF Finish, TypeOK, Pcs
<1>8. CASE qh.active
  <2>1. actLen' \in -(MaxLen + 1) .. MaxLen /\ res' \in -(MaxLen + 1) .. MaxLen
    BY <1>8, SMT DEF Finish
  <2> QED
    BY <1>8, <2>1 DEF Finish, TypeOK, Pcs
<1> QED
  BY <1>7, <1>8

LEMMA TransferType ==
  ASSUME TypeOK,
         ClearStatus \/ Enable \/ WaitOn \/ Poll \/ Disable \/ WaitOff \/ Fail
  PROVE  TypeOK'
<1>0. Tries \in 1 .. Tries
  BY SMT
<1>1. CASE ClearStatus
  <2>1. pc' \in Pcs
    BY <1>1 DEF ClearStatus, Pcs
  <2> QED
    BY <1>1, <2>1, ControlStepType DEF ClearStatus, TypeOK, mem, cmd
<1>2. CASE Enable
  <2>1. pc' \in Pcs
    BY <1>2 DEF Enable, Pcs
  <2> QED
    BY <1>0, <1>2, <2>1, ControlStepType DEF Enable, TypeOK, mem, sts
<1>3. CASE WaitOn
  <2>1. pc' \in Pcs /\ tries' \in 1 .. Tries
    BY <1>3, SMT DEF WaitOn, Await, PollAgain, TimesOut, TypeOK, Pcs
  <2> QED
    BY <1>3, <2>1, ControlStepType DEF WaitOn, TypeOK, mem, cmd, sts
<1>4. CASE Poll
  <2>1. pc' \in Pcs /\ tries' \in 1 .. Tries
    BY <1>4, SMT DEF Poll, PollAgain, TypeOK, Pcs
  <2> QED
    BY <1>4, <2>1, ControlStepType DEF Poll, TypeOK, mem, cmd, sts
<1>5. CASE Disable
  <2>1. pc' \in Pcs
    BY <1>5 DEF Disable, Pcs
  <2> QED
    BY <1>0, <1>5, <2>1, ControlStepType DEF Disable, TypeOK, mem, sts
<1>6. CASE WaitOff
  <2>1. pc' \in Pcs /\ tries' \in 1 .. Tries
    BY <1>6, SMT DEF WaitOff, Await, PollAgain, TimesOut, TypeOK, Pcs
  <2> QED
    BY <1>6, <2>1, ControlStepType DEF WaitOff, TypeOK, mem, cmd, sts
<1>7. CASE Fail
  <2>1. qh' \in Overlays
    BY <1>7, SMT DEF Fail, TypeOK, Overlays
  <2>2. pc' \in Pcs /\ res' \in -(MaxLen + 1) .. MaxLen
    BY <1>7, SMT DEF Fail, Pcs
  <2> QED
    BY <1>7, <2>1, <2>2 DEF Fail, TypeOK, cmd, sts, device
<1> QED
  BY <1>1, <1>2, <1>3, <1>4, <1>5, <1>6, <1>7

(* The memory a controller leaves when it retires a stage or transfers a packet. *)
LEMMA RetireType ==
  ASSUME TypeOK, qh.cur # 0, NEW flags \in SUBSET Flags, NEW left \in 0 .. MaxLen + 1,
         NEW tog \in Bits, Retire(flags, left, tog)
  PROVE  qh' \in Overlays /\ td' \in [Stages -> Tds]
<1>1. qh \in Overlays /\ td \in [Stages -> Tds] /\ qh.cur \in Stages
  BY SMT DEF TypeOK, Overlays, Stages
<1>2. qh' \in Overlays
  BY <1>1 DEF Retire, Overlays
<1>3. td' = [td EXCEPT ![qh.cur] = [td[qh.cur] EXCEPT !.active = FALSE, !.flags = flags,
                                                  !.left = left, !.tog = tog]]
  BY <1>1 DEF Retire
<1>4. td[qh.cur] \in Tds
  BY <1>1
<1>5. [td[qh.cur] EXCEPT !.active = FALSE, !.flags = flags, !.left = left, !.tog = tog]
        \in Tds
  BY <1>4 DEF Tds
<1> QED
  BY <1>1, <1>2, <1>3, <1>5

LEMMA AdvanceType ==
  ASSUME TypeOK, qh.cur # 0, Advance
  PROVE  qh' \in Overlays /\ td' \in [Stages -> Tds]
<1>1. qh \in Overlays /\ qh.flags \in SUBSET Flags /\ qh.left \in 0 .. MaxLen + 1
  BY DEF TypeOK, Overlays
<1>2. 1 - qh.tog \in Bits
  BY SMT DEF TypeOK, Overlays, Bits
<1>3. CASE qh.left > 1
  <2>1. qh.left - 1 \in 0 .. MaxLen + 1
    BY <1>1, <1>3, SMT
  <2>2. qh' = [qh EXCEPT !.left = qh.left - 1, !.tog = 1 - qh.tog] /\ UNCHANGED td
    BY <1>3 DEF Advance
  <2> QED
    BY <1>1, <1>2, <2>1, <2>2 DEF TypeOK, Overlays
<1>4. CASE ~(qh.left > 1)
  <2>1. Retire(qh.flags, 0, 1 - qh.tog)
    BY <1>4 DEF Advance
  <2>2. 0 \in 0 .. MaxLen + 1
    BY SMT
  <2> QED
    BY <1>1, <1>2, <2>1, <2>2, RetireType
<1> QED
  BY <1>3, <1>4

(* Steps of the controller that leave the shared memory alone. *)
LEMMA RegisterType ==
  ASSUME TypeOK, HcHalt \/ HcFollowAse \/ HcResetDone \/ HcFatal \/ HcVanish
                 \/ HcEnter
  PROVE  TypeOK'
<1> USE DEF TypeOK, drv, call, mem, cmd, sts, device
<1>1. CASE HcHalt
  BY <1>1 DEF HcHalt
<1>2. CASE HcFollowAse
  BY <1>2 DEF HcFollowAse
<1>3. CASE HcResetDone
  BY <1>3 DEF HcResetDone
<1>4. CASE HcFatal
  BY <1>4 DEF HcFatal
<1>5. CASE HcVanish
  BY <1>5 DEF HcVanish
<1>6. CASE HcEnter
  BY <1>6 DEF HcEnter
<1> QED
  BY <1>1, <1>2, <1>3, <1>4, <1>5, <1>6

(* The frame of the steps that execute the queue. *)
LEMMA ExecuteType ==
  ASSUME TypeOK, qh' \in Overlays, td' \in [Stages -> Tds],
         devTog' \in [Dirs -> Bits], owed' \in [Dirs -> Bits], moved' \in Nat,
         UNCHANGED <<drv, call, list, cmd, sts, synced>>
  PROVE  TypeOK'
BY DEF TypeOK, drv, call, cmd, sts

LEMMA FlipType ==
  ASSUME NEW f \in [Dirs -> Bits], NEW d \in Dirs
  PROVE  /\ Flip(f, d) \in [Dirs -> Bits]
         /\ [f EXCEPT ![d] = 0] \in [Dirs -> Bits]
         /\ [f EXCEPT ![d] = 1] \in [Dirs -> Bits]
BY SMT DEF Flip, Bits

LEMMA PacketType ==
  ASSUME TypeOK, HcControlPacket \/ HcBulkPacket \/ HcLostAckIn \/ HcShort \/ HcDiscard
  PROVE  TypeOK'
<1>1. xfer.dir \in Dirs /\ "in" \in Dirs
  BY DEF TypeOK, Transfers, Dirs
<1>2. /\ devTog \in [Dirs -> Bits] /\ owed \in [Dirs -> Bits]
      /\ moved \in Nat /\ moved + 1 \in Nat
  BY SMT DEF TypeOK
<1>3. /\ Flip(devTog, xfer.dir) \in [Dirs -> Bits]
      /\ Flip(devTog, "in") \in [Dirs -> Bits]
      /\ [owed EXCEPT !["in"] = 1] \in [Dirs -> Bits]
      /\ [owed EXCEPT ![xfer.dir] = 0] \in [Dirs -> Bits]
      /\ Cleared \in [Dirs -> Bits]
  BY <1>1, <1>2, FlipType DEF Cleared
<1>4. ASSUME Working PROVE qh.cur # 0
  BY <1>4 DEF Working
<1>5. CASE HcControlPacket
  <2>1. qh' \in Overlays /\ td' \in [Stages -> Tds]
    BY <1>4, <1>5, AdvanceType DEF HcControlPacket
  <2> QED
    BY <1>2, <1>3, <1>5, <2>1, ExecuteType DEF HcControlPacket
<1>6. CASE HcBulkPacket
  <2>1. qh' \in Overlays /\ td' \in [Stages -> Tds]
    BY <1>4, <1>6, AdvanceType DEF HcBulkPacket
  <2> QED
    BY <1>2, <1>3, <1>6, <2>1, ExecuteType DEF HcBulkPacket
<1>7. CASE HcLostAckIn
  <2>1. qh' \in Overlays /\ td' \in [Stages -> Tds]
    BY <1>4, <1>7, AdvanceType DEF HcLostAckIn
  <2> QED
    BY <1>2, <1>3, <1>7, <2>1, ExecuteType DEF HcLostAckIn
<1>8. CASE HcShort
  <2>1. /\ qh.flags \in SUBSET Flags /\ qh.left \in 0 .. MaxLen + 1
        /\ 1 - qh.tog \in Bits
    BY SMT DEF TypeOK, Overlays, Bits
  <2>2. qh' \in Overlays /\ td' \in [Stages -> Tds]
    BY <1>4, <1>8, <2>1, RetireType DEF HcShort
  <2> QED
    BY <1>2, <1>3, <1>8, <2>2, ExecuteType DEF HcShort
<1>9. CASE HcDiscard
  <2>1. qh' \in Overlays /\ td' \in [Stages -> Tds]
    BY <1>4, <1>9, AdvanceType DEF HcDiscard, TypeOK
  <2> QED
    BY <1>2, <1>3, <1>9, <2>1, ExecuteType DEF HcDiscard
<1> QED
  BY <1>5, <1>6, <1>7, <1>8, <1>9

LEMMA ErrorType ==
  ASSUME TypeOK, HcFetch \/ HcLostAckOut \/ HcTransient \/ HcHaltQueue
  PROVE  TypeOK'
<1>1. qh \in Overlays /\ qh.flags \in SUBSET Flags /\ td \in [Stages -> Tds]
  BY DEF TypeOK, Overlays
<1>2. /\ devTog \in [Dirs -> Bits] /\ owed \in [Dirs -> Bits]
      /\ moved \in Nat /\ moved + 1 \in Nat
  BY SMT DEF TypeOK
<1>3. xfer.dir \in Dirs /\ "out" \in Dirs
  BY DEF TypeOK, Transfers, Dirs
<1>4. ASSUME NEW e \in {"XactErr", "BufErr"}
      PROVE  [qh EXCEPT !.flags = @ \cup {e}] \in Overlays
  <2>1. qh.flags \cup {e} \in SUBSET Flags
    BY <1>1 DEF Flags
  <2> QED
    BY <1>1, <2>1 DEF Overlays
<1>5. CASE HcFetch
  <2>1. qh.next \in Stages
    BY <1>1, <1>5, SMT DEF HcFetch, Overlays, Stages
  <2>2. td[qh.next] \in Tds
    BY <1>1, <2>1
  <2>3. qh.next \in 0 .. 3
    BY <1>1 DEF Overlays
  <2>4. qh' \in Overlays
    BY <1>5, <2>2, <2>3 DEF HcFetch, Tds, Overlays
  <2> QED
    BY <1>1, <1>2, <1>5, <2>4, ExecuteType DEF HcFetch, device
<1>6. CASE HcLostAckOut
  <2>1. qh' \in Overlays
    BY <1>4, <1>6 DEF HcLostAckOut
  <2>2. devTog' \in [Dirs -> Bits] /\ owed' \in [Dirs -> Bits]
    BY <1>2, <1>3, <1>6, FlipType DEF HcLostAckOut
  <2> QED
    BY <1>1, <1>2, <1>6, <2>1, <2>2, ExecuteType DEF HcLostAckOut
<1>7. CASE HcTransient
  <2>1. qh' \in Overlays
    BY <1>4, <1>7 DEF HcTransient
  <2> QED
    BY <1>1, <1>2, <1>7, <2>1, ExecuteType DEF HcTransient, device
<1>8. CASE HcHaltQueue
  <2>1. PICK e \in {{}, {"Babble"}, {"XactErr"}} :
          Retire(qh.flags \cup {"Halted"} \cup e, qh.left, qh.tog)
    BY <1>8 DEF HcHaltQueue
  <2>2. /\ qh.flags \cup {"Halted"} \cup e \in SUBSET Flags
        /\ qh.left \in 0 .. MaxLen + 1 /\ qh.tog \in Bits
    BY <1>1 DEF Overlays, Flags
  <2>3. qh' \in Overlays /\ td' \in [Stages -> Tds]
    BY <1>8, <2>1, <2>2, RetireType DEF HcHaltQueue, Working
  <2>4. devTog' \in [Dirs -> Bits]
    BY <1>2, <1>3, <1>8, FlipType DEF HcHaltQueue, Cleared
  <2> QED
    BY <1>2, <1>8, <2>3, <2>4, ExecuteType DEF HcHaltQueue
<1> QED
  BY <1>5, <1>6, <1>7, <1>8

(* Every step of the driver, of the controller and of the device keeps the types. *)
LEMMA NextType == TypeOK /\ [Next]_vars => TypeOK'
<1> SUFFICES ASSUME TypeOK, [Next]_vars PROVE TypeOK'
  OBVIOUS
<1>1. CASE Driver
  BY <1>1, SubmitType, InitialisationType, TransferType, FinishType DEF Driver
<1>2. CASE Controller
  BY <1>2, RegisterType, PacketType, ErrorType DEF Controller
<1>3. CASE UNCHANGED vars
  BY <1>3, ControlStepType DEF TypeOK, vars, drv, mem, cmd, sts
<1> QED
  BY <1>1, <1>2, <1>3 DEF Next

(* The state of the driver, of the memory it shares with the controller and of the device
   keeps its types in every run: in particular the overlay and the qTDs only ever link to
   qTDs of the pool, and every wait counts down to a positive number. *)
THEOREM TypeCorrect == Spec => []TypeOK
BY InitType, NextType, PTL DEF Spec

-----------------------------------------------------------------------------
(* Reset, quiescence and ownership.                                        *)

(* The steps of a transfer before its result is taken, and the steps that execute it. *)
Executes ==
  \/ HcFetch \/ HcControlPacket \/ HcBulkPacket \/ HcLostAckOut \/ HcLostAckIn
  \/ HcDiscard \/ HcShort \/ HcTransient \/ HcHaltQueue

LEMMA ControllerCases ==
  Controller <=> \/ HcHalt \/ HcFollowAse \/ HcResetDone \/ HcFatal \/ HcVanish
                 \/ HcEnter \/ Executes
BY DEF Controller, Executes

(* Executing the queue takes a live schedule and the queue head in hand, and changes
   neither a register nor anything of the driver's own. *)
LEMMA ExecutesFrame ==
  ASSUME Executes
  PROVE  /\ here /\ ~halt /\ ass
         /\ UNCHANGED <<drv, call, list, cmd, sts>>
BY DEF Executes, HcFetch, HcControlPacket, HcBulkPacket, HcLostAckOut, HcLostAckIn,
       HcDiscard, HcShort, HcTransient, HcHaltQueue, Working, Executing

LEMMA InitReset == Init => ResetInv
BY DEF Init, ResetInv

LEMMA NextReset == TypeOK /\ ResetInv /\ [Next]_vars => ResetInv'
<1> SUFFICES ASSUME TypeOK, ResetInv, [Next]_vars PROVE ResetInv'
  OBVIOUS
<1> USE DEF ResetInv, call, mem, cmd, sts, device, drv
<1>1. ASSUME NEW t \in Calls, Submit(t) PROVE ResetInv'
  BY <1>1 DEF Submit
<1>2. CASE InitBegin
  BY <1>2 DEF InitBegin
<1>3. CASE HaltWait
  BY <1>3 DEF HaltWait, Await, PollAgain, TypeOK
<1>4. CASE ResetWait
  BY <1>4 DEF ResetWait, Await, PollAgain, TypeOK
<1>5. CASE Setup
  BY <1>5 DEF Setup
<1>6. CASE ClearStatus
  BY <1>6 DEF ClearStatus
<1>7. CASE Enable
  BY <1>7 DEF Enable
<1>8. CASE WaitOn
  BY <1>8 DEF WaitOn, Await, PollAgain
<1>9. CASE Poll
  BY <1>9 DEF Poll, PollAgain
<1>10. CASE Disable
  BY <1>10 DEF Disable
<1>11. CASE WaitOff
  BY <1>11 DEF WaitOff, Await, PollAgain
<1>12. CASE Finish
  BY <1>12 DEF Finish
<1>13. CASE Fail
  BY <1>13 DEF Fail
<1>14. CASE HcHalt
  BY <1>14 DEF HcHalt, TypeOK
<1>15. CASE HcFollowAse
  BY <1>15 DEF HcFollowAse
<1>16. CASE HcResetDone
  BY <1>16 DEF HcResetDone
<1>17. CASE HcFatal
  BY <1>17 DEF HcFatal
<1>18. CASE HcVanish \/ HcEnter
  BY <1>18 DEF HcVanish, HcEnter
<1>19. CASE Executes
  BY <1>19, ExecutesFrame
<1>20. CASE UNCHANGED vars \/ Hang
  BY <1>20 DEF vars, Hang
<1> QED
  BY <1>1, <1>2, <1>3, <1>4, <1>5, <1>6, <1>7, <1>8, <1>9, <1>10, <1>11, <1>12, <1>13,
     <1>14, <1>15, <1>16, <1>17, <1>18, <1>19, <1>20, ControllerCases
     DEF Next, Driver

(* ehci_init starts the schedule setup only with a controller that has been reset,
   whatever the controller did before and whatever earlier transfers left switched on. *)
THEOREM ReinitAlwaysRecovers == Spec => []ReinitRecovers
<1>1. ResetInv => ReinitRecovers
  BY DEF ResetInv, ReinitRecovers
<1> QED
  BY <1>1, InitType, NextType, InitReset, NextReset, PTL DEF Spec

-----------------------------------------------------------------------------
LEMMA InitLend == Init => LendInv
BY DEF Init, LendInv

LEMMA NextLend ==
  "late" \notin Faults /\ TypeOK /\ ResetInv /\ LendInv /\ [Next]_vars => LendInv'
<1> SUFFICES ASSUME "late" \notin Faults, TypeOK, ResetInv, LendInv, [Next]_vars
             PROVE  LendInv'
  OBVIOUS
<1> USE DEF LendInv, call, mem, cmd, sts, device, drv
<1>1. ASSUME NEW t \in Calls, Submit(t) PROVE LendInv'
  BY <1>1 DEF Submit
<1>2. CASE InitBegin
  BY <1>2 DEF InitBegin
<1>3. CASE HaltWait
  BY <1>3 DEF HaltWait, Await, PollAgain, TypeOK
<1>4. CASE ResetWait
  BY <1>4 DEF ResetWait, Await, PollAgain, TypeOK
<1>5. CASE Setup
  BY <1>5 DEF Setup, ResetInv
<1>6. CASE ClearStatus
  BY <1>6 DEF ClearStatus
<1>7. CASE Enable
  BY <1>7 DEF Enable
<1>8. CASE WaitOn
  BY <1>8 DEF WaitOn, Await, PollAgain, TimesOut, StatusBad
<1>9. CASE Poll
  BY <1>9 DEF Poll, PollAgain
<1>10. CASE Disable
  BY <1>10 DEF Disable
<1>11. CASE WaitOff
  BY <1>11 DEF WaitOff, Await, PollAgain, TimesOut, StatusBad
<1>12. CASE Finish
  BY <1>12 DEF Finish
<1>13. CASE Fail
  BY <1>13 DEF Fail
<1>14. CASE HcHalt
  BY <1>14 DEF HcHalt, TypeOK
<1>15. CASE HcFollowAse
  BY <1>15 DEF HcFollowAse, TypeOK
<1>16. CASE HcResetDone
  BY <1>16 DEF HcResetDone
<1>17. CASE HcFatal
  BY <1>17 DEF HcFatal
<1>18. CASE HcVanish \/ HcEnter
  BY <1>18 DEF HcVanish, HcEnter
<1>19. CASE Executes
  BY <1>19, ExecutesFrame
<1>20. CASE UNCHANGED vars \/ Hang
  BY <1>20 DEF vars, Hang
<1> QED
  BY <1>1, <1>2, <1>3, <1>4, <1>5, <1>6, <1>7, <1>8, <1>9, <1>10, <1>11, <1>12, <1>13,
     <1>14, <1>15, <1>16, <1>17, <1>18, <1>19, <1>20, ControllerCases
     DEF Next, Driver

LEMMA InitRest == Init => RestInv
BY DEF Init, RestInv, Resting

LEMMA NextRest == TypeOK /\ ResetInv /\ RestInv /\ [Next]_vars => RestInv'
<1> SUFFICES ASSUME TypeOK, ResetInv, RestInv, [Next]_vars PROVE RestInv'
  OBVIOUS
<1> USE DEF RestInv, Resting, call, mem, cmd, sts, device, drv
<1>1. ASSUME NEW t \in Calls, Submit(t) PROVE RestInv'
  BY <1>1 DEF Submit
<1>2. CASE InitBegin
  BY <1>2 DEF InitBegin
<1>3. CASE HaltWait
  BY <1>3 DEF HaltWait, Await, PollAgain
<1>4. CASE ResetWait
  BY <1>4 DEF ResetWait, Await, PollAgain
<1>5. CASE Setup
  BY <1>5 DEF Setup, ResetInv
<1>6. CASE ClearStatus
  BY <1>6 DEF ClearStatus
<1>7. CASE Enable
  BY <1>7 DEF Enable
<1>8. CASE WaitOn
  BY <1>8 DEF WaitOn, Await, PollAgain
<1>9. CASE Poll
  BY <1>9 DEF Poll, PollAgain
<1>10. CASE Disable
  BY <1>10 DEF Disable
<1>11. CASE WaitOff
  BY <1>11 DEF WaitOff, Await, PollAgain, StatusBad
<1>12. CASE Finish
  BY <1>12 DEF Finish
<1>13. CASE Fail
  BY <1>13 DEF Fail
<1>14. CASE HcHalt
  BY <1>14 DEF HcHalt
<1>15. CASE HcFollowAse
  BY <1>15 DEF HcFollowAse, TypeOK
<1>16. CASE HcResetDone
  BY <1>16 DEF HcResetDone
<1>17. CASE HcFatal
  BY <1>17 DEF HcFatal
<1>18. CASE HcVanish \/ HcEnter
  BY <1>18 DEF HcVanish, HcEnter
<1>19. CASE Executes
  BY <1>19, ExecutesFrame
<1>20. CASE UNCHANGED vars \/ Hang
  BY <1>20 DEF vars, Hang
<1> QED
  BY <1>1, <1>2, <1>3, <1>4, <1>5, <1>6, <1>7, <1>8, <1>9, <1>10, <1>11, <1>12, <1>13,
     <1>14, <1>15, <1>16, <1>17, <1>18, <1>19, <1>20, ControllerCases
     DEF Next, Driver

(* Between transfers no running controller can reach the QH and the qTDs, whatever fatal
   errors or disappearances there were, unless its status bits are late and the last call
   dropped its chain after a failed handshake and returned -1. *)
THEOREM AlwaysQuiescent == Spec => []Quiescent
<1>1. CASE "late" \in Faults
  <2>1. TypeOK /\ RestInv => Quiescent
    BY <1>1 DEF TypeOK, RestInv, Resting, Quiescent, HcReaches, Live
  <2> QED
    BY <2>1, InitType, NextType, InitReset, NextReset, InitRest, NextRest, PTL DEF Spec
<1>2. CASE "late" \notin Faults
  <2>1. LendInv => Quiescent
    BY DEF LendInv, Quiescent, HcReaches, Live
  <2>2. TypeOK /\ ResetInv /\ LendInv /\ [Next]_vars => LendInv'
    BY <1>2, NextLend
  <2> QED
    BY <2>1, <2>2, InitType, NextType, InitReset, NextReset, InitLend, PTL DEF Spec
<1> QED
  BY <1>1, <1>2

-----------------------------------------------------------------------------
(* The refinement of DmaOwnership.                                         *)

LEMMA InitDma == Init => Dma!Init
BY DEF Init, Dma!Init, Lent

LEMMA NextDma ==
  "late" \notin Faults /\ TypeOK /\ LendInv /\ [Next]_vars => [Dma!Next]_Dma!vars
<1> SUFFICES ASSUME "late" \notin Faults, TypeOK, LendInv, [Next]_vars
             PROVE  [Dma!Next]_Dma!vars
  OBVIOUS
<1> USE DEF Lent
<1>1. ASSUME NEW t \in Calls, Submit(t) PROVE Dma!Lend \/ Dma!Refuse
  <2>1. qh' = NewQh(1) \/ qh' = NewQh(0)
    BY <1>1 DEF Submit
  <2>2. Token(NewQh(1)) = Token(NewQh(0))
    <3>1. /\ NewQh(1).active = NewQh(0).active /\ NewQh(1).flags = NewQh(0).flags
          /\ NewQh(1).left = NewQh(0).left /\ NewQh(1).tog = NewQh(0).tog
          /\ NewQh(1).cur = NewQh(0).cur
      BY DEF NewQh
    <3> QED
      BY <3>1 DEF Token
  <2>3. pc = "idle" /\ pc' \in {"idle", "clear"}
    BY <1>1 DEF Submit
  <2> QED
    BY <2>1, <2>2, <2>3 DEF Dma!Lend, Dma!Refuse
<1>2. ASSUME UNCHANGED <<qh, td>>, pc \in Lent <=> pc' \in Lent
      PROVE  UNCHANGED Dma!vars
  BY <1>2 DEF Dma!vars
<1>3. CASE InitBegin \/ HaltWait \/ ResetWait \/ Setup \/ Hang
  <2>1. UNCHANGED <<qh, td>>
    BY <1>3 DEF InitBegin, HaltWait, ResetWait, Setup, Hang, mem, vars
  <2>2. pc \notin Lent /\ pc' \notin Lent
    BY <1>3 DEF InitBegin, HaltWait, ResetWait, Setup, Hang, vars, drv, Await, PollAgain
  <2> QED
    BY <1>2, <2>1, <2>2
<1>4. CASE ClearStatus \/ Enable \/ Poll \/ Disable
  <2>1. UNCHANGED <<qh, td>>
    BY <1>4 DEF ClearStatus, Enable, Poll, Disable, mem
  <2>2. pc \in Lent /\ pc' \in Lent
    BY <1>4 DEF ClearStatus, Enable, Poll, Disable, PollAgain
  <2> QED
    BY <1>2, <2>1, <2>2
<1>5. CASE WaitOn \/ WaitOff
  <2>1. UNCHANGED <<qh, td>> /\ pc \in Lent
    BY <1>5 DEF WaitOn, WaitOff, mem
  <2>2. CASE pc' \in Lent
    BY <1>2, <2>1, <2>2
  <2>3. CASE pc' \notin Lent
    BY <2>1, <2>3 DEF Dma!Return, Dma!Next
  <2> QED
    BY <2>2, <2>3
<1>6. CASE Finish
  BY <1>2, <1>6 DEF Finish
<1>7. CASE Fail
  <2>1. /\ qh'.active = qh.active /\ qh'.flags = qh.flags /\ qh'.left = qh.left
        /\ qh'.tog = qh.tog /\ qh'.cur = qh.cur
    BY <1>7 DEF Fail, TypeOK, Overlays
  <2>2. Token(qh') = Token(qh)
    BY <2>1 DEF Token
  <2> QED
    BY <1>7, <2>2 DEF Fail, Dma!vars, Token
<1>8. CASE HcHalt \/ HcFollowAse \/ HcResetDone \/ HcFatal \/ HcVanish
              \/ HcEnter
  BY <1>2, <1>8 DEF HcHalt, HcFollowAse, HcResetDone, HcFatal, HcVanish, HcEnter,
                    drv, mem
<1>9. CASE Executes
  <2>1. pc \in Lent /\ pc' = pc
    BY <1>9, ExecutesFrame, SMT DEF LendInv, drv
  <2> QED
    BY <2>1 DEF Dma!Work, Dma!Next
<1>10. CASE UNCHANGED vars
  BY <1>2, <1>10 DEF vars, drv, mem
<1> QED
  BY <1>1, <1>3, <1>4, <1>5, <1>6, <1>7, <1>8, <1>9, <1>10, ControllerCases
     DEF Next, Driver, Dma!Next

(* ehci_submit_async lends the QH and the qTDs to the controller and gets them back before
   it decodes or reuses them: it implements DmaOwnership. *)
THEOREM ImplementsDmaOwnership == "late" \notin Faults /\ Spec => MemoryDiscipline
<1> SUFFICES ASSUME "late" \notin Faults PROVE Spec => Dma!Spec
  BY DEF MemoryDiscipline
<1>1. TypeOK /\ ResetInv /\ LendInv /\ [Next]_vars => LendInv'
  BY NextLend
<1>2. TypeOK /\ LendInv /\ [Next]_vars => [Dma!Next]_Dma!vars
  BY NextDma
<1> QED
  BY <1>1, <1>2, InitType, NextType, InitReset, NextReset, InitLend, InitDma, PTL
     DEF Spec, Dma!Spec

-----------------------------------------------------------------------------
(* How long a call takes.  A wait polls at most Tries times and nothing goes back, so each
   place of ehci_init and of ehci_submit_async has a bound on the steps left.             *)

Waits == {"haltwait", "resetwait", "on", "poll", "off"}

Ahead ==
  [haltwait |-> Tries + 2, resetwait |-> 1, setup |-> 1,
   clear |-> 3 * Tries + 7, enable |-> 3 * Tries + 6, on |-> 2 * Tries + 5,
   poll |-> Tries + 4, disable |-> Tries + 3, off |-> 2, finish |-> 1, fail |-> 1,
   boot |-> 0, idle |-> 0, hung |-> 0]

StepsLeft == Ahead[pc] + IF pc \in Waits THEN tries ELSE 0

InCall == pc \notin {"boot", "idle", "hung"}

(* A step of the driver in a call brings its end nearer; nothing the controller does takes
   it further away. *)
Progress ==
  /\ InCall /\ Driver => StepsLeft' < StepsLeft
  /\ Controller => StepsLeft' = StepsLeft

LEMMA StepsLeftType ==
  TypeOK => /\ StepsLeft \in 0 .. 3 * Tries + 7
            /\ StepsLeft = 0 <=> ~InCall
BY HcdAssumption, SMT DEF TypeOK, StepsLeft, Ahead, Waits, InCall, Pcs

LEMMA NextProgress == TypeOK /\ [Next]_vars => [Progress]_vars
<1> SUFFICES ASSUME TypeOK, Next PROVE Progress
  BY DEF Progress
<1>1. tries \in 1 .. Tries /\ Tries \in Nat \ {0}
  BY HcdAssumption DEF TypeOK
<1>2. ASSUME UNCHANGED drv PROVE StepsLeft' = StepsLeft
  BY <1>2 DEF drv, StepsLeft, Ahead, Waits
<1>3. ASSUME Controller PROVE UNCHANGED drv
  <2>1. CASE Executes
    BY <2>1, ExecutesFrame
  <2>2. CASE HcHalt \/ HcFollowAse \/ HcResetDone \/ HcFatal \/ HcVanish \/ HcEnter
    BY <2>2 DEF HcHalt, HcFollowAse, HcResetDone, HcFatal, HcVanish, HcEnter
  <2> QED
    BY <1>3, <2>1, <2>2, ControllerCases
<1>4. ASSUME InCall, Driver PROVE StepsLeft' < StepsLeft
  <2>1. CASE HaltWait
    BY <1>1, <2>1 DEF HaltWait, Await, PollAgain, TimesOut, StepsLeft, Ahead, Waits
  <2>7. CASE ResetWait
    BY <1>1, <2>7 DEF ResetWait, Await, PollAgain, TimesOut, StepsLeft, Ahead, Waits
  <2>2. CASE WaitOn
    BY <1>1, <2>2 DEF WaitOn, Await, PollAgain, StepsLeft, Ahead, Waits
  <2>3. CASE Poll
    BY <1>1, <2>3 DEF Poll, PollAgain, StepsLeft, Ahead, Waits
  <2>4. CASE WaitOff
    BY <1>1, <2>4 DEF WaitOff, Await, PollAgain, StepsLeft, Ahead, Waits
  <2>5. CASE Setup \/ ClearStatus \/ Enable \/ Disable \/ Finish \/ Fail
    BY <1>1, <2>5 DEF Setup, ClearStatus, Enable, Disable, Finish, Fail, StepsLeft, Ahead, Waits
  <2>6. ~InitBegin /\ ~Hang /\ \A t \in Calls : ~Submit(t)
    BY <1>4 DEF InCall, InitBegin, Hang, Submit
  <2> QED
    BY <1>4, <2>1, <2>2, <2>3, <2>4, <2>5, <2>6, <2>7 DEF Driver
<1> QED
  BY <1>2, <1>3, <1>4 DEF Progress

(* Whatever the controller does, and however late, an initialisation or a transfer is over
   after at most 3 * Tries + 7 steps of the driver: CallReturns but for the fairness of the
   driver. *)
THEOREM CallsAreBounded ==
  Spec => [](StepsLeft \in 0 .. 3 * Tries + 7) /\ [][Progress]_vars
BY InitType, NextType, StepsLeftType, NextProgress, PTL DEF Spec
=============================================================================
