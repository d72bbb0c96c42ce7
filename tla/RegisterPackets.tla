---------------------------- MODULE RegisterPackets ----------------------------
(***************************************************************************)
(* The packets g, G and P, the registers that come with a stop reply, and  *)
(* what a client that resumes with c and s makes of them.  Which thread    *)
(* they are about is up to ThreadControl.  A register block is a sequence  *)
(* of bytes; a byte is a pair of digits, or "xx".                          *)
(***************************************************************************)
EXTENDS ThreadControl

CONSTANTS
  RegisterList,   \* m_pRegisters: RegisterIndex and bytes of each register
  Contents,       \* what each register may hold
  FrameRelated    \* those ReadFrameRelatedRegisters may report

Registers == DOMAIN RegisterList

\* GDBRegisters.h:9 wants the indices "sequential"; the sample's are so only as
\* far as it reports registers by index.
ASSUME RegisterAssumption ==
  /\ RegisterList \in Seq([index : Nat, bytes : Nat \ {0}])
  /\ FrameRelated \subseteq Registers
  /\ \A i \in FrameRelated : RegisterList[i].index = i - 1
  /\ \A i \in Registers : Contents[i] \subseteq [1 .. RegisterList[i].bytes -> STRING]

VARIABLES
  regs,       \* the target's registers, of each thread
  believed,   \* what the client holds them to be
  named       \* the thread the client was last told of

regVars == <<regs, believed, named>>

\* A register that is not valid, and one the client does not know.
Unknown == <<>>
NothingKnown == [t \in Threads |-> [i \in Registers |-> Unknown]]

AllContents == {c \in [Registers -> UNION {Contents[i] : i \in Registers}] :
                  \A i \in Registers : c[i] \in Contents[i]}

RegInit ==
  /\ regs \in [Threads -> AllContents]
  /\ believed = NothingKnown
  /\ named = Unset

\* The thread the client means, and the one the stub takes it for.
ClientThread == IF selected \in Threads THEN selected ELSE named
StubThread == ThreadIDForOp(m_ThreadIDForReg)

ClientMayAsk == pc = "idle" /\ selected # Unset /\ ClientThread # Unset

-----------------------------------------------------------------------------
(* Blocks of registers.                                                    *)

\* Where a register starts in a block.
Offset[i \in 1 .. Len(RegisterList) + 1] ==
  IF i = 1 THEN 0 ELSE Offset[i - 1] + RegisterList[i - 1].bytes

Field(block, i) == SubSeq(block, Offset[i] + 1, Offset[i] + RegisterList[i].bytes)

\* AppendRegisterValueToString, by the size in the list.
Hex(value, bytes) == IF value = Unknown THEN [j \in 1 .. bytes |-> "xx"] ELSE value

Block(values) == FlattenSeq([i \in Registers |-> Hex(values[i], RegisterList[i].bytes)])

\* How the client reads the block.
Shown(block, i) == IF "xx" \in ToSet(Field(block, i)) THEN Unknown ELSE Field(block, i)

\* Mutant: the register the block ends in is written too, with what there is.
ParsedTooFar(block) ==
  LET whole == {i \in Registers : Offset[i] < Len(block)}
  IN  [i \in whole |-> Field(block \o [j \in 1 .. RegisterList[i].bytes |-> "00"], i)]

\* The registers Handle_G marks as valid: those before the first that is cut.
Parsed(block) ==
  LET whole == {i \in Registers : Offset[i] + RegisterList[i].bytes <= Len(block)}
  IN  [i \in whole |-> Field(block, i)]

\* values where they are given, old elsewhere.
Over(values, old) == [i \in Registers |-> IF i \in DOMAIN values THEN values[i] ELSE old[i]]

-----------------------------------------------------------------------------
(* The packets.                                                            *)

\* ReadTargetRegisters leaves out what it cannot read.
Handle_g ==
  /\ ClientMayAsk /\ StubThread \in alive
  /\ \E valid \in SUBSET Registers :
       LET block == Block([i \in Registers |-> IF i \in valid THEN regs[StubThread][i] ELSE Unknown])
       IN  believed' = [believed EXCEPT ![ClientThread] = [i \in Registers |-> Shown(block, i)]]
  /\ UNCHANGED <<tcVars, regs, named>>

\* WriteTargetRegisters: all that is valid, or an error after some of it.  After
\* an error the client knows nothing of what it has sent.
Write(values, sent) ==
  /\ StubThread \in alive
  /\ \/ /\ regs' = [regs EXCEPT ![StubThread] = Over(values, @)]
        /\ believed' = [believed EXCEPT ![ClientThread] = Over(sent, @)]
     \/ /\ \E done \in SUBSET DOMAIN values :
             regs' = [regs EXCEPT ![StubThread] = Over([i \in done |-> values[i]], @)]
        /\ believed' = [believed EXCEPT ![ClientThread] = Over([i \in DOMAIN sent |-> Unknown], @)]
  /\ UNCHANGED <<tcVars, named>>

\* The client sends the first k registers, and n bytes of the next.
Handle_G(c, k, n) ==
  /\ ClientMayAsk
  /\ Write(Parsed(SubSeq(Block(c), 1, Offset[k + 1] + n)), [i \in 1 .. k |-> c[i]])

\* P names a register by its place in the list.  A value may be too long.
Handle_P(registerNumber, value) ==
  LET i == registerNumber + 1
  IN  /\ ClientMayAsk
      /\ registerNumber < Len(RegisterList)
      /\ Len(value) >= RegisterList[i].bytes
      /\ LET values == [j \in {i} |-> SubSeq(value, 1, RegisterList[i].bytes)]
         IN  Write(values, values)

-----------------------------------------------------------------------------
(* Stopping and going on.                                                  *)

\* The registers in a stop reply, as the client takes them: by their index.
Reported(valid) ==
  LET Place(index) == CHOOSE j \in valid : RegisterList[j].index = index
  IN  [i \in {RegisterList[j].index + 1 : j \in valid} |-> regs[stopThread][Place(i - 1)]]

\* Handle_QueryStopReason tells the thread and some of its registers.
Told ==
  /\ named' = stopThread
  /\ \E valid \in SUBSET FrameRelated :
       believed' = [believed EXCEPT ![stopThread] = Over(Reported(valid), @)]
  /\ UNCHANGED regs

\* What the client knew is worth nothing once the target runs.
Forget ==
  /\ believed' = NothingKnown
  /\ UNCHANGED <<regs, named>>

Running ==
  /\ regs' \in [Threads -> AllContents]
  /\ UNCHANGED <<believed, named>>

Selecting ==
  \/ QueryThreads
  \/ \E isRegOp \in BOOLEAN : SelectAny(isRegOp)
  \/ \E isRegOp \in BOOLEAN, id \in Threads : SelectThread(isRegOp, id)

\* The block may end inside the register behind the k-th.
CutsBehind(k) == IF k < Len(RegisterList) THEN 0 .. RegisterList[k + 1].bytes - 1 ELSE {0}

RegisterPacket ==
  \/ Handle_g
  \/ \E c \in AllContents, k \in 0 .. Len(RegisterList) : \E n \in CutsBehind(k) : Handle_G(c, k, n)
  \/ \E n \in 0 .. Len(RegisterList), value \in UNION {Contents[i] : i \in Registers} : Handle_P(n, value)

RegNext ==
  \/ Selecting /\ UNCHANGED regVars
  \/ QueryStopReason /\ Told
  \/ ResumeAll /\ Forget
  \/ TargetStops /\ Running
  \/ ReplyStopped /\ Told
  \/ RegisterPacket

RegSpec == Init /\ RegInit /\ [][RegNext]_<<tcVars, regVars>>

-----------------------------------------------------------------------------
(* Properties.                                                             *)

\* What the client holds a thread's register to be is what the stopped target
\* has there: whichever thread H, a stop reply or nothing at all selected,
\* whatever could not be read, and wherever a block ended or a write failed
\* (GDBStub.cpp:40-112; BasicGDBStub.cpp:239-260).
RegistersAsBelieved ==
  pc = "idle" =>
    \A t \in Threads : \A i \in Registers :
      believed[t][i] # Unknown => regs[t][i] = believed[t][i]
=============================================================================
