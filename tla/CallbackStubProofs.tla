------------------------- MODULE CallbackStubProofs -------------------------
(***************************************************************************)
(* Proofs about the assembled callback: what a call that goes through it   *)
(* finds in the registers and on the stack, at each instruction.           *)
(***************************************************************************)
EXTENDS CallbackStub, SequenceTheorems, TLAPS

(***************************************************************************)
(* The code that is written.                                               *)
(***************************************************************************)
Fragment(p) == p.bytes \in Nat /\ DOMAIN p.code \subseteq 0 .. p.bytes - 1

\* Where an instruction is found, and which.
Has(p, o, op, arg, n) == o \in DOMAIN p.code /\ p.code[o] = Instr(op, arg, n)

\* What the two pieces that keep the registers put where (x64): PushAt[n] is the offset of
\* the push of Saved64[n], PopAt[n] that of its pop, counted from the piece with the push.
Saved64 == <<"bx", "sp", "ax", "cx", "dx", "r8", "r9", "r10", "r11">>
PushAt  == <<0, 1, 2, 3, 4, 5, 7, 9, 11, 13>>
PopAt   == <<55, 54, 53, 52, 51, 49, 47, 45, 43>>

\* The length of the pop of Saved64[n].
PopBytes(n) == (IF n = 1 THEN 56 ELSE PopAt[n - 1]) - PopAt[n]

LEMMA CodeBehind ==
  ASSUME NEW p, NEW q, Fragment(p), Fragment(q)
  PROVE  /\ Fragment(p ++ q)
         /\ (p ++ q).bytes = p.bytes + q.bytes
         /\ DOMAIN (p ++ q).code = DOMAIN p.code \cup {p.bytes + x : x \in DOMAIN q.code}
         /\ \A o \in DOMAIN p.code : (p ++ q).code[o] = p.code[o]
         /\ \A x \in DOMAIN q.code : (p ++ q).code[p.bytes + x] = q.code[x]
<1>0. p ++ q = Behind(p, q)
  BY DEF ++
<1>1. \A x \in DOMAIN q.code : p.bytes + x \notin DOMAIN p.code /\ (p.bytes + x) - p.bytes = x
  BY DEF Fragment
<1>2. (p ++ q).bytes = p.bytes + q.bytes
  BY <1>0 DEF Behind
<1>3. DOMAIN (p ++ q).code = DOMAIN p.code \cup {p.bytes + x : x \in DOMAIN q.code}
  BY <1>0 DEF Behind
<1>4. \A o \in DOMAIN p.code : (p ++ q).code[o] = p.code[o]
  BY <1>0 DEF Behind
<1>5. \A x \in DOMAIN q.code : (p ++ q).code[p.bytes + x] = q.code[x]
  BY <1>0, <1>1 DEF Behind
<1>6. Fragment(p ++ q)
  BY <1>2, <1>3 DEF Fragment
<1> QED BY <1>2, <1>3, <1>4, <1>5, <1>6

LEMMA OneInstruction ==
  ASSUME NEW op, NEW arg, NEW n \in Nat \ {0}
  PROVE  /\ Fragment(Emit(op, arg, n)) /\ Emit(op, arg, n).bytes = n
         /\ DOMAIN Emit(op, arg, n).code = {0}
         /\ Emit(op, arg, n).code[0] = Instr(op, arg, n)
BY DEF Emit, Fragment

\* One more instruction.
LEMMA InstructionBehind ==
  ASSUME NEW p, Fragment(p), NEW op, NEW arg, NEW n \in Nat \ {0}
  PROVE  /\ Fragment(p ++ Emit(op, arg, n))
         /\ (p ++ Emit(op, arg, n)).bytes = p.bytes + n
         /\ DOMAIN (p ++ Emit(op, arg, n)).code = DOMAIN p.code \cup {p.bytes}
         /\ (p ++ Emit(op, arg, n)).code[p.bytes] = Instr(op, arg, n)
         /\ \A o \in DOMAIN p.code : (p ++ Emit(op, arg, n)).code[o] = p.code[o]
<1>1. \A q : /\ Fragment(q) /\ q.bytes = n /\ DOMAIN q.code = {0}
             /\ q.code[0] = Instr(op, arg, n)
       => /\ Fragment(p ++ q) /\ (p ++ q).bytes = p.bytes + n
          /\ DOMAIN (p ++ q).code = DOMAIN p.code \cup {p.bytes}
          /\ (p ++ q).code[p.bytes] = Instr(op, arg, n)
          /\ \A o \in DOMAIN p.code : (p ++ q).code[o] = p.code[o]
  <2> TAKE q
  <2> HAVE /\ Fragment(q) /\ q.bytes = n /\ DOMAIN q.code = {0}
           /\ q.code[0] = Instr(op, arg, n)
  <2>1. p.bytes + 0 = p.bytes
    BY DEF Fragment
  <2> QED BY <2>1, CodeBehind
<1> QED BY <1>1, OneInstruction

LEMMA SavingCode ==
  ASSUME NEW v
  PROVE  LET p == WritePUSHA_WPARAM(v) IN
         /\ Fragment(p) /\ p.bytes = 27
         /\ DOMAIN p.code = {0, 1, 2, 3, 4, 5, 7, 9, 11, 13, 23}
         /\ \A n \in 1 .. 9 :
              Has(p, PushAt[n], "push", Saved64[n], PushAt[n + 1] - PushAt[n])
         /\ Has(p, 13, "load", <<"cx", v>>, 10) /\ Has(p, 23, "shift", -4, 4)
<1> DEFINE p1 == Push("bx")
           p2 == p1 ++ Push("sp")
           p3 == p2 ++ Push("ax")
           p4 == p3 ++ Push("cx")
           p5 == p4 ++ Push("dx")
           p6 == p5 ++ Push("r8")
           p7 == p6 ++ Push("r9")
           p8 == p7 ++ Push("r10")
           p9 == p8 ++ Push("r11")
           pa == p9 ++ Load("cx", v)
           pb == pa ++ Shift(-4)
<1>1. /\ Fragment(p1) /\ p1.bytes = 1 /\ DOMAIN p1.code = {0}
      /\ p1.code[0] = Instr("push", "bx", 1)
  BY OneInstruction DEF Push, Long
<1> HIDE DEF p1
<1>2. /\ Fragment(p2) /\ p2.bytes = 2 /\ DOMAIN p2.code = {0, 1}
      /\ p2.code[1] = Instr("push", "sp", 1)
      /\ \A o \in DOMAIN p1.code : p2.code[o] = p1.code[o]
  BY <1>1, InstructionBehind DEF Push, Long
<1> HIDE DEF p2
<1>3. /\ Fragment(p3) /\ p3.bytes = 3 /\ DOMAIN p3.code = {0, 1, 2}
      /\ p3.code[2] = Instr("push", "ax", 1)
      /\ \A o \in DOMAIN p2.code : p3.code[o] = p2.code[o]
  BY <1>2, InstructionBehind DEF Push, Long
<1> HIDE DEF p3
<1>4. /\ Fragment(p4) /\ p4.bytes = 4 /\ DOMAIN p4.code = {0, 1, 2, 3}
      /\ p4.code[3] = Instr("push", "cx", 1)
      /\ \A o \in DOMAIN p3.code : p4.code[o] = p3.code[o]
  BY <1>3, InstructionBehind DEF Push, Long
<1> HIDE DEF p4
<1>5. /\ Fragment(p5) /\ p5.bytes = 5 /\ DOMAIN p5.code = {0, 1, 2, 3, 4}
      /\ p5.code[4] = Instr("push", "dx", 1)
      /\ \A o \in DOMAIN p4.code : p5.code[o] = p4.code[o]
  BY <1>4, InstructionBehind DEF Push, Long
<1> HIDE DEF p5
<1>6. /\ Fragment(p6) /\ p6.bytes = 7 /\ DOMAIN p6.code = {0, 1, 2, 3, 4, 5}
      /\ p6.code[5] = Instr("push", "r8", 2)
      /\ \A o \in DOMAIN p5.code : p6.code[o] = p5.code[o]
  BY <1>5, InstructionBehind DEF Push, Long
<1> HIDE DEF p6
<1>7. /\ Fragment(p7) /\ p7.bytes = 9 /\ DOMAIN p7.code = {0, 1, 2, 3, 4, 5, 7}
      /\ p7.code[7] = Instr("push", "r9", 2)
      /\ \A o \in DOMAIN p6.code : p7.code[o] = p6.code[o]
  BY <1>6, InstructionBehind DEF Push, Long
<1> HIDE DEF p7
<1>8. /\ Fragment(p8) /\ p8.bytes = 11 /\ DOMAIN p8.code = {0, 1, 2, 3, 4, 5, 7, 9}
      /\ p8.code[9] = Instr("push", "r10", 2)
      /\ \A o \in DOMAIN p7.code : p8.code[o] = p7.code[o]
  BY <1>7, InstructionBehind DEF Push, Long
<1> HIDE DEF p8
<1>9. /\ Fragment(p9) /\ p9.bytes = 13 /\ DOMAIN p9.code = {0, 1, 2, 3, 4, 5, 7, 9, 11}
      /\ p9.code[11] = Instr("push", "r11", 2)
      /\ \A o \in DOMAIN p8.code : p9.code[o] = p8.code[o]
  BY <1>8, InstructionBehind DEF Push, Long
<1> HIDE DEF p9
<1>10. /\ Fragment(pa) /\ pa.bytes = 23 /\ DOMAIN pa.code = {0, 1, 2, 3, 4, 5, 7, 9, 11, 13}
       /\ pa.code[13] = Instr("load", <<"cx", v>>, 10)
       /\ \A o \in DOMAIN p9.code : pa.code[o] = p9.code[o]
  BY <1>9, InstructionBehind DEF Load
<1> HIDE DEF pa
<1>11. /\ Fragment(pb) /\ pb.bytes = 27
       /\ DOMAIN pb.code = {0, 1, 2, 3, 4, 5, 7, 9, 11, 13, 23}
       /\ pb.code[23] = Instr("shift", -4, 4)
       /\ \A o \in DOMAIN pa.code : pb.code[o] = pa.code[o]
  BY <1>10, InstructionBehind DEF Shift
<1>12. WritePUSHA_WPARAM(v) = pb
  BY DEF WritePUSHA_WPARAM, p1, p2, p3, p4, p5, p6, p7, p8, p9, pa
<1> HIDE DEF pb
<1>13. /\ pb.code[0] = Instr("push", "bx", 1) /\ pb.code[1] = Instr("push", "sp", 1)
       /\ pb.code[2] = Instr("push", "ax", 1) /\ pb.code[3] = Instr("push", "cx", 1)
       /\ pb.code[4] = Instr("push", "dx", 1) /\ pb.code[5] = Instr("push", "r8", 2)
       /\ pb.code[7] = Instr("push", "r9", 2) /\ pb.code[9] = Instr("push", "r10", 2)
       /\ pb.code[11] = Instr("push", "r11", 2)
       /\ pb.code[13] = Instr("load", <<"cx", v>>, 10)
  BY <1>1, <1>2, <1>3, <1>4, <1>5, <1>6, <1>7, <1>8, <1>9, <1>10, <1>11
<1>14. \A n \in 1 .. 9 :
         Has(pb, PushAt[n], "push", Saved64[n], PushAt[n + 1] - PushAt[n])
  <2> SUFFICES ASSUME NEW n \in 1 .. 9
               PROVE  Has(pb, PushAt[n], "push", Saved64[n], PushAt[n + 1] - PushAt[n])
    OBVIOUS
  <2>1. n \in {1, 2, 3, 4, 5, 6, 7, 8, 9}
    OBVIOUS
  <2> QED BY <2>1, <1>11, <1>13 DEF Has, PushAt, Saved64
<1> QED BY <1>11, <1>12, <1>13, <1>14 DEF Has
LEMMA CallingCode ==
  ASSUME NEW f
  PROVE  LET p == WriteAbsoluteCall(f) IN
         /\ Fragment(p) /\ p.bytes = 12 /\ DOMAIN p.code = {0, 10}
         /\ Has(p, 0, "load", <<"ax", f>>, 10) /\ Has(p, 10, "callax", "ax", 2)
<1> DEFINE p1 == Load("ax", f)
           p2 == p1 ++ Emit("callax", "ax", 2)
<1>1. /\ Fragment(p1) /\ p1.bytes = 10 /\ DOMAIN p1.code = {0}
      /\ p1.code[0] = Instr("load", <<"ax", f>>, 10)
  BY OneInstruction DEF Load
<1>2. WriteAbsoluteCall(f) = p2
  BY DEF WriteAbsoluteCall
<1> HIDE DEF p1
<1>3. /\ Fragment(p2) /\ p2.bytes = 12 /\ DOMAIN p2.code = {0, 10}
      /\ p2.code[10] = Instr("callax", "ax", 2)
      /\ \A o \in DOMAIN p1.code : p2.code[o] = p1.code[o]
  BY <1>1, InstructionBehind
<1> HIDE DEF p2
<1> QED BY <1>1, <1>2, <1>3 DEF Has

LEMMA RestoringCode ==
  LET p == WritePOPA IN
  /\ Fragment(p) /\ p.bytes = 17
  /\ DOMAIN p.code = {0, 4, 6, 8, 10, 12, 13, 14, 15, 16}
  /\ Has(p, 0, "shift", 4, 4)
  /\ \A n \in 1 .. 9 :
       Has(p, PopAt[n] - 39, "pop", Saved64[n],
           (IF n = 1 THEN 56 ELSE PopAt[n - 1]) - PopAt[n])
<1> DEFINE p0 == Shift(4)
           p9 == p0 ++ Pop("r11")
           p8 == p9 ++ Pop("r10")
           p7 == p8 ++ Pop("r9")
           p6 == p7 ++ Pop("r8")
           p5 == p6 ++ Pop("dx")
           p4 == p5 ++ Pop("cx")
           p3 == p4 ++ Pop("ax")
           p2 == p3 ++ Pop("sp")
           p1 == p2 ++ Pop("bx")
<1>0. /\ Fragment(p0) /\ p0.bytes = 4 /\ DOMAIN p0.code = {0}
      /\ p0.code[0] = Instr("shift", 4, 4)
  BY OneInstruction DEF Shift
<1> HIDE DEF p0
<1>9. /\ Fragment(p9) /\ p9.bytes = 6 /\ DOMAIN p9.code = {0, 4}
      /\ p9.code[4] = Instr("pop", "r11", 2)
      /\ \A o \in DOMAIN p0.code : p9.code[o] = p0.code[o]
  BY <1>0, InstructionBehind DEF Pop, Long
<1> HIDE DEF p9
<1>8. /\ Fragment(p8) /\ p8.bytes = 8 /\ DOMAIN p8.code = {0, 4, 6}
      /\ p8.code[6] = Instr("pop", "r10", 2)
      /\ \A o \in DOMAIN p9.code : p8.code[o] = p9.code[o]
  BY <1>9, InstructionBehind DEF Pop, Long
<1> HIDE DEF p8
<1>7. /\ Fragment(p7) /\ p7.bytes = 10 /\ DOMAIN p7.code = {0, 4, 6, 8}
      /\ p7.code[8] = Instr("pop", "r9", 2)
      /\ \A o \in DOMAIN p8.code : p7.code[o] = p8.code[o]
  BY <1>8, InstructionBehind DEF Pop, Long
<1> HIDE DEF p7
<1>6. /\ Fragment(p6) /\ p6.bytes = 12 /\ DOMAIN p6.code = {0, 4, 6, 8, 10}
      /\ p6.code[10] = Instr("pop", "r8", 2)
      /\ \A o \in DOMAIN p7.code : p6.code[o] = p7.code[o]
  BY <1>7, InstructionBehind DEF Pop, Long
<1> HIDE DEF p6
<1>5. /\ Fragment(p5) /\ p5.bytes = 13 /\ DOMAIN p5.code = {0, 4, 6, 8, 10, 12}
      /\ p5.code[12] = Instr("pop", "dx", 1)
      /\ \A o \in DOMAIN p6.code : p5.code[o] = p6.code[o]
  BY <1>6, InstructionBehind DEF Pop, Long
<1> HIDE DEF p5
<1>4. /\ Fragment(p4) /\ p4.bytes = 14 /\ DOMAIN p4.code = {0, 4, 6, 8, 10, 12, 13}
      /\ p4.code[13] = Instr("pop", "cx", 1)
      /\ \A o \in DOMAIN p5.code : p4.code[o] = p5.code[o]
  BY <1>5, InstructionBehind DEF Pop, Long
<1> HIDE DEF p4
<1>3. /\ Fragment(p3) /\ p3.bytes = 15 /\ DOMAIN p3.code = {0, 4, 6, 8, 10, 12, 13, 14}
      /\ p3.code[14] = Instr("pop", "ax", 1)
      /\ \A o \in DOMAIN p4.code : p3.code[o] = p4.code[o]
  BY <1>4, InstructionBehind DEF Pop, Long
<1> HIDE DEF p3
<1>2. /\ Fragment(p2) /\ p2.bytes = 16
      /\ DOMAIN p2.code = {0, 4, 6, 8, 10, 12, 13, 14, 15}
      /\ p2.code[15] = Instr("pop", "sp", 1)
      /\ \A o \in DOMAIN p3.code : p2.code[o] = p3.code[o]
  BY <1>3, InstructionBehind DEF Pop, Long
<1> HIDE DEF p2
<1>1. /\ Fragment(p1) /\ p1.bytes = 17
      /\ DOMAIN p1.code = {0, 4, 6, 8, 10, 12, 13, 14, 15, 16}
      /\ p1.code[16] = Instr("pop", "bx", 1)
      /\ \A o \in DOMAIN p2.code : p1.code[o] = p2.code[o]
  BY <1>2, InstructionBehind DEF Pop, Long
<1>10. WritePOPA = p1
  BY DEF WritePOPA, p0, p9, p8, p7, p6, p5, p4, p3, p2
<1> HIDE DEF p1
<1>11. /\ p1.code[0] = Instr("shift", 4, 4)
       /\ p1.code[4] = Instr("pop", "r11", 2) /\ p1.code[6] = Instr("pop", "r10", 2)
       /\ p1.code[8] = Instr("pop", "r9", 2) /\ p1.code[10] = Instr("pop", "r8", 2)
       /\ p1.code[12] = Instr("pop", "dx", 1) /\ p1.code[13] = Instr("pop", "cx", 1)
       /\ p1.code[14] = Instr("pop", "ax", 1) /\ p1.code[15] = Instr("pop", "sp", 1)
       /\ p1.code[16] = Instr("pop", "bx", 1)
  BY <1>0, <1>9, <1>8, <1>7, <1>6, <1>5, <1>4, <1>3, <1>2, <1>1
<1>12. \A n \in 1 .. 9 :
         Has(p1, PopAt[n] - 39, "pop", Saved64[n],
             (IF n = 1 THEN 56 ELSE PopAt[n - 1]) - PopAt[n])
  <2> SUFFICES ASSUME NEW n \in 1 .. 9
               PROVE  Has(p1, PopAt[n] - 39, "pop", Saved64[n],
                          (IF n = 1 THEN 56 ELSE PopAt[n - 1]) - PopAt[n])
    OBVIOUS
  <2>1. n \in {1, 2, 3, 4, 5, 6, 7, 8, 9}
    OBVIOUS
  <2> QED BY <2>1, <1>1, <1>11 DEF Has, PopAt, Saved64
<1> QED BY <1>1, <1>10, <1>11, <1>12 DEF Has

LEMMA JumpingCode ==
  ASSUME NEW f
  PROVE  LET p == WriteAbsoluteJMP(f) IN
         /\ Fragment(p) /\ p.bytes = 16 /\ DOMAIN p.code = {0, 1, 11, 15}
         /\ Has(p, 0, "push", "ax", 1) /\ Has(p, 1, "load", <<"ax", f>>, 10)
         /\ Has(p, 11, "xchg", "ax", 4) /\ Has(p, 15, "ret", "sp", 1)
<1> DEFINE p1 == Push("ax")
           p2 == p1 ++ Load("ax", f)
           p3 == p2 ++ Emit("xchg", "ax", 4)
           p4 == p3 ++ Ret
<1>1. /\ Fragment(p1) /\ p1.bytes = 1 /\ DOMAIN p1.code = {0}
      /\ p1.code[0] = Instr("push", "ax", 1)
  BY OneInstruction DEF Push, Long
<1> HIDE DEF p1
<1>2. /\ Fragment(p2) /\ p2.bytes = 11 /\ DOMAIN p2.code = {0, 1}
      /\ p2.code[1] = Instr("load", <<"ax", f>>, 10)
      /\ \A o \in DOMAIN p1.code : p2.code[o] = p1.code[o]
  BY <1>1, InstructionBehind DEF Load
<1> HIDE DEF p2
<1>3. /\ Fragment(p3) /\ p3.bytes = 15 /\ DOMAIN p3.code = {0, 1, 11}
      /\ p3.code[11] = Instr("xchg", "ax", 4)
      /\ \A o \in DOMAIN p2.code : p3.code[o] = p2.code[o]
  BY <1>2, InstructionBehind
<1> HIDE DEF p3
<1>4. /\ Fragment(p4) /\ p4.bytes = 16 /\ DOMAIN p4.code = {0, 1, 11, 15}
      /\ p4.code[15] = Instr("ret", "sp", 1)
      /\ \A o \in DOMAIN p3.code : p4.code[o] = p3.code[o]
  BY <1>3, InstructionBehind DEF Ret
<1>5. WriteAbsoluteJMP(f) = p4
  BY DEF WriteAbsoluteJMP, p1, p2, p3
<1> HIDE DEF p4
<1> QED BY <1>1, <1>2, <1>3, <1>4, <1>5 DEF Has

LEMMA ReturnCode ==
  ASSUME NEW f
  PROVE  LET p == WriteRetAddress(f) IN
         /\ Fragment(p) /\ p.bytes = 19 /\ DOMAIN p.code = {0, 4}
         /\ Has(p, 0, "shift", -1, 4) /\ Has(p, 4, "store", f, 15)
<1> DEFINE p1 == Shift(-1)
           p2 == p1 ++ Emit("store", f, 15)
<1>1. /\ Fragment(p1) /\ p1.bytes = 4 /\ DOMAIN p1.code = {0}
      /\ p1.code[0] = Instr("shift", -1, 4)
  BY OneInstruction DEF Shift
<1>2. WriteRetAddress(f) = p2
  BY DEF WriteRetAddress
<1> HIDE DEF p1
<1>3. /\ Fragment(p2) /\ p2.bytes = 19 /\ DOMAIN p2.code = {0, 4}
      /\ p2.code[4] = Instr("store", f, 15)
      /\ \A o \in DOMAIN p1.code : p2.code[o] = p1.code[o]
  BY <1>1, InstructionBehind
<1> HIDE DEF p2
<1> QED BY <1>1, <1>2, <1>3 DEF Has

LEMMA SingleCode ==
  /\ Fragment(WriteSubShadowSpace) /\ WriteSubShadowSpace.bytes = 4
  /\ DOMAIN WriteSubShadowSpace.code = {0} /\ Has(WriteSubShadowSpace, 0, "shift", -5, 4)
  /\ Fragment(WriteAddShadowSpace) /\ WriteAddShadowSpace.bytes = 4
  /\ DOMAIN WriteAddShadowSpace.code = {0} /\ Has(WriteAddShadowSpace, 0, "shift", 5, 4)
  /\ Fragment(WriteRET) /\ WriteRET.bytes = 1
  /\ DOMAIN WriteRET.code = {0} /\ Has(WriteRET, 0, "ret", "sp", 1)
  /\ Fragment(WritePOPA86) /\ WritePOPA86.bytes = 2
  /\ DOMAIN WritePOPA86.code = {0} /\ Has(WritePOPA86, 0, "popa", Reverse(Saved86), 2)
  /\ \A f : /\ Fragment(WriteRelativeCALL(f)) /\ WriteRelativeCALL(f).bytes = 5
            /\ DOMAIN WriteRelativeCALL(f).code = {0}
            /\ Has(WriteRelativeCALL(f), 0, "callto", f, 5)
BY OneInstruction DEF WriteSubShadowSpace, WriteAddShadowSpace, WriteRET, WritePOPA86,
   WriteRelativeCALL, Shift, Ret, Has

LEMMA SavingCode86 ==
  ASSUME NEW v
  PROVE  LET p == WritePUSHA_WPARAM86(v) IN
         /\ Fragment(p) /\ p.bytes = 7 /\ DOMAIN p.code = {0, 2}
         /\ Has(p, 0, "pusha", Saved86, 2) /\ Has(p, 2, "pushvalue", v, 5)
<1> DEFINE p1 == Emit("pusha", Saved86, 2)
           p2 == p1 ++ Emit("pushvalue", v, 5)
<1>1. /\ Fragment(p1) /\ p1.bytes = 2 /\ DOMAIN p1.code = {0}
      /\ p1.code[0] = Instr("pusha", Saved86, 2)
  BY OneInstruction
<1>2. WritePUSHA_WPARAM86(v) = p2
  BY DEF WritePUSHA_WPARAM86
<1> HIDE DEF p1
<1>3. /\ Fragment(p2) /\ p2.bytes = 7 /\ DOMAIN p2.code = {0, 2}
      /\ p2.code[2] = Instr("pushvalue", v, 5)
      /\ \A o \in DOMAIN p1.code : p2.code[o] = p1.code[o]
  BY <1>1, InstructionBehind
<1> HIDE DEF p2
<1> QED BY <1>1, <1>2, <1>3 DEF Has
(***************************************************************************)
(* The installer: where each piece begins, and that the callback holds the *)
(* pieces that have been written.                                          *)
(***************************************************************************)
Starts(a) == IF a = "x64" THEN <<0, 27, 39, 56, 60, 79, 95, 99, 126, 138, 155, 156>>
             ELSE <<0, 7, 12, 14, 19, 26, 31, 33, 34>>
Count(a)  == IF a = "x64" THEN 11 ELSE 8

\* The j-th piece, which is written when WriteOffset is Starts(a)[j].
Piece(a, j) == Pieces(a, Starts(a)[j])[j]

Reached == IF step = 0 THEN 1 ELSE step

BufferInv ==
  /\ arch \in Archs /\ installed \in BOOLEAN /\ step \in 0 .. Count(arch) + 1
  /\ Fragment(buffer) /\ buffer.bytes = Starts(arch)[Reached]
  /\ \A j \in 1 .. Reached - 1 : \A x \in DOMAIN Piece(arch, j).code :
       /\ Starts(arch)[j] + x \in DOMAIN buffer.code
       /\ buffer.code[Starts(arch)[j] + x] = Piece(arch, j).code[x]

LEMMA ReturnsTo == RetAddress(60) = Code("stub", 95)
<1>1. WriteRetAddress(Original).bytes = 19
  BY ReturnCode
<1>2. WriteAbsoluteJMP(Original).bytes = 16
  BY JumpingCode
<1> QED BY <1>1, <1>2 DEF RetAddress

LEMMA Pieces64Are ==
  /\ Piece("x64", 1) = WritePUSHA_WPARAM(Const("function"))
  /\ Piece("x64", 2) = WriteAbsoluteCall(Prolog)
  /\ Piece("x64", 3) = WritePOPA
  /\ Piece("x64", 4) = WriteSubShadowSpace
  /\ Piece("x64", 5) = WriteRetAddress(Code("stub", 95))
  /\ Piece("x64", 6) = WriteAbsoluteJMP(Original)
  /\ Piece("x64", 7) = WriteAddShadowSpace
  /\ Piece("x64", 8) = WritePUSHA_WPARAM(Const("hook"))
  /\ Piece("x64", 9) = WriteAbsoluteCall(Postlog)
  /\ Piece("x64", 10) = WritePOPA
  /\ Piece("x64", 11) = WriteRET
BY ReturnsTo DEF Piece, Pieces, Pieces64, Starts

LEMMA Pieces86Are ==
  /\ Piece("x86", 1) = WritePUSHA_WPARAM86(Const("function"))
  /\ Piece("x86", 2) = WriteRelativeCALL(Prolog)
  /\ Piece("x86", 3) = WritePOPA86
  /\ Piece("x86", 4) = WriteRelativeCALL(Original)
  /\ Piece("x86", 5) = WritePUSHA_WPARAM86(Const("hook"))
  /\ Piece("x86", 6) = WriteRelativeCALL(Postlog)
  /\ Piece("x86", 7) = WritePOPA86
  /\ Piece("x86", 8) = WriteRET
BY DEF Piece, Pieces, Pieces86, Starts

LEMMA PieceFits ==
  ASSUME NEW a \in Archs, NEW j \in 1 .. Count(a)
  PROVE  Fragment(Piece(a, j)) /\ Starts(a)[j + 1] = Starts(a)[j] + Piece(a, j).bytes
<1>1. CASE a = "x64"
  <2>1. j \in {1, 2, 3, 4, 5, 6, 7, 8, 9, 10, 11}
    BY <1>1 DEF Count
  <2>2. \A k \in {1, 8} : Fragment(Piece("x64", k)) /\ Piece("x64", k).bytes = 27
    BY Pieces64Are, SavingCode
  <2>3. \A k \in {2, 9} : Fragment(Piece("x64", k)) /\ Piece("x64", k).bytes = 12
    BY Pieces64Are, CallingCode
  <2>4. \A k \in {3, 10} : Fragment(Piece("x64", k)) /\ Piece("x64", k).bytes = 17
    BY Pieces64Are, RestoringCode
  <2>5. \A k \in {4, 7} : Fragment(Piece("x64", k)) /\ Piece("x64", k).bytes = 4
    BY Pieces64Are, SingleCode
  <2>6. Fragment(Piece("x64", 5)) /\ Piece("x64", 5).bytes = 19
    BY Pieces64Are, ReturnCode
  <2>7. Fragment(Piece("x64", 6)) /\ Piece("x64", 6).bytes = 16
    BY Pieces64Are, JumpingCode
  <2>8. Fragment(Piece("x64", 11)) /\ Piece("x64", 11).bytes = 1
    BY Pieces64Are, SingleCode
  <2> QED BY <1>1, <2>1, <2>2, <2>3, <2>4, <2>5, <2>6, <2>7, <2>8 DEF Starts
<1>2. CASE a = "x86"
  <2>1. j \in {1, 2, 3, 4, 5, 6, 7, 8}
    BY <1>2 DEF Count
  <2>2. \A k \in {1, 2, 3, 4, 5, 6, 7, 8} : Fragment(Piece("x86", k))
             /\ Starts("x86")[k + 1] = Starts("x86")[k] + Piece("x86", k).bytes
    BY Pieces86Are, SavingCode86, SingleCode DEF Starts
  <2> QED BY <1>2, <2>1, <2>2
<1> QED BY <1>1, <1>2 DEF Archs

LEMMA StartsGrow ==
  ASSUME NEW a \in Archs
  PROVE  /\ \A j \in 1 .. Count(a) + 1 : Starts(a)[j] \in Nat
         /\ \A j, k \in 1 .. Count(a) + 1 : j <= k => Starts(a)[j] <= Starts(a)[k]
<1>1. CASE a = "x64"
  <2>1. \A j \in 1 .. 12 : j \in {1, 2, 3, 4, 5, 6, 7, 8, 9, 10, 11, 12}
    OBVIOUS
  <2> QED BY <1>1, <2>1 DEF Starts, Count
<1>2. CASE a = "x86"
  <2>1. \A j \in 1 .. 9 : j \in {1, 2, 3, 4, 5, 6, 7, 8, 9}
    OBVIOUS
  <2> QED BY <1>2, <2>1 DEF Starts, Count
<1> QED BY <1>1, <1>2 DEF Archs

\* What is found at an offset that has been written (HookHandler64.h:165-179).
LEMMA Fetched ==
  ASSUME BufferInv, NEW j \in 1 .. Count(arch), NEW x \in DOMAIN Piece(arch, j).code,
         Starts(arch)[j] + x \in DOMAIN buffer.code
  PROVE  buffer.code[Starts(arch)[j] + x] = Piece(arch, j).code[x]
<1>1. arch \in Archs /\ Reached \in 1 .. Count(arch) + 1
  BY DEF BufferInv, Reached, Count
<1>2. x \in Nat
  BY <1>1, PieceFits DEF Fragment
<1>3. Starts(arch)[j] < Starts(arch)[Reached]
  BY <1>1, <1>2, StartsGrow DEF BufferInv, Fragment, Count
<1>4. j < Reached
  BY <1>1, <1>3, StartsGrow DEF Count
<1> QED BY <1>1, <1>4 DEF BufferInv

LEMMA PieceWritten ==
  ASSUME BufferInv, WriteNext PROVE BufferInv'
<1> DEFINE p == Piece(arch, step)
<1>1. /\ arch \in Archs /\ step \in 1 .. Count(arch) /\ Reached = step
      /\ buffer.bytes = Starts(arch)[step]
  <2>1. arch \in Archs /\ step \in Nat /\ step \in DOMAIN Pieces(arch, buffer.bytes)
    BY DEF BufferInv, WriteNext
  <2>2. DOMAIN Pieces64(buffer.bytes) = 1 .. 11 /\ DOMAIN Pieces86 = 1 .. 8
    BY DEF Pieces64, Pieces86
  <2>3. DOMAIN Pieces(arch, buffer.bytes) = 1 .. Count(arch)
    BY <2>1, <2>2 DEF Pieces, Count, Archs
  <2> QED BY <2>1, <2>3 DEF Reached, BufferInv
<1>2. /\ buffer' = buffer ++ p /\ step' = step + 1
      /\ arch' = arch /\ installed' = installed
  BY <1>1 DEF WriteNext, Piece
<1>3. Fragment(p) /\ Starts(arch)[step + 1] = Starts(arch)[step] + p.bytes
  BY <1>1, PieceFits
<1>4. Fragment(buffer)
  BY DEF BufferInv
<1> HIDE DEF p
<1>5. /\ Fragment(buffer') /\ buffer'.bytes = Starts(arch)[step + 1]
      /\ \A o \in DOMAIN buffer.code : o \in DOMAIN buffer'.code /\ buffer'.code[o] = buffer.code[o]
      /\ \A x \in DOMAIN p.code : /\ Starts(arch)[step] + x \in DOMAIN buffer'.code
                                  /\ buffer'.code[Starts(arch)[step] + x] = p.code[x]
  BY <1>1, <1>2, <1>3, <1>4, CodeBehind
<1>6. step' \in 1 .. Count(arch) + 1 /\ Reached' = step + 1
  BY <1>1, <1>2 DEF Reached, Count
<1>7. \A j \in 1 .. Reached' - 1 : \A x \in DOMAIN Piece(arch, j).code :
        /\ Starts(arch)[j] + x \in DOMAIN buffer'.code
        /\ buffer'.code[Starts(arch)[j] + x] = Piece(arch, j).code[x]
  <2> SUFFICES ASSUME NEW j \in 1 .. Reached' - 1, NEW x \in DOMAIN Piece(arch, j).code
               PROVE  /\ Starts(arch)[j] + x \in DOMAIN buffer'.code
                      /\ buffer'.code[Starts(arch)[j] + x] = Piece(arch, j).code[x]
    OBVIOUS
  <2>1. CASE j = step
    BY <2>1, <1>5 DEF p
  <2>2. CASE j \in 1 .. Reached - 1
    BY <2>2, <1>5 DEF BufferInv
  <2> QED BY <2>1, <2>2, <1>1, <1>6
<1> QED BY <1>1, <1>2, <1>5, <1>6, <1>7 DEF BufferInv, Count

LEMMA BufferInit == Init => BufferInv
<1> SUFFICES ASSUME Init PROVE BufferInv
  OBVIOUS
<1>1. Fragment(buffer) /\ buffer.bytes = 0
  <2>1. DOMAIN <<>> = {}
    OBVIOUS
  <2>2. buffer.bytes = 0 /\ buffer.code = <<>>
    BY DEF Init, Blank
  <2> QED BY <2>1, <2>2 DEF Fragment
<1>2. arch \in Archs /\ installed \in BOOLEAN /\ step = 0
  BY DEF Init
<1>3. Starts(arch)[1] = 0 /\ Count(arch) \in Nat
  BY <1>2 DEF Archs, Starts, Count
<1>4. Reached = 1 /\ 1 .. Reached - 1 = {}
  BY <1>2 DEF Reached
<1> QED BY <1>1, <1>2, <1>3, <1>4 DEF BufferInv

LEMMA BufferStep == BufferInv /\ [Next]_vars => BufferInv'
<1> SUFFICES ASSUME BufferInv, [Next]_vars PROVE BufferInv'
  OBVIOUS
<1>1. CASE UNCHANGED install
  BY <1>1 DEF install, BufferInv, Reached
<1>2. CASE InstallHook
  <2>1. step = 0 /\ step' = 1 /\ installed' \in BOOLEAN /\ arch' = arch /\ buffer' = buffer
    BY <1>2 DEF InstallHook
  <2> QED BY <2>1 DEF BufferInv, Reached, Count
<1>3. CASE WriteNext
  BY <1>3, PieceWritten
<1>4. ASSUME NEW t \in Threads, Execute(t) \/ Around(t)
      PROVE  UNCHANGED install
  BY <1>4 DEF Execute, Around, ExecPush, ExecPop, ExecPusha, ExecPopa, ExecMove, ExecShift,
     ExecCall, ExecRet, ExecUnwritten, CallFunction, Recurse, ReturnFrom, RunOriginal,
     RunIntercept, Enters, install
<1> QED BY <1>1, <1>2, <1>3, <1>4 DEF Next, vars, install
(***************************************************************************)
(* What a processor that reads an offset of the callback finds there.      *)
(***************************************************************************)
Finds(o, op, arg, n) == o \in DOMAIN buffer.code => buffer.code[o] = Instr(op, arg, n)

\* A half of the callback: what comes before the original begins at 0, what comes after it
\* at 99 (x64) or 19 (x86).
First(b)     == b = 0
Intercept(b) == IF First(b) THEN Prolog ELSE Postlog
Param(b)     == Const(IF First(b) THEN "function" ELSE "hook")

LEMMA FoundPiece ==
  ASSUME BufferInv, NEW j \in 1 .. Count(arch), NEW x, NEW op, NEW arg, NEW n,
         Has(Piece(arch, j), x, op, arg, n)
  PROVE  Finds(Starts(arch)[j] + x, op, arg, n)
BY Fetched DEF Has, Finds

LEMMA FoundHalf64 ==
  ASSUME BufferInv, arch = "x64", NEW b \in {0, 99}
  PROVE  /\ \A n \in 1 .. 9 :
              Finds(b + PushAt[n], "push", Saved64[n], PushAt[n + 1] - PushAt[n])
         /\ Finds(b + 13, "load", <<"cx", Param(b)>>, 10)
         /\ Finds(b + 23, "shift", -4, 4)
         /\ Finds(b + 27, "load", <<"ax", Intercept(b)>>, 10)
         /\ Finds(b + 37, "callax", "ax", 2)
         /\ Finds(b + 39, "shift", 4, 4)
         /\ \A n \in 1 .. 9 :
              Finds(b + PopAt[n], "pop", Saved64[n],
                    (IF n = 1 THEN 56 ELSE PopAt[n - 1]) - PopAt[n])
<1> DEFINE j == IF First(b) THEN 1 ELSE 8
<1>1. /\ j \in 1 .. Count(arch) /\ j + 1 \in 1 .. Count(arch) /\ j + 2 \in 1 .. Count(arch)
      /\ Starts(arch)[j] = b /\ Starts(arch)[j + 1] = b + 27 /\ Starts(arch)[j + 2] = b + 39
  BY DEF First, Count, Starts
<1>2. /\ Piece(arch, j) = WritePUSHA_WPARAM(Param(b))
      /\ Piece(arch, j + 1) = WriteAbsoluteCall(Intercept(b))
      /\ Piece(arch, j + 2) = WritePOPA
  <2>1. CASE b = 0
    BY <2>1, Pieces64Are DEF First, Param, Intercept
  <2>2. CASE b = 99
    BY <2>2, Pieces64Are DEF First, Param, Intercept
  <2> QED BY <2>1, <2>2
<1> HIDE DEF j
<1>3. /\ \A n \in 1 .. 9 :
           Has(Piece(arch, j), PushAt[n], "push", Saved64[n], PushAt[n + 1] - PushAt[n])
      /\ Has(Piece(arch, j), 13, "load", <<"cx", Param(b)>>, 10)
      /\ Has(Piece(arch, j), 23, "shift", -4, 4)
  BY <1>2, SavingCode
<1>4. /\ Has(Piece(arch, j + 1), 0, "load", <<"ax", Intercept(b)>>, 10)
      /\ Has(Piece(arch, j + 1), 10, "callax", "ax", 2)
  BY <1>2, CallingCode
<1>5. /\ Has(Piece(arch, j + 2), 0, "shift", 4, 4)
      /\ \A n \in 1 .. 9 :
           Has(Piece(arch, j + 2), PopAt[n] - 39, "pop", Saved64[n],
               (IF n = 1 THEN 56 ELSE PopAt[n - 1]) - PopAt[n])
  BY <1>2, RestoringCode
<1>6. /\ \A n \in 1 .. 9 :
           Finds(b + PushAt[n], "push", Saved64[n], PushAt[n + 1] - PushAt[n])
      /\ Finds(b + 13, "load", <<"cx", Param(b)>>, 10)
      /\ Finds(b + 23, "shift", -4, 4)
  BY <1>1, <1>3, FoundPiece
<1>7. /\ Finds(b + 27 + 0, "load", <<"ax", Intercept(b)>>, 10)
      /\ Finds(b + 27 + 10, "callax", "ax", 2)
  BY <1>1, <1>4, FoundPiece
<1>8. /\ Finds(b + 39 + 0, "shift", 4, 4)
      /\ \A n \in 1 .. 9 : Finds(b + 39 + (PopAt[n] - 39), "pop", Saved64[n],
                                 (IF n = 1 THEN 56 ELSE PopAt[n - 1]) - PopAt[n])
  BY <1>1, <1>5, FoundPiece
<1>9. /\ b + 27 + 0 = b + 27 /\ b + 27 + 10 = b + 37 /\ b + 39 + 0 = b + 39
      /\ \A n \in 1 .. 9 : b + 39 + (PopAt[n] - 39) = b + PopAt[n]
  BY DEF PopAt
<1> QED BY <1>6, <1>7, <1>8, <1>9

LEMMA FoundMiddle64 ==
  ASSUME BufferInv, arch = "x64"
  PROVE  /\ Finds(56, "shift", -5, 4) /\ Finds(60, "shift", -1, 4)
         /\ Finds(64, "store", Code("stub", 95), 15)
         /\ Finds(79, "push", "ax", 1) /\ Finds(80, "load", <<"ax", Original>>, 10)
         /\ Finds(90, "xchg", "ax", 4) /\ Finds(94, "ret", "sp", 1)
         /\ Finds(95, "shift", 5, 4) /\ Finds(155, "ret", "sp", 1)
<1>1. Count(arch) = 11
  BY DEF Count
<1>2. /\ Starts(arch)[4] = 56 /\ Starts(arch)[5] = 60 /\ Starts(arch)[6] = 79
      /\ Starts(arch)[7] = 95 /\ Starts(arch)[11] = 155
  BY DEF Starts
<1>3. /\ Has(Piece(arch, 4), 0, "shift", -5, 4) /\ Has(Piece(arch, 7), 0, "shift", 5, 4)
      /\ Has(Piece(arch, 11), 0, "ret", "sp", 1)
  BY Pieces64Are, SingleCode
<1>4. /\ Has(Piece(arch, 5), 0, "shift", -1, 4)
      /\ Has(Piece(arch, 5), 4, "store", Code("stub", 95), 15)
  BY Pieces64Are, ReturnCode
<1>5. /\ Has(Piece(arch, 6), 0, "push", "ax", 1)
      /\ Has(Piece(arch, 6), 1, "load", <<"ax", Original>>, 10)
      /\ Has(Piece(arch, 6), 11, "xchg", "ax", 4) /\ Has(Piece(arch, 6), 15, "ret", "sp", 1)
  BY Pieces64Are, JumpingCode
<1>6. /\ Finds(56 + 0, "shift", -5, 4) /\ Finds(95 + 0, "shift", 5, 4)
      /\ Finds(155 + 0, "ret", "sp", 1)
  BY <1>1, <1>2, <1>3, FoundPiece
<1>7. Finds(60 + 0, "shift", -1, 4) /\ Finds(60 + 4, "store", Code("stub", 95), 15)
  BY <1>1, <1>2, <1>4, FoundPiece
<1>8. /\ Finds(79 + 0, "push", "ax", 1) /\ Finds(79 + 1, "load", <<"ax", Original>>, 10)
      /\ Finds(79 + 11, "xchg", "ax", 4) /\ Finds(79 + 15, "ret", "sp", 1)
  BY <1>1, <1>2, <1>5, FoundPiece
<1> QED BY <1>6, <1>7, <1>8

LEMMA Found86 ==
  ASSUME BufferInv, arch = "x86"
  PROVE  /\ \A b \in {0, 19} :
              /\ Finds(b, "pusha", Saved86, 2) /\ Finds(b + 2, "pushvalue", Param(b), 5)
              /\ Finds(b + 7, "callto", Intercept(b), 5)
              /\ Finds(b + 12, "popa", Reverse(Saved86), 2)
         /\ Finds(14, "callto", Original, 5) /\ Finds(33, "ret", "sp", 1)
<1>1. Count(arch) = 8
  BY DEF Count
<1>2. /\ Starts(arch)[1] = 0 /\ Starts(arch)[2] = 7 /\ Starts(arch)[3] = 12
      /\ Starts(arch)[4] = 14 /\ Starts(arch)[5] = 19 /\ Starts(arch)[6] = 26
      /\ Starts(arch)[7] = 31 /\ Starts(arch)[8] = 33
  BY DEF Starts
<1>3. /\ Has(Piece(arch, 1), 0, "pusha", Saved86, 2)
      /\ Has(Piece(arch, 1), 2, "pushvalue", Param(0), 5)
      /\ Has(Piece(arch, 5), 0, "pusha", Saved86, 2)
      /\ Has(Piece(arch, 5), 2, "pushvalue", Param(19), 5)
  BY Pieces86Are, SavingCode86 DEF Param, First
<1>4. /\ Has(Piece(arch, 2), 0, "callto", Intercept(0), 5)
      /\ Has(Piece(arch, 3), 0, "popa", Reverse(Saved86), 2)
      /\ Has(Piece(arch, 4), 0, "callto", Original, 5)
      /\ Has(Piece(arch, 6), 0, "callto", Intercept(19), 5)
      /\ Has(Piece(arch, 7), 0, "popa", Reverse(Saved86), 2)
      /\ Has(Piece(arch, 8), 0, "ret", "sp", 1)
  BY Pieces86Are, SingleCode DEF Intercept, First
<1>5. /\ Finds(0 + 0, "pusha", Saved86, 2) /\ Finds(0 + 2, "pushvalue", Param(0), 5)
      /\ Finds(19 + 0, "pusha", Saved86, 2) /\ Finds(19 + 2, "pushvalue", Param(19), 5)
  BY <1>1, <1>2, <1>3, FoundPiece
<1>6. /\ Finds(7 + 0, "callto", Intercept(0), 5)
      /\ Finds(12 + 0, "popa", Reverse(Saved86), 2)
      /\ Finds(14 + 0, "callto", Original, 5)
      /\ Finds(26 + 0, "callto", Intercept(19), 5)
      /\ Finds(31 + 0, "popa", Reverse(Saved86), 2)
      /\ Finds(33 + 0, "ret", "sp", 1)
  BY <1>1, <1>2, <1>4, FoundPiece
<1> QED BY <1>5, <1>6
(***************************************************************************)
(* One instruction: ins, at offset o, with the stack pointer s, registers  *)
(* r and stack w before it, and i2, s2, r2 and w2 after it.                *)
(***************************************************************************)
Stub(o) == Code("stub", o)

\* Where popa looks for register x.
Where(rs, x) == CHOOSE k \in 1 .. Len(rs) : rs[k] = x

Effect(a, ins, o, s, r, w, i2, s2, r2, w2) ==
  LET then == Stub(o + ins.bytes) IN
  /\ ins.op = "push" =>
       /\ i2 = then /\ s2 = s - 1 /\ r2 = r
       /\ w2 = [w EXCEPT ![s - 1] = IF ins.arg = "sp" THEN Place(s) ELSE r[ins.arg]]
  /\ ins.op = "pushvalue" =>
       i2 = then /\ s2 = s - 1 /\ r2 = r /\ w2 = [w EXCEPT ![s - 1] = ins.arg]
  /\ ins.op = "pop" =>
       /\ i2 = then /\ w2 = w
       /\ ins.arg = "sp" => s2 = w[s][2] /\ r2 = r
       /\ ins.arg # "sp" => s2 = s + 1 /\ r2 = [r EXCEPT ![ins.arg] = w[s]]
  /\ ins.op = "pusha" =>
       /\ i2 = then /\ s2 = s - Len(ins.arg) /\ r2 = r
       /\ w2 = [x \in Stack |->
                  IF x \in s - Len(ins.arg) .. s - 1
                  THEN IF ins.arg[s - x] = "sp" THEN Place(s) ELSE r[ins.arg[s - x]]
                  ELSE w[x]]
  /\ ins.op = "popa" =>
       /\ i2 = then /\ s2 = s + Len(ins.arg) /\ w2 = w
       /\ r2 = [x \in Registers(a) |-> w[s - 1 + Where(ins.arg, x)]]
  /\ ins.op = "load" =>
       i2 = then /\ s2 = s /\ w2 = w /\ r2 = [r EXCEPT ![ins.arg[1]] = ins.arg[2]]
  /\ ins.op = "store" => i2 = then /\ s2 = s /\ r2 = r /\ w2 = [w EXCEPT ![s] = ins.arg]
  /\ ins.op = "xchg" => /\ i2 = then /\ s2 = s
                        /\ r2 = [r EXCEPT ![ins.arg] = w[s]]
                        /\ w2 = [w EXCEPT ![s] = r[ins.arg]]
  /\ ins.op = "shift" => i2 = then /\ s2 = s + ins.arg /\ r2 = r /\ w2 = w
  /\ ins.op = "callax" =>
       i2 = r["ax"] /\ s2 = s - 1 /\ r2 = r /\ w2 = [w EXCEPT ![s - 1] = then]
  /\ ins.op = "callto" =>
       i2 = ins.arg /\ s2 = s - 1 /\ r2 = r /\ w2 = [w EXCEPT ![s - 1] = then]
  /\ ins.op = "ret" => i2 = w[s] /\ s2 = s + 1 /\ r2 = r /\ w2 = w

\* A function on a set, whatever its values.
Total(f, D) == f = [x \in D |-> f[x]]

Functional == /\ Total(ip, Threads) /\ Total(sp, Threads) /\ Total(reg, Threads)
              /\ Total(word, Threads) /\ Total(frames, Threads) /\ Total(calls, Threads)

LEMMA Codes == \A x, n : Code(x, n)[2] = x /\ Code(x, n)[3] = n
BY DEF Code

\* A thread leaves the installation and the other threads alone.
LEMMA Alone ==
  ASSUME Functional, NEW t \in Threads, Execute(t) \/ Around(t)
  PROVE  /\ UNCHANGED install /\ Functional'
         /\ \A u \in Threads \ {t} :
              UNCHANGED <<ip[u], sp[u], reg[u], word[u], frames[u], calls[u]>>
BY DEF Execute, Around, ExecPush, ExecPop, ExecPusha, ExecPopa, ExecMove, ExecShift,
     ExecCall, ExecRet, ExecUnwritten, CallFunction, Recurse, ReturnFrom, RunOriginal,
     RunIntercept, Enters, install, Functional, Total, Goto, Advance, Moves, Pushed, Sees,
     Clobbered

LEMMA Executed ==
  ASSUME Functional, NEW t \in Threads, Execute(t), NEW o, ip[t] = Stub(o)
  PROVE  /\ frames'[t] = frames[t] /\ calls'[t] = calls[t]
         /\ \/ ip'[t] = Lost
            \/ /\ o \in DOMAIN buffer.code
               /\ Effect(arch, buffer.code[o], o, sp[t], reg[t], word[t],
                         ip'[t], sp'[t], reg'[t], word'[t])
<1>1. ip[t][2] = "stub" /\ ip[t][3] = o
  BY Codes DEF Stub
<1> DEFINE ins == buffer.code[o]
<1>2. Here(t) = ins /\ (Written(t) <=> o \in DOMAIN buffer.code)
      /\ Next1(t) = Stub(o + ins.bytes)
  BY <1>1 DEF Here, Written, Next1, Stub
<1>3. CASE ExecUnwritten(t)
  BY <1>3 DEF ExecUnwritten, Goto, Functional, Total
<1>4. ASSUME ~ExecUnwritten(t)
      PROVE  o \in DOMAIN buffer.code
  BY <1>2, <1>4 DEF Execute, ExecPush, ExecPop, ExecPusha, ExecPopa, ExecMove, ExecShift,
     ExecCall, ExecRet, Runs
<1>5. CASE ExecPush(t)
  BY <1>2, <1>5 DEF ExecPush, Runs, Pushed, Read, Moves, Advance, Goto, Functional, Total, Effect
<1>6. CASE ExecPop(t)
  BY <1>2, <1>6 DEF ExecPop, Runs, Top, Moves, Advance, Goto, Functional, Total, Effect
<1>7. CASE ExecPusha(t)
  BY <1>2, <1>7 DEF ExecPusha, Runs, Read, Moves, Advance, Goto, Functional, Total, Effect
<1>8. CASE ExecPopa(t)
  BY <1>2, <1>8 DEF ExecPopa, Runs, Moves, Advance, Goto, Functional, Total, Effect, Where
<1>9. CASE ExecMove(t)
  BY <1>2, <1>9 DEF ExecMove, Runs, Top, Advance, Goto, Functional, Total, Effect
<1>10. CASE ExecShift(t)
  BY <1>2, <1>10 DEF ExecShift, Runs, Moves, Advance, Goto, Functional, Total, Effect
<1>11. CASE ExecCall(t)
  BY <1>2, <1>11 DEF ExecCall, Runs, Pushed, Moves, Goto, Functional, Total, Effect
<1>12. CASE ExecRet(t)
  BY <1>2, <1>12 DEF ExecRet, Runs, Top, Moves, Goto, Functional, Total, Effect
<1> QED BY <1>3, <1>4, <1>5, <1>6, <1>7, <1>8, <1>9, <1>10, <1>11, <1>12 DEF Execute
(***************************************************************************)
(* The inductive invariant.                                                *)
(*                                                                         *)
(* A frame f is a call of the function: f.sp is where its return address   *)
(* lies.  The original runs at Base, below what the callback has put       *)
(* there, and returns to After.                                            *)
(***************************************************************************)
Deep(a, f)  == IF ~f.hooked THEN 0 ELSE IF a = "x64" THEN 6 ELSE 1
Base(a, f)  == f.sp - Deep(a, f)
After(a, f) == IF f.hooked THEN Stub(IF a = "x64" THEN 95 ELSE 19) ELSE Back
Others(a)   == Registers(a) \ (Volatile(a) \cup {"bx"})

\* The original of f has begun and not returned.
InOriginal(a, f, w) ==
  /\ w[Base(a, f)] = After(a, f) /\ w[f.sp] = Back
  /\ f.seen = IF f.hooked THEN <<Prolog>> ELSE <<>>

FrameOK(a, f) ==
  /\ f = [n |-> f.n, sp |-> f.sp, reg |-> f.reg, xmm |-> f.xmm, hooked |-> f.hooked, seen |-> f.seen]
  /\ f.hooked \in BOOLEAN /\ Total(f.reg, Registers(a))
  /\ f.sp \in Int /\ f.sp <= 0 /\ (a = "x64" => f.sp % 2 = 0)

\* The calls a thread is in, one inside the other.
Calls(fs) == fs \in Seq(ToSet(fs))

Chain(a, fs) ==
  /\ Calls(fs)
  /\ \A m \in 1 .. Len(fs) : FrameOK(a, fs[m]) /\ fs[m].sp >= -12 * (m - 1)
  /\ \A m, l \in 1 .. Len(fs) : m < l => fs[l].sp + 6 <= Base(a, fs[m])
  /\ \A m \in 1 .. Len(fs) - 1 :
       /\ fs[m + 1].sp = Base(a, fs[m]) - 6
       /\ \A x \in Others(a) : fs[m + 1].reg[x] = fs[m].reg[x]

\* All of them but the innermost are in the original, which has saved bx.
Standing(a, fs, w) ==
  \A m \in 1 .. Len(fs) - 1 :
    InOriginal(a, fs[m], w) /\ w[Base(a, fs[m]) - 1] = fs[m].reg["bx"]

\* In a half that begins at b: the registers that are to be kept, with their values, and
\* what the call has passed.
Matters(a, b)  == IF First(b) THEN Registers(a) ELSE {"ax", "bx"} \cup Others(a)
Value(f, b, x) == IF ~First(b) /\ x = "ax" THEN Returned(f.n) ELSE f.reg[x]
Intact(a, f, b, r) == \A x \in Matters(a, b) : r[x] = Value(f, b, x)
Before(b) == IF First(b) THEN <<>> ELSE <<Prolog, Original>>
Passed(b) == IF First(b) THEN <<Prolog>> ELSE <<Prolog, Original, Postlog>>

\* The first n registers are on the stack.
Kept64(f, b, w, n) ==
  \A j \in 1 .. n :
    /\ Saved64[j] = "sp" => w[f.sp - j] = Place(f.sp - j + 1)
    /\ Saved64[j] \in Matters("x64", b) => w[f.sp - j] = Value(f, b, Saved64[j])

Pushing64(f, b, n, i, s, r, w) ==
  /\ i = Stub(b + PushAt[n]) /\ s = f.sp - (n - 1)
  /\ Kept64(f, b, w, n - 1) /\ Intact("x64", f, b, r) /\ f.seen = Before(b)

\* The first intercept or the second.
Calling64(f, b, i, s, r, w) ==
  /\ Kept64(f, b, w, 9)
  /\ f.seen = Before(b)
  /\ \/ i = Stub(b + 13) /\ s = f.sp - 9
     \/ i = Stub(b + 23) /\ s = f.sp - 9 /\ r["cx"] = Param(b)
     \/ i = Stub(b + 27) /\ s = f.sp - 13 /\ r["cx"] = Param(b)
     \/ i = Stub(b + 37) /\ s = f.sp - 13 /\ r["cx"] = Param(b) /\ r["ax"] = Intercept(b)
     \/ i = Intercept(b) /\ s = f.sp - 14 /\ r["cx"] = Param(b) /\ w[s] = Stub(b + 39)

Called64(f, b, i, s, w) ==
  i = Stub(b + 39) /\ s = f.sp - 13 /\ Kept64(f, b, w, 9) /\ f.seen = Passed(b)

Popping64(f, b, n, i, s, r, w) ==
  /\ i = Stub(b + PopAt[n]) /\ s = f.sp - n
  /\ Kept64(f, b, w, n) /\ f.seen = Passed(b)
  /\ \A j \in n + 1 .. 9 :
       Saved64[j] \in Matters("x64", b) => r[Saved64[j]] = Value(f, b, Saved64[j])

Popped64(f, b, i, s, r) ==
  i = Stub(b + 56) /\ s = f.sp /\ Intact("x64", f, b, r) /\ f.seen = Passed(b)

Half64(f, b, i, s, r, w) ==
  \/ \E n \in 1 .. 9 : Pushing64(f, b, n, i, s, r, w)
  \/ Calling64(f, b, i, s, r, w)
  \/ Called64(f, b, i, s, w)
  \/ \E n \in 1 .. 9 : Popping64(f, b, n, i, s, r, w)
  \/ Popped64(f, b, i, s, r)

\* From the first half to the original, and from there to the second.
Middle64(f, i, s, r, w) ==
  \/ /\ f.seen = <<Prolog>>
     /\ \A x \in Registers("x64") \ {"ax"} : r[x] = f.reg[x]
     /\ \/ i = Stub(60) /\ s = f.sp - 5 /\ r["ax"] = f.reg["ax"]
        \/ i = Stub(64) /\ s = f.sp - 6 /\ r["ax"] = f.reg["ax"]
        \/ /\ w[f.sp - 6] = Stub(95)
           /\ \/ i = Stub(79) /\ s = f.sp - 6 /\ r["ax"] = f.reg["ax"]
              \/ i = Stub(80) /\ s = f.sp - 7 /\ w[s] = f.reg["ax"]
              \/ i = Stub(90) /\ s = f.sp - 7 /\ w[s] = f.reg["ax"] /\ r["ax"] = Original
              \/ i = Stub(94) /\ s = f.sp - 7 /\ w[s] = Original /\ r["ax"] = f.reg["ax"]
  \/ i = Stub(95) /\ s = f.sp - 5 /\ f.seen = <<Prolog, Original>> /\ Intact("x64", f, 99, r)

Kept86(f, b, w) ==
  \A j \in 1 .. 9 : Saved86[j] \in Matters("x86", b) => w[f.sp - j] = Value(f, b, Saved86[j])

Half86(f, b, i, s, r, w) ==
  \/ i = Stub(b) /\ s = f.sp /\ Intact("x86", f, b, r) /\ f.seen = Before(b)
  \/ /\ Kept86(f, b, w)
     /\ \/ /\ f.seen = Before(b)
           /\ \/ i = Stub(b + 2) /\ s = f.sp - 9
              \/ i = Stub(b + 7) /\ s = f.sp - 10 /\ w[s] = Param(b)
              \/ /\ i = Intercept(b) /\ s = f.sp - 11
                 /\ w[s + 1] = Param(b) /\ w[s] = Stub(b + 12)
        \/ i = Stub(b + 12) /\ s = f.sp - 9 /\ f.seen = Passed(b)
  \/ i = Stub(b + 14) /\ s = f.sp /\ Intact("x86", f, b, r) /\ f.seen = Passed(b)

InCallback(a, f, i, s, r, w) ==
  /\ f.hooked /\ w[f.sp] = Back
  /\ a = "x64" => Half64(f, 0, i, s, r, w) \/ Middle64(f, i, s, r, w) \/ Half64(f, 99, i, s, r, w)
  /\ a = "x86" => Half86(f, 0, i, s, r, w) \/ Half86(f, 19, i, s, r, w)

AtOriginal(a, f, i, s, r, w) ==
  /\ InOriginal(a, f, w) /\ s = Base(a, f)
  /\ \/ i = Original /\ r = f.reg
     \/ i = Again /\ \A x \in Others(a) \cup {"bx"} : r[x] = f.reg[x]

AtCaller(a, f, i, s, r) ==
  /\ i = Back /\ s = f.sp + 1 /\ r["ax"] = Returned(f.n)
  /\ \A x \in Others(a) \cup {"bx"} : r[x] = f.reg[x]
  /\ f.seen = IF f.hooked THEN <<Prolog, Original, Postlog>> ELSE <<Original>>

Innermost(a, f, i, s, r, w) ==
  \/ InCallback(a, f, i, s, r, w)
  \/ AtOriginal(a, f, i, s, r, w)
  \/ AtCaller(a, f, i, s, r)

Sane(a, i, s, r, w, fs, k) ==
  \/ i = Lost
  \/ /\ k \in Nat /\ Len(fs) <= k /\ k <= MaxCalls
     /\ Total(r, Registers(a)) /\ Total(w, Stack)
     /\ Chain(a, fs) /\ Standing(a, fs, w)
     /\ fs = <<>> => i = User
     /\ fs # <<>> => Innermost(a, fs[Len(fs)], i, s, r, w)

ThreadInv(t) == Sane(arch, ip[t], sp[t], reg[t], word[t], frames[t], calls[t])

StubInv == BufferInv /\ Functional /\ \A t \in Threads : ThreadInv(t)
(***************************************************************************)
(* The halves of the 64 bit callback, instruction by instruction.          *)
(***************************************************************************)
Roomy(f) == \A x \in f.sp - 14 .. f.sp + 5 : x \in Stack

LEMMA Room ==
  ASSUME NEW f, Roomy(f), f.sp \in Int, NEW x \in Int, f.sp - 14 <= x, x <= f.sp + 5
  PROVE  x \in Stack
<1>1. x \in f.sp - 14 .. f.sp + 5
  OBVIOUS
<1> QED BY <1>1 DEF Roomy

LEMMA RoomBelow ==
  ASSUME NEW f, Roomy(f), f.sp \in Int
  PROVE  \A j \in 1 .. 9 : f.sp - j \in Stack /\ f.sp - j >= f.sp - 9
<1> TAKE j \in 1 .. 9
<1>1. f.sp - j \in Int /\ f.sp - 14 <= f.sp - j /\ f.sp - j <= f.sp + 5 /\ f.sp - j >= f.sp - 9
  OBVIOUS
<1> QED BY <1>1, Room

\* Nothing from the return address on has been written.
Below(f, w, w2) == Total(w2, Stack) /\ \A x \in Stack : x >= f.sp => w2[x] = w[x]

LEMMA Names64 ==
  /\ \A n \in 1 .. 9 : Saved64[n] = "sp" <=> n = 2
  /\ \A m, n \in 1 .. 9 : Saved64[m] = Saved64[n] => m = n
  /\ \A x \in Registers("x64") : \E n \in 1 .. 9 : Saved64[n] = x
  /\ \A n \in 1 .. 9 : n # 2 => Saved64[n] \in Registers("x64")
  /\ "sp" \notin Registers("x64") /\ Others("x64") = {}
  /\ {"ax", "bx", "cx"} \subseteq Registers("x64")
  /\ \A b : Matters("x64", b) \subseteq Registers("x64")
  /\ \A b : "ax" \in Matters("x64", b) /\ "bx" \in Matters("x64", b)
<1>1. Registers("x64") = {"ax", "cx", "dx", "r8", "r9", "r10", "r11", "bx"}
  BY DEF Registers, Volatile
<1>2. \A n \in 1 .. 9 : n \in {1, 2, 3, 4, 5, 6, 7, 8, 9}
  OBVIOUS
<1>3. /\ Saved64[1] = "bx" /\ Saved64[2] = "sp" /\ Saved64[3] = "ax" /\ Saved64[4] = "cx"
      /\ Saved64[5] = "dx" /\ Saved64[6] = "r8" /\ Saved64[7] = "r9" /\ Saved64[8] = "r10"
      /\ Saved64[9] = "r11"
  BY DEF Saved64
<1>4. Others("x64") = {}
  BY DEF Others, Registers, Volatile
<1>5. \A n \in 1 .. 9 : Saved64[n] = "sp" <=> n = 2
  BY <1>2, <1>3
<1>6. \A m, n \in 1 .. 9 : Saved64[m] = Saved64[n] => m = n
  BY <1>2, <1>3
<1>7. \A x \in Registers("x64") : \E n \in 1 .. 9 : Saved64[n] = x
  BY <1>1, <1>3
<1>8. \A n \in 1 .. 9 : n # 2 => Saved64[n] \in Registers("x64")
  BY <1>1, <1>2, <1>3
<1>9. "sp" \notin Registers("x64") /\ {"ax", "bx", "cx"} \subseteq Registers("x64")
  BY <1>1
<1>10. \A b : Matters("x64", b) \subseteq Registers("x64")
  BY <1>4, <1>9 DEF Matters
<1>11. \A b : "ax" \in Matters("x64", b) /\ "bx" \in Matters("x64", b)
  BY <1>9 DEF Matters
<1> QED BY <1>4, <1>5, <1>6, <1>7, <1>8, <1>9, <1>10, <1>11

LEMMA Offsets64 ==
  /\ \A n \in 1 .. 10 : PushAt[n] \in 0 .. 13
  /\ \A n \in 1 .. 9 : PopAt[n] \in 43 .. 55
  /\ \A m, n \in 1 .. 9 : PushAt[m] = PushAt[n] => m = n
  /\ \A m, n \in 1 .. 9 : PopAt[m] = PopAt[n] => m = n
  /\ \A n \in 1 .. 9 : PushAt[n] < 13
  /\ PushAt[1] = 0 /\ PushAt[10] = 13 /\ PopAt[9] = 43
<1>1. \A n \in 1 .. 10 : n \in {1, 2, 3, 4, 5, 6, 7, 8, 9, 10}
  OBVIOUS
<1>2. \A n \in 1 .. 9 : n \in {1, 2, 3, 4, 5, 6, 7, 8, 9}
  OBVIOUS
<1>3. \A n \in 1 .. 10 : PushAt[n] \in 0 .. 13
  BY <1>1 DEF PushAt
<1>4. \A n \in 1 .. 9 : PopAt[n] \in 43 .. 55
  BY <1>2 DEF PopAt
<1>5. \A m, n \in 1 .. 9 : PushAt[m] = PushAt[n] => m = n
  BY <1>2 DEF PushAt
<1>6. \A m, n \in 1 .. 9 : PopAt[m] = PopAt[n] => m = n
  BY <1>2 DEF PopAt
<1>7. \A n \in 1 .. 9 : PushAt[n] < 13
  BY <1>2 DEF PushAt
<1>8. PushAt[1] = 0 /\ PushAt[10] = 13 /\ PopAt[9] = 43
  BY DEF PushAt, PopAt
<1> QED BY <1>3, <1>4, <1>5, <1>6, <1>7, <1>8

LEMMA StubOffset == \A m, n : Stub(m) = Stub(n) => m = n
BY Codes DEF Stub

LEMMA PushStep ==
  ASSUME NEW b \in {0, 99}, NEW f, FrameOK("x64", f), Roomy(f), NEW n \in 1 .. 9,
         NEW i, NEW s, NEW r, NEW w, Pushing64(f, b, n, i, s, r, w), Total(w, Stack),
         NEW i2, NEW s2, NEW r2, NEW w2,
         Effect("x64", Instr("push", Saved64[n], PushAt[n + 1] - PushAt[n]), b + PushAt[n],
                s, r, w, i2, s2, r2, w2)
  PROVE  Half64(f, b, i2, s2, r2, w2) /\ r2 = r /\ Below(f, w, w2)
<1>1. f.sp \in Int /\ s = f.sp - (n - 1) /\ s - 1 = f.sp - n
  BY DEF FrameOK, Pushing64
<1>2. /\ i2 = Stub(b + PushAt[n] + (PushAt[n + 1] - PushAt[n])) /\ s2 = s - 1 /\ r2 = r
      /\ w2 = [w EXCEPT ![s - 1] = IF Saved64[n] = "sp" THEN Place(s) ELSE r[Saved64[n]]]
  BY DEF Effect, Instr
<1>3. i2 = Stub(b + PushAt[n + 1])
  <2>1. b + PushAt[n] + (PushAt[n + 1] - PushAt[n]) = b + PushAt[n + 1]
    BY Offsets64
  <2> QED BY <2>1, <1>2
<1>4. s - 1 \in Stack
  BY <1>1 DEF Roomy
<1>5. /\ Below(f, w, w2)
      /\ \A x \in Stack : x # s - 1 => w2[x] = w[x]
      /\ w2[s - 1] = IF Saved64[n] = "sp" THEN Place(s) ELSE r[Saved64[n]]
  BY <1>1, <1>2, <1>4 DEF Below, Total
<1>6. Kept64(f, b, w2, n)
  <2> SUFFICES ASSUME NEW j \in 1 .. n
               PROVE  /\ Saved64[j] = "sp" => w2[f.sp - j] = Place(f.sp - j + 1)
                      /\ Saved64[j] \in Matters("x64", b) => w2[f.sp - j] = Value(f, b, Saved64[j])
    BY DEF Kept64
  <2>1. CASE j = n
    <3>1. s = f.sp - j + 1
      BY <2>1, <1>1
    <3>2. Saved64[j] \in Matters("x64", b) => Saved64[j] # "sp" /\ r[Saved64[j]] = Value(f, b, Saved64[j])
      BY Names64 DEF Pushing64, Intact
    <3> QED BY <2>1, <3>1, <3>2, <1>1, <1>5
  <2>2. CASE j \in 1 .. n - 1
    <3>1. f.sp - j \in Stack /\ f.sp - j # s - 1
      BY <2>2, <1>1 DEF Roomy
    <3> QED BY <2>2, <3>1, <1>5 DEF Pushing64, Kept64
  <2> QED BY <2>1, <2>2
<1>7. Intact("x64", f, b, r2) /\ f.seen = Before(b)
  BY <1>2 DEF Pushing64
<1>8. CASE n = 9
  <2>1. i2 = Stub(b + 13) /\ s2 = f.sp - 9
    BY <1>8, <1>1, <1>2, <1>3, Offsets64
  <2> QED BY <2>1, <1>2, <1>5, <1>6, <1>7, <1>8 DEF Half64, Calling64
<1>9. CASE n # 9
  <2>1. n + 1 \in 1 .. 9 /\ s2 = f.sp - ((n + 1) - 1) /\ (n + 1) - 1 = n
    BY <1>9, <1>1, <1>2
  <2>2. Pushing64(f, b, n + 1, i2, s2, r2, w2)
    BY <2>1, <1>3, <1>6, <1>7 DEF Pushing64
  <2> QED BY <2>1, <2>2, <1>2, <1>5 DEF Half64
<1> QED BY <1>8, <1>9
LEMMA CallStep ==
  ASSUME NEW b \in {0, 99}, NEW f, FrameOK("x64", f), Roomy(f),
         NEW o, NEW s, NEW r, NEW w, Calling64(f, b, Stub(o), s, r, w),
         Total(r, Registers("x64")), Total(w, Stack), NEW ins,
         o = b + 13 => ins = Instr("load", <<"cx", Param(b)>>, 10),
         o = b + 23 => ins = Instr("shift", -4, 4),
         o = b + 27 => ins = Instr("load", <<"ax", Intercept(b)>>, 10),
         o = b + 37 => ins = Instr("callax", "ax", 2),
         NEW i2, NEW s2, NEW r2, NEW w2, Effect("x64", ins, o, s, r, w, i2, s2, r2, w2)
  PROVE  Calling64(f, b, i2, s2, r2, w2) /\ Total(r2, Registers("x64")) /\ Below(f, w, w2)
<1>1. f.sp \in Int /\ Kept64(f, b, w, 9) /\ f.seen = Before(b)
  BY DEF FrameOK, Calling64
<1>2. Stub(o) # Intercept(b)
  BY Codes DEF Intercept, Stub, Prolog, Postlog
<1>3. \/ o = b + 13 /\ s = f.sp - 9
      \/ o = b + 23 /\ s = f.sp - 9 /\ r["cx"] = Param(b)
      \/ o = b + 27 /\ s = f.sp - 13 /\ r["cx"] = Param(b)
      \/ o = b + 37 /\ s = f.sp - 13 /\ r["cx"] = Param(b) /\ r["ax"] = Intercept(b)
  BY <1>2, StubOffset DEF Calling64
<1>4. "cx" \in Registers("x64") /\ "ax" \in Registers("x64")
  BY Names64
<1>5. CASE o = b + 13
  <2>1. i2 = Stub(b + 13 + 10) /\ s2 = s /\ w2 = w /\ r2 = [r EXCEPT !["cx"] = Param(b)]
    BY <1>5 DEF Effect, Instr
  <2>2. Total(r2, Registers("x64")) /\ r2["cx"] = Param(b)
    BY <2>1, <1>4 DEF Total
  <2>3. b + 13 + 10 = b + 23 /\ s2 = f.sp - 9
    BY <1>3, <1>5, <2>1
  <2> QED BY <2>1, <2>2, <2>3, <1>1 DEF Calling64, Below
<1>6. CASE o = b + 23
  <2>1. i2 = Stub(b + 23 + 4) /\ s2 = s + (-4) /\ w2 = w /\ r2 = r
    BY <1>6 DEF Effect, Instr
  <2>2. b + 23 + 4 = b + 27 /\ s2 = f.sp - 13 /\ r["cx"] = Param(b)
    BY <1>1, <1>3, <1>6, <2>1
  <2> QED BY <2>1, <2>2, <1>1 DEF Calling64, Below
<1>7. CASE o = b + 27
  <2>1. i2 = Stub(b + 27 + 10) /\ s2 = s /\ w2 = w /\ r2 = [r EXCEPT !["ax"] = Intercept(b)]
    BY <1>7 DEF Effect, Instr
  <2>2. s = f.sp - 13 /\ r["cx"] = Param(b)
    BY <1>3, <1>7
  <2>3. Total(r2, Registers("x64")) /\ r2["cx"] = Param(b) /\ r2["ax"] = Intercept(b)
    BY <2>1, <2>2, <1>4 DEF Total
  <2>4. b + 27 + 10 = b + 37
    OBVIOUS
  <2> QED BY <2>1, <2>2, <2>3, <2>4, <1>1 DEF Calling64, Below
<1>8. CASE o = b + 37
  <2>1. s = f.sp - 13 /\ r["cx"] = Param(b) /\ r["ax"] = Intercept(b)
    BY <1>3, <1>8
  <2>2. /\ i2 = r["ax"] /\ s2 = s - 1 /\ r2 = r
        /\ w2 = [w EXCEPT ![s - 1] = Stub(b + 37 + 2)]
    BY <1>8 DEF Effect, Instr
  <2>3. s - 1 \in Stack /\ s - 1 = f.sp - 14 /\ b + 37 + 2 = b + 39
    BY <2>1, <1>1 DEF Roomy
  <2>4. /\ Below(f, w, w2) /\ w2[s - 1] = Stub(b + 39)
        /\ \A x \in Stack : x # s - 1 => w2[x] = w[x]
    BY <2>2, <2>3, <1>1 DEF Below, Total
  <2>5. Kept64(f, b, w2, 9)
    <3>1. \A j \in 1 .. 9 : f.sp - j \in Stack /\ f.sp - j # s - 1
      BY <2>3, <1>1 DEF Roomy
    <3> QED BY <3>1, <2>4, <1>1 DEF Kept64
  <2> QED BY <2>1, <2>2, <2>3, <2>4, <2>5, <1>1 DEF Calling64
<1> QED BY <1>3, <1>5, <1>6, <1>7, <1>8

LEMMA CalledStep ==
  ASSUME NEW b \in {0, 99}, NEW f, FrameOK("x64", f),
         NEW s, NEW r, NEW w, Called64(f, b, Stub(b + 39), s, w), Total(w, Stack),
         NEW i2, NEW s2, NEW r2, NEW w2,
         Effect("x64", Instr("shift", 4, 4), b + 39, s, r, w, i2, s2, r2, w2)
  PROVE  Popping64(f, b, 9, i2, s2, r2, w2) /\ r2 = r /\ Below(f, w, w2)
<1>1. i2 = Stub(b + 39 + 4) /\ s2 = s + 4 /\ r2 = r /\ w2 = w
  BY DEF Effect, Instr
<1>2. f.sp \in Int /\ s = f.sp - 13 /\ Kept64(f, b, w, 9) /\ f.seen = Passed(b)
  BY DEF FrameOK, Called64
<1>3. b + 39 + 4 = b + PopAt[9] /\ s2 = f.sp - 9 /\ 9 + 1 .. 9 = {}
  BY <1>1, <1>2, Offsets64
<1> QED BY <1>1, <1>2, <1>3 DEF Popping64, Below

LEMMA PopStep ==
  ASSUME NEW b \in {0, 99}, NEW f, FrameOK("x64", f), Roomy(f), NEW n \in 1 .. 9,
         NEW o, NEW s, NEW r, NEW w, Popping64(f, b, n, Stub(o), s, r, w),
         Total(r, Registers("x64")), Total(w, Stack),
         NEW ins, o = b + PopAt[n] => ins = Instr("pop", Saved64[n], PopBytes(n)),
         NEW i2, NEW s2, NEW r2, NEW w2, Effect("x64", ins, o, s, r, w, i2, s2, r2, w2)
  PROVE  /\ Half64(f, b, i2, s2, r2, w2) /\ Total(r2, Registers("x64"))
         /\ Below(f, w, w2)
<1>0. o = b + PopAt[n] /\ ins = Instr("pop", Saved64[n], PopBytes(n))
  BY StubOffset DEF Popping64
<1>1. f.sp \in Int /\ s = f.sp - n /\ Kept64(f, b, w, n) /\ f.seen = Passed(b)
  BY DEF FrameOK, Popping64
<1>2. /\ w2 = w
      /\ i2 = Stub(b + PopAt[n] + ((IF n = 1 THEN 56 ELSE PopAt[n - 1]) - PopAt[n]))
      /\ Saved64[n] = "sp" => s2 = w[s][2] /\ r2 = r
      /\ Saved64[n] # "sp" => s2 = s + 1 /\ r2 = [r EXCEPT ![Saved64[n]] = w[s]]
  BY <1>0 DEF Effect, Instr, PopBytes
<1>3. s2 = f.sp - (n - 1)
  <2>1. CASE Saved64[n] = "sp"
    <3>1. w[s] = Place(f.sp - n + 1)
      BY <2>1, <1>1 DEF Kept64
    <3>2. s2 = f.sp - n + 1
      BY <2>1, <3>1, <1>2 DEF Place
    <3> QED BY <3>2, <1>1
  <2>2. CASE Saved64[n] # "sp"
    BY <2>2, <1>1, <1>2
  <2> QED BY <2>1, <2>2
<1>4. Total(r2, Registers("x64"))
  BY <1>2 DEF Total
<1>5. \A j \in n .. 9 :
        Saved64[j] \in Matters("x64", b) => r2[Saved64[j]] = Value(f, b, Saved64[j])
  <2> SUFFICES ASSUME NEW j \in n .. 9, Saved64[j] \in Matters("x64", b)
               PROVE  r2[Saved64[j]] = Value(f, b, Saved64[j])
    OBVIOUS
  <2>0. Saved64[j] \in Registers("x64") /\ j \in 1 .. 9 /\ Saved64[j] # "sp"
    BY Names64
  <2>1. CASE j = n
    <3>1. w[s] = Value(f, b, Saved64[n])
      BY <2>1, <1>1 DEF Kept64
    <3> QED BY <2>0, <2>1, <3>1, <1>2 DEF Total
  <2>2. CASE j \in n + 1 .. 9
    <3>1. r[Saved64[j]] = Value(f, b, Saved64[j])
      BY <2>2 DEF Popping64
    <3>2. Saved64[j] # Saved64[n]
      BY <2>2, <2>0, Names64
    <3> QED BY <2>0, <3>1, <3>2, <1>2 DEF Total
  <2> QED BY <2>1, <2>2
<1>6. CASE n = 1
  <2>1. b + PopAt[n] + (56 - PopAt[n]) = b + 56
    BY Offsets64
  <2>2. i2 = Stub(b + 56) /\ s2 = f.sp
    BY <2>1, <1>1, <1>2, <1>3, <1>6
  <2>3. Intact("x64", f, b, r2)
    <3> SUFFICES ASSUME NEW x \in Matters("x64", b)
                 PROVE  r2[x] = Value(f, b, x)
      BY DEF Intact
    <3>1. PICK j \in 1 .. 9 : Saved64[j] = x
      BY Names64
    <3> QED BY <3>1, <1>5, <1>6
  <2> QED BY <2>2, <2>3, <1>1, <1>2, <1>4 DEF Half64, Popped64, Below
<1>7. CASE n # 1
  <2>1. n - 1 \in 1 .. 9 /\ (n - 1) + 1 = n
    BY <1>7
  <2>2. b + PopAt[n] + (PopAt[n - 1] - PopAt[n]) = b + PopAt[n - 1]
    <3>1. PopAt[n] \in Int /\ PopAt[n - 1] \in Int
      BY <2>1, Offsets64
    <3> QED BY <3>1
  <2>3. i2 = Stub(b + PopAt[n - 1])
    BY <2>2, <1>2, <1>7
  <2>4. Kept64(f, b, w2, n - 1)
    BY <1>1, <1>2 DEF Kept64
  <2>5. Popping64(f, b, n - 1, i2, s2, r2, w2)
    BY <2>1, <2>3, <2>4, <1>1, <1>3, <1>5 DEF Popping64
  <2> QED BY <2>1, <2>5, <1>2, <1>4 DEF Half64, Below
<1> QED BY <1>6, <1>7
\* Between the halves (HookHandler64.h:169-173): the original is reached with every
\* register as it was, and comes back to the second half.
LEMMA MiddleStep ==
  ASSUME NEW f, FrameOK("x64", f), Roomy(f), f.hooked,
         NEW o, NEW s, NEW r, NEW w,
         Middle64(f, Stub(o), s, r, w) \/ Popped64(f, 0, Stub(o), s, r),
         w[f.sp] = Back, Total(r, Registers("x64")), Total(w, Stack), NEW ins,
         o = 56 => ins = Instr("shift", -5, 4),
         o = 60 => ins = Instr("shift", -1, 4),
         o = 64 => ins = Instr("store", Stub(95), 15),
         o = 79 => ins = Instr("push", "ax", 1),
         o = 80 => ins = Instr("load", <<"ax", Original>>, 10),
         o = 90 => ins = Instr("xchg", "ax", 4),
         o = 94 => ins = Instr("ret", "sp", 1),
         o = 95 => ins = Instr("shift", 5, 4),
         NEW i2, NEW s2, NEW r2, NEW w2, Effect("x64", ins, o, s, r, w, i2, s2, r2, w2)
  PROVE  /\ \/ Middle64(f, i2, s2, r2, w2) \/ Half64(f, 99, i2, s2, r2, w2)
            \/ AtOriginal("x64", f, i2, s2, r2, w2)
         /\ Total(r2, Registers("x64")) /\ Below(f, w, w2)
<1> DEFINE Same == \A x \in Registers("x64") \ {"ax"} : r[x] = f.reg[x]
<1>0. f.sp \in Int /\ "ax" \in Registers("x64") /\ Total(f.reg, Registers("x64"))
  BY Names64 DEF FrameOK
<1>1. CASE Popped64(f, 0, Stub(o), s, r)
  <2>1. o = 56 /\ s = f.sp /\ f.seen = <<Prolog>> /\ \A x \in Registers("x64") : r[x] = f.reg[x]
    <3>1. Stub(o) = Stub(0 + 56) /\ s = f.sp /\ f.seen = Passed(0) /\ Intact("x64", f, 0, r)
      BY <1>1 DEF Popped64
    <3> QED BY <3>1, StubOffset DEF Intact, Matters, Value, Passed, First
  <2>2. i2 = Stub(56 + 4) /\ s2 = s + (-5) /\ r2 = r /\ w2 = w
    BY <2>1 DEF Effect, Instr
  <2> QED BY <2>1, <2>2, <1>0 DEF Middle64, Below
<1>2. CASE Stub(o) = Stub(60) /\ Middle64(f, Stub(o), s, r, w)
  <2>1. o = 60 /\ s = f.sp - 5 /\ f.seen = <<Prolog>> /\ Same /\ r["ax"] = f.reg["ax"]
    BY <1>2, StubOffset DEF Middle64
  <2>2. i2 = Stub(60 + 4) /\ s2 = s + (-1) /\ r2 = r /\ w2 = w
    BY <2>1 DEF Effect, Instr
  <2> QED BY <2>1, <2>2, <1>0 DEF Middle64, Below
<1>3. CASE Stub(o) = Stub(64) /\ Middle64(f, Stub(o), s, r, w)
  <2>1. o = 64 /\ s = f.sp - 6 /\ f.seen = <<Prolog>> /\ Same /\ r["ax"] = f.reg["ax"]
    BY <1>3, StubOffset DEF Middle64
  <2>2. i2 = Stub(64 + 15) /\ s2 = s /\ r2 = r /\ w2 = [w EXCEPT ![s] = Stub(95)]
    BY <2>1 DEF Effect, Instr
  <2>3. s \in Stack
    BY <2>1, <1>0 DEF Roomy
  <2>4. w2[f.sp - 6] = Stub(95) /\ Below(f, w, w2)
    BY <2>1, <2>2, <2>3, <1>0 DEF Below, Total
  <2> QED BY <2>1, <2>2, <2>4 DEF Middle64
<1>4. CASE Stub(o) = Stub(79) /\ Middle64(f, Stub(o), s, r, w)
  <2>1. /\ o = 79 /\ s = f.sp - 6 /\ f.seen = <<Prolog>> /\ Same /\ r["ax"] = f.reg["ax"]
        /\ w[f.sp - 6] = Stub(95)
    BY <1>4, StubOffset DEF Middle64
  <2>2. i2 = Stub(79 + 1) /\ s2 = s - 1 /\ r2 = r /\ w2 = [w EXCEPT ![s - 1] = r["ax"]]
    BY <2>1 DEF Effect, Instr
  <2>3. s - 1 \in Stack /\ f.sp - 6 \in Stack /\ s - 1 = f.sp - 7
    BY <2>1, <1>0 DEF Roomy
  <2>4. w2[f.sp - 6] = Stub(95) /\ w2[s - 1] = r["ax"] /\ Below(f, w, w2)
    BY <2>1, <2>2, <2>3, <1>0 DEF Below, Total
  <2> QED BY <2>1, <2>2, <2>3, <2>4 DEF Middle64
<1>5. CASE Stub(o) = Stub(80) /\ Middle64(f, Stub(o), s, r, w)
  <2>1. /\ o = 80 /\ s = f.sp - 7 /\ f.seen = <<Prolog>> /\ Same /\ w[s] = f.reg["ax"]
        /\ w[f.sp - 6] = Stub(95)
    BY <1>5, StubOffset DEF Middle64
  <2>2. i2 = Stub(80 + 10) /\ s2 = s /\ w2 = w /\ r2 = [r EXCEPT !["ax"] = Original]
    BY <2>1 DEF Effect, Instr
  <2>3. /\ r2["ax"] = Original /\ Total(r2, Registers("x64"))
        /\ \A x \in Registers("x64") \ {"ax"} : r2[x] = f.reg[x]
    BY <2>1, <2>2, <1>0 DEF Total
  <2> QED BY <2>1, <2>2, <2>3 DEF Middle64, Below
<1>6. CASE Stub(o) = Stub(90) /\ Middle64(f, Stub(o), s, r, w)
  <2>1. /\ o = 90 /\ s = f.sp - 7 /\ f.seen = <<Prolog>> /\ Same /\ w[s] = f.reg["ax"]
        /\ r["ax"] = Original /\ w[f.sp - 6] = Stub(95)
    BY <1>6, StubOffset DEF Middle64
  <2>2. /\ i2 = Stub(90 + 4) /\ s2 = s /\ w2 = [w EXCEPT ![s] = r["ax"]]
        /\ r2 = [r EXCEPT !["ax"] = w[s]]
    BY <2>1 DEF Effect, Instr
  <2>3. s \in Stack /\ f.sp - 6 \in Stack
    BY <2>1, <1>0 DEF Roomy
  <2>4. /\ r2["ax"] = f.reg["ax"] /\ Total(r2, Registers("x64"))
        /\ \A x \in Registers("x64") \ {"ax"} : r2[x] = f.reg[x]
    BY <2>1, <2>2, <1>0 DEF Total
  <2>5. w2[f.sp - 6] = Stub(95) /\ w2[s] = Original /\ Below(f, w, w2)
    BY <2>1, <2>2, <2>3, <1>0 DEF Below, Total
  <2> QED BY <2>1, <2>2, <2>4, <2>5 DEF Middle64
<1>7. CASE Stub(o) = Stub(94) /\ Middle64(f, Stub(o), s, r, w)
  <2>1. /\ o = 94 /\ s = f.sp - 7 /\ f.seen = <<Prolog>> /\ Same /\ w[s] = Original
        /\ r["ax"] = f.reg["ax"] /\ w[f.sp - 6] = Stub(95)
    BY <1>7, StubOffset DEF Middle64
  <2>2. i2 = w[s] /\ s2 = s + 1 /\ r2 = r /\ w2 = w
    BY <2>1 DEF Effect, Instr
  <2>3. r2 = f.reg
    <3>1. \A x \in Registers("x64") : r[x] = f.reg[x]
      BY <2>1
    <3> QED BY <3>1, <2>2, <1>0 DEF Total
  <2>4. Base("x64", f) = f.sp - 6 /\ After("x64", f) = Stub(95) /\ s2 = f.sp - 6
    BY <2>1, <2>2, <1>0 DEF Base, Deep, After
  <2> QED BY <2>1, <2>2, <2>3, <2>4 DEF AtOriginal, InOriginal, Below
<1>8. CASE Stub(o) = Stub(95) /\ Middle64(f, Stub(o), s, r, w)
  <2>1. o = 95 /\ s = f.sp - 5 /\ f.seen = <<Prolog, Original>> /\ Intact("x64", f, 99, r)
    BY <1>8, StubOffset DEF Middle64
  <2>2. i2 = Stub(95 + 4) /\ s2 = s + 5 /\ r2 = r /\ w2 = w
    BY <2>1 DEF Effect, Instr
  <2>3. i2 = Stub(99 + PushAt[1]) /\ s2 = f.sp - (1 - 1)
    BY <2>1, <2>2, <1>0, Offsets64
  <2>4. Kept64(f, 99, w2, 1 - 1) /\ f.seen = Before(99)
    BY <2>1 DEF Kept64, Before, First
  <2>5. Pushing64(f, 99, 1, i2, s2, r2, w2)
    BY <2>1, <2>2, <2>3, <2>4 DEF Pushing64
  <2> QED BY <2>2, <2>5 DEF Half64, Below
<1> QED BY <1>1, <1>2, <1>3, <1>4, <1>5, <1>6, <1>7, <1>8 DEF Middle64

LEMMA ReturnStep ==
  ASSUME NEW f, FrameOK("x64", f), f.hooked, NEW s, NEW r, NEW w,
         Popped64(f, 99, Stub(155), s, r), w[f.sp] = Back, Total(w, Stack),
         NEW i2, NEW s2, NEW r2, NEW w2,
         Effect("x64", Instr("ret", "sp", 1), 155, s, r, w, i2, s2, r2, w2)
  PROVE  AtCaller("x64", f, i2, s2, r2) /\ r2 = r /\ Below(f, w, w2)
<1>1. i2 = w[s] /\ s2 = s + 1 /\ r2 = r /\ w2 = w
  BY DEF Effect, Instr
<1>2. s = f.sp /\ Intact("x64", f, 99, r) /\ f.seen = <<Prolog, Original, Postlog>>
  BY DEF Popped64, Passed, First
<1>3. r["ax"] = Returned(f.n) /\ r["bx"] = f.reg["bx"]
  BY <1>2, Names64 DEF Intact, Value, First
<1>4. Others("x64") = {}
  BY Names64
<1> QED BY <1>1, <1>2, <1>3, <1>4 DEF AtCaller, Below
LEMMA FromMiddle64 ==
  ASSUME BufferInv, arch = "x64", NEW f, FrameOK("x64", f), Roomy(f), f.hooked,
         NEW o \in DOMAIN buffer.code, NEW s, NEW r, NEW w,
         Middle64(f, Stub(o), s, r, w) \/ Popped64(f, 0, Stub(o), s, r),
         w[f.sp] = Back, Total(r, Registers("x64")), Total(w, Stack),
         NEW i2, NEW s2, NEW r2, NEW w2,
         Effect("x64", buffer.code[o], o, s, r, w, i2, s2, r2, w2)
  PROVE  /\ Innermost("x64", f, i2, s2, r2, w2)
         /\ Total(r2, Registers("x64")) /\ Below(f, w, w2)
<1>1. /\ o = 56 => buffer.code[o] = Instr("shift", -5, 4)
      /\ o = 60 => buffer.code[o] = Instr("shift", -1, 4)
      /\ o = 64 => buffer.code[o] = Instr("store", Stub(95), 15)
      /\ o = 79 => buffer.code[o] = Instr("push", "ax", 1)
      /\ o = 80 => buffer.code[o] = Instr("load", <<"ax", Original>>, 10)
      /\ o = 90 => buffer.code[o] = Instr("xchg", "ax", 4)
      /\ o = 94 => buffer.code[o] = Instr("ret", "sp", 1)
      /\ o = 95 => buffer.code[o] = Instr("shift", 5, 4)
  BY FoundMiddle64 DEF Finds, Stub
<1>2. /\ \/ Middle64(f, i2, s2, r2, w2) \/ Half64(f, 99, i2, s2, r2, w2)
         \/ AtOriginal("x64", f, i2, s2, r2, w2)
      /\ Total(r2, Registers("x64")) /\ Below(f, w, w2)
  BY <1>1, MiddleStep
<1>3. f.sp \in Int /\ f.sp \in Stack
  BY DEF FrameOK, Roomy
<1>4. w2[f.sp] = Back
  BY <1>2, <1>3 DEF Below
<1> QED BY <1>2, <1>4 DEF Innermost, InCallback

LEMMA HalfStep64 ==
  ASSUME BufferInv, arch = "x64", NEW b \in {0, 99},
         NEW f, FrameOK("x64", f), Roomy(f), f.hooked,
         NEW o \in DOMAIN buffer.code, NEW s, NEW r, NEW w, Half64(f, b, Stub(o), s, r, w),
         w[f.sp] = Back, Total(r, Registers("x64")), Total(w, Stack),
         NEW i2, NEW s2, NEW r2, NEW w2,
         Effect("x64", buffer.code[o], o, s, r, w, i2, s2, r2, w2)
  PROVE  /\ Innermost("x64", f, i2, s2, r2, w2)
         /\ Total(r2, Registers("x64")) /\ Below(f, w, w2)
<1>1. ASSUME Below(f, w, w2), Half64(f, b, i2, s2, r2, w2)
      PROVE  Innermost("x64", f, i2, s2, r2, w2)
  <2>1. f.sp \in Int /\ f.sp \in Stack
    BY DEF FrameOK, Roomy
  <2>2. w2[f.sp] = Back
    BY <1>1, <2>1 DEF Below
  <2> QED BY <1>1, <2>2 DEF Innermost, InCallback
<1>2. ASSUME NEW n \in 1 .. 9, Pushing64(f, b, n, Stub(o), s, r, w)
      PROVE  /\ Innermost("x64", f, i2, s2, r2, w2)
             /\ Total(r2, Registers("x64")) /\ Below(f, w, w2)
  <2>1. o = b + PushAt[n]
    BY <1>2, StubOffset DEF Pushing64
  <2>2. buffer.code[o] = Instr("push", Saved64[n], PushAt[n + 1] - PushAt[n])
    BY <2>1, FoundHalf64 DEF Finds
  <2>3. Effect("x64", Instr("push", Saved64[n], PushAt[n + 1] - PushAt[n]), b + PushAt[n],
               s, r, w, i2, s2, r2, w2)
    BY <2>1, <2>2
  <2>4. Half64(f, b, i2, s2, r2, w2) /\ r2 = r /\ Below(f, w, w2)
    BY <1>2, <2>3, PushStep
  <2> QED BY <2>4, <1>1
<1>3. CASE Calling64(f, b, Stub(o), s, r, w)
  <2>1. /\ o = b + 13 => buffer.code[o] = Instr("load", <<"cx", Param(b)>>, 10)
        /\ o = b + 23 => buffer.code[o] = Instr("shift", -4, 4)
        /\ o = b + 27 => buffer.code[o] = Instr("load", <<"ax", Intercept(b)>>, 10)
        /\ o = b + 37 => buffer.code[o] = Instr("callax", "ax", 2)
    BY FoundHalf64 DEF Finds
  <2>2. /\ Calling64(f, b, i2, s2, r2, w2) /\ Total(r2, Registers("x64"))
        /\ Below(f, w, w2)
    BY <1>3, <2>1, CallStep
  <2> QED BY <2>2, <1>1 DEF Half64
<1>4. CASE Called64(f, b, Stub(o), s, w)
  <2>1. o = b + 39
    BY <1>4, StubOffset DEF Called64
  <2>2. buffer.code[o] = Instr("shift", 4, 4)
    BY <2>1, FoundHalf64 DEF Finds
  <2>3. Popping64(f, b, 9, i2, s2, r2, w2) /\ r2 = r /\ Below(f, w, w2)
    BY <1>4, <2>1, <2>2, CalledStep
  <2>4. Half64(f, b, i2, s2, r2, w2)
    BY <2>3, 9 \in 1 .. 9 DEF Half64
  <2> QED BY <2>3, <2>4, <1>1
<1>5. ASSUME NEW n \in 1 .. 9, Popping64(f, b, n, Stub(o), s, r, w)
      PROVE  /\ Innermost("x64", f, i2, s2, r2, w2)
             /\ Total(r2, Registers("x64")) /\ Below(f, w, w2)
  <2>2. o = b + PopAt[n] => buffer.code[o] = Instr("pop", Saved64[n], PopBytes(n))
    BY FoundHalf64 DEF Finds, PopBytes
  <2>4. /\ Half64(f, b, i2, s2, r2, w2) /\ Total(r2, Registers("x64"))
        /\ Below(f, w, w2)
    BY <1>5, <2>2, PopStep
  <2> QED BY <2>4, <1>1
<1>6. CASE Popped64(f, b, Stub(o), s, r) /\ b = 99
  <2>1. o = 155
    BY <1>6, StubOffset DEF Popped64
  <2>2. buffer.code[o] = Instr("ret", "sp", 1)
    BY <2>1, FoundMiddle64 DEF Finds
  <2>3. AtCaller("x64", f, i2, s2, r2) /\ r2 = r /\ Below(f, w, w2)
    BY <1>6, <2>1, <2>2, ReturnStep
  <2> QED BY <2>3 DEF Innermost
<1>7. CASE Popped64(f, b, Stub(o), s, r) /\ b = 0
  <2>1. Middle64(f, Stub(o), s, r, w) \/ Popped64(f, 0, Stub(o), s, r)
    BY <1>7
  <2> QED BY <2>1, FromMiddle64
<1> QED BY <1>2, <1>3, <1>4, <1>5, <1>6, <1>7 DEF Half64
(***************************************************************************)
(* The halves of the 32 bit callback.                                      *)
(***************************************************************************)
LEMMA Names86 ==
  /\ Len(Saved86) = 9 /\ Len(Reverse(Saved86)) = 9
  /\ \A j \in 1 .. 9 : Reverse(Saved86)[10 - j] = Saved86[j]
  /\ \A j, k \in 1 .. 9 : Saved86[j] = Saved86[k] => j = k
  /\ \A x \in Registers("x86") : \E j \in 1 .. 9 : Saved86[j] = x
  /\ "sp" \notin Registers("x86")
  /\ \A b : Matters("x86", b) \subseteq Registers("x86")
  /\ \A b : {"ax", "bx"} \cup Others("x86") \subseteq Matters("x86", b)
<1>1. Registers("x86") = {"ax", "cx", "dx", "flags", "bx", "bp", "si", "di"}
  BY DEF Registers, Volatile
<1>2. Others("x86") = {"bp", "si", "di"}
  BY DEF Others, Registers, Volatile
<1>3. \A j \in 1 .. 9 : j \in {1, 2, 3, 4, 5, 6, 7, 8, 9}
  OBVIOUS
<1>4. /\ Saved86[1] = "ax" /\ Saved86[2] = "cx" /\ Saved86[3] = "dx" /\ Saved86[4] = "bx"
      /\ Saved86[5] = "sp" /\ Saved86[6] = "bp" /\ Saved86[7] = "si" /\ Saved86[8] = "di"
      /\ Saved86[9] = "flags" /\ Len(Saved86) = 9
  BY DEF Saved86
<1>5. Reverse(Saved86) = [k \in 1 .. 9 |-> Saved86[(9 - k) + 1]]
  BY <1>4 DEF Reverse
<1>6. Len(Reverse(Saved86)) = 9
  BY <1>5
<1>7. \A j \in 1 .. 9 : Reverse(Saved86)[10 - j] = Saved86[j]
  BY <1>5
<1>8. \A j, k \in 1 .. 9 : Saved86[j] = Saved86[k] => j = k
  BY <1>3, <1>4
<1>9. \A x \in Registers("x86") : \E j \in 1 .. 9 : Saved86[j] = x
  BY <1>1, <1>4
<1>10. "sp" \notin Registers("x86")
  BY <1>1
<1>11. \A b : Matters("x86", b) \subseteq Registers("x86")
  BY <1>1, <1>2 DEF Matters
<1>12. \A b : {"ax", "bx"} \cup Others("x86") \subseteq Matters("x86", b)
  BY <1>1, <1>2 DEF Matters
<1> QED BY <1>4, <1>6, <1>7, <1>8, <1>9, <1>10, <1>11, <1>12

\* pusha and popa: popa looks for the register from the other end.
LEMMA PushaStep ==
  ASSUME NEW b \in {0, 19}, NEW f, FrameOK("x86", f), Roomy(f),
         NEW s, s = f.sp, NEW r, NEW w, Intact("x86", f, b, r), Total(w, Stack), NEW o,
         NEW i2, NEW s2, NEW r2, NEW w2,
         Effect("x86", Instr("pusha", Saved86, 2), o, s, r, w, i2, s2, r2, w2)
  PROVE  /\ i2 = Stub(o + 2) /\ s2 = f.sp - 9 /\ r2 = r
         /\ Kept86(f, b, w2) /\ Below(f, w, w2)
<1>1. /\ i2 = Stub(o + 2) /\ s2 = s - 9 /\ r2 = r
      /\ w2 = [x \in Stack |-> IF x \in s - 9 .. s - 1
                               THEN IF Saved86[s - x] = "sp" THEN Place(s) ELSE r[Saved86[s - x]]
                               ELSE w[x]]
  <2>1. PICK ins : ins = Instr("pusha", Saved86, 2)
    OBVIOUS
  <2>2. ins.op = "pusha" /\ ins.arg = Saved86 /\ ins.bytes = 2
    BY <2>1 DEF Instr
  <2>3. Effect("x86", ins, o, s, r, w, i2, s2, r2, w2)
    BY <2>1
  <2>4. /\ i2 = Stub(o + 2) /\ s2 = s - Len(Saved86) /\ r2 = r
        /\ w2 = [x \in Stack |->
                   IF x \in s - Len(Saved86) .. s - 1
                   THEN IF Saved86[s - x] = "sp" THEN Place(s) ELSE r[Saved86[s - x]]
                   ELSE w[x]]
    BY <2>2, <2>3 DEF Effect
  <2>5. Len(Saved86) = 9
    BY Names86
  <2> QED BY <2>4, <2>5
<1>2. f.sp \in Int
  BY DEF FrameOK
<1>3. Below(f, w, w2)
  BY <1>1, <1>2 DEF Below, Total, Stack
<1>4. Kept86(f, b, w2)
  <2> SUFFICES ASSUME NEW j \in 1 .. 9, Saved86[j] \in Matters("x86", b)
               PROVE  w2[f.sp - j] = Value(f, b, Saved86[j])
    BY DEF Kept86
  <2>1. f.sp - j \in Stack /\ f.sp - j \in s - 9 .. s - 1 /\ s - (f.sp - j) = j
    BY <1>2 DEF Roomy
  <2>2. Saved86[j] # "sp" /\ r[Saved86[j]] = Value(f, b, Saved86[j])
    BY Names86 DEF Intact
  <2> QED BY <2>1, <2>2, <1>1
<1> QED BY <1>1, <1>3, <1>4

LEMMA PopaStep ==
  ASSUME NEW b \in {0, 19}, NEW f, FrameOK("x86", f),
         NEW s, s = f.sp - 9, NEW r, NEW w, Kept86(f, b, w), Total(w, Stack), NEW o,
         NEW i2, NEW s2, NEW r2, NEW w2,
         Effect("x86", Instr("popa", Reverse(Saved86), 2), o, s, r, w, i2, s2, r2, w2)
  PROVE  /\ i2 = Stub(o + 2) /\ s2 = f.sp /\ Intact("x86", f, b, r2)
         /\ Total(r2, Registers("x86")) /\ Below(f, w, w2)
<1> DEFINE At(x) == Where(Reverse(Saved86), x)
<1>1. /\ i2 = Stub(o + 2) /\ s2 = s + 9 /\ w2 = w
      /\ r2 = [x \in Registers("x86") |-> w[s - 1 + At(x)]]
  BY Names86 DEF Effect, Instr
<1>2. f.sp \in Int /\ s2 = f.sp
  BY <1>1 DEF FrameOK
<1>3. ASSUME NEW j \in 1 .. 9 PROVE At(Saved86[j]) = 10 - j
  <2>1. 10 - j \in 1 .. 9 /\ Reverse(Saved86)[10 - j] = Saved86[j]
    BY Names86
  <2>2. ASSUME NEW k \in 1 .. 9, Reverse(Saved86)[k] = Saved86[j] PROVE k = 10 - j
    <3>1. 10 - k \in 1 .. 9 /\ 10 - (10 - k) = k
      OBVIOUS
    <3>2. Reverse(Saved86)[k] = Saved86[10 - k]
      BY <3>1, Names86
    <3>3. PICK l \in 1 .. 9 : l = 10 - k
      BY <3>1
    <3>4. Saved86[l] = Saved86[j]
      BY <2>2, <3>2, <3>3
    <3>5. l = j
      BY <3>4, Names86
    <3> QED BY <3>3, <3>5
  <2>3. Len(Reverse(Saved86)) = 9
    BY Names86
  <2> QED BY <2>1, <2>2, <2>3 DEF Where
<1>4. Intact("x86", f, b, r2)
  <2> SUFFICES ASSUME NEW x \in Matters("x86", b) PROVE r2[x] = Value(f, b, x)
    BY DEF Intact
  <2>1. x \in Registers("x86")
    BY Names86
  <2>2. PICK j \in 1 .. 9 : Saved86[j] = x
    BY <2>1, Names86
  <2>3. At(x) = 10 - j
    BY <2>2, <1>3
  <2>4. s - 1 + At(x) = f.sp - j
    BY <2>3, <1>2
  <2>5. w[f.sp - j] = Value(f, b, x)
    BY <2>2 DEF Kept86
  <2> QED BY <2>1, <2>4, <2>5, <1>1
<1> QED BY <1>1, <1>2, <1>4 DEF Total, Below
LEMMA HalfStep86 ==
  ASSUME BufferInv, arch = "x86", NEW b \in {0, 19},
         NEW f, FrameOK("x86", f), Roomy(f), f.hooked,
         NEW o \in DOMAIN buffer.code, NEW s, NEW r, NEW w, Half86(f, b, Stub(o), s, r, w),
         w[f.sp] = Back, Total(r, Registers("x86")), Total(w, Stack),
         NEW i2, NEW s2, NEW r2, NEW w2,
         Effect("x86", buffer.code[o], o, s, r, w, i2, s2, r2, w2)
  PROVE  /\ Innermost("x86", f, i2, s2, r2, w2)
         /\ Total(r2, Registers("x86")) /\ Below(f, w, w2)
<1>0. f.sp \in Int /\ f.sp \in Stack /\ Stub(o) # Intercept(b)
  BY Codes DEF FrameOK, Roomy, Intercept, Stub, Prolog, Postlog
<1>1. ASSUME Below(f, w, w2), Half86(f, b, i2, s2, r2, w2)
      PROVE  Innermost("x86", f, i2, s2, r2, w2)
  <2>1. w2[f.sp] = Back
    BY <1>0, <1>1 DEF Below
  <2> QED BY <1>1, <2>1 DEF Innermost, InCallback
<1>2. CASE Stub(o) = Stub(b) /\ s = f.sp /\ Intact("x86", f, b, r) /\ f.seen = Before(b)
  <2>1. o = b
    BY <1>2, StubOffset
  <2>2. buffer.code[o] = Instr("pusha", Saved86, 2)
    BY <2>1, Found86 DEF Finds
  <2>3. Effect("x86", Instr("pusha", Saved86, 2), o, s, r, w, i2, s2, r2, w2)
    BY <2>2
  <2>4. /\ i2 = Stub(o + 2) /\ s2 = f.sp - 9 /\ r2 = r
        /\ Kept86(f, b, w2) /\ Below(f, w, w2)
    BY <1>2, <2>3, PushaStep
  <2>5. Half86(f, b, i2, s2, r2, w2)
    BY <1>2, <2>1, <2>4 DEF Half86
  <2> QED BY <2>4, <2>5, <1>1
<1>3. CASE Kept86(f, b, w) /\ f.seen = Before(b) /\ Stub(o) = Stub(b + 2) /\ s = f.sp - 9
  <2>1. o = b + 2
    BY <1>3, StubOffset
  <2>2. buffer.code[o] = Instr("pushvalue", Param(b), 5)
    BY <2>1, Found86 DEF Finds
  <2>3. i2 = Stub(o + 5) /\ s2 = s - 1 /\ r2 = r /\ w2 = [w EXCEPT ![s - 1] = Param(b)]
    BY <2>2 DEF Effect, Instr
  <2>4. s - 1 \in Stack /\ s - 1 = f.sp - 10 /\ o + 5 = b + 7
    BY <1>0, <1>3, <2>1 DEF Roomy
  <2>5. /\ Below(f, w, w2) /\ w2[s - 1] = Param(b)
        /\ \A x \in Stack : x # s - 1 => w2[x] = w[x]
    BY <1>0, <2>3, <2>4 DEF Below, Total
  <2>6. Kept86(f, b, w2)
    <3>1. \A j \in 1 .. 9 : f.sp - j \in Stack /\ f.sp - j # s - 1
      BY <1>0, <2>4 DEF Roomy
    <3> QED BY <3>1, <2>5, <1>3 DEF Kept86
  <2>7. Half86(f, b, i2, s2, r2, w2)
    BY <1>3, <2>3, <2>4, <2>5, <2>6 DEF Half86
  <2> QED BY <2>3, <2>5, <2>7, <1>1
<1>4. CASE /\ Kept86(f, b, w) /\ f.seen = Before(b) /\ Stub(o) = Stub(b + 7)
           /\ s = f.sp - 10 /\ w[s] = Param(b)
  <2>1. o = b + 7
    BY <1>4, StubOffset
  <2>2. buffer.code[o] = Instr("callto", Intercept(b), 5)
    BY <2>1, Found86 DEF Finds
  <2>3. /\ i2 = Intercept(b) /\ s2 = s - 1 /\ r2 = r
        /\ w2 = [w EXCEPT ![s - 1] = Stub(o + 5)]
    BY <2>2 DEF Effect, Instr
  <2>4. /\ s - 1 \in Stack /\ s \in Stack /\ s - 1 = f.sp - 11 /\ o + 5 = b + 12
        /\ s2 + 1 = s /\ s # s - 1
    BY <1>0, <1>4, <2>1, <2>3 DEF Roomy
  <2>5. /\ Below(f, w, w2) /\ w2[s - 1] = Stub(b + 12)
        /\ \A x \in Stack : x # s - 1 => w2[x] = w[x]
    BY <1>0, <2>3, <2>4 DEF Below, Total
  <2>6. Kept86(f, b, w2)
    <3>1. \A j \in 1 .. 9 : f.sp - j \in Stack /\ f.sp - j # s - 1
      BY <1>0, <2>4 DEF Roomy
    <3> QED BY <3>1, <2>5, <1>4 DEF Kept86
  <2>7. w2[s2 + 1] = Param(b) /\ w2[s2] = Stub(b + 12)
    BY <1>4, <2>3, <2>4, <2>5
  <2>8. Half86(f, b, i2, s2, r2, w2)
    BY <1>4, <2>3, <2>4, <2>6, <2>7 DEF Half86
  <2> QED BY <2>3, <2>5, <2>8, <1>1
<1>5. CASE Kept86(f, b, w) /\ Stub(o) = Stub(b + 12) /\ s = f.sp - 9 /\ f.seen = Passed(b)
  <2>1. o = b + 12
    BY <1>5, StubOffset
  <2>2. buffer.code[o] = Instr("popa", Reverse(Saved86), 2)
    BY <2>1, Found86 DEF Finds
  <2>3. Effect("x86", Instr("popa", Reverse(Saved86), 2), o, s, r, w, i2, s2, r2, w2)
    BY <2>2
  <2>4. /\ i2 = Stub(o + 2) /\ s2 = f.sp /\ Intact("x86", f, b, r2)
        /\ Total(r2, Registers("x86")) /\ Below(f, w, w2)
    BY <1>5, <2>3, PopaStep
  <2>5. o + 2 = b + 14
    BY <2>1
  <2>6. Half86(f, b, i2, s2, r2, w2)
    BY <1>5, <2>4, <2>5 DEF Half86
  <2> QED BY <2>4, <2>6, <1>1
<1>6. CASE /\ Stub(o) = Stub(b + 14) /\ s = f.sp /\ Intact("x86", f, b, r)
           /\ f.seen = Passed(b) /\ b = 0
  <2>1. o = 14
    BY <1>6, StubOffset
  <2>2. buffer.code[o] = Instr("callto", Original, 5)
    BY <2>1, Found86 DEF Finds
  <2>3. i2 = Original /\ s2 = s - 1 /\ r2 = r /\ w2 = [w EXCEPT ![s - 1] = Stub(14 + 5)]
    BY <2>1, <2>2 DEF Effect, Instr
  <2>4. s - 1 \in Stack /\ s2 = f.sp - 1
    BY <1>0, <1>6, <2>3 DEF Roomy
  <2>5. Below(f, w, w2) /\ w2[f.sp - 1] = Stub(19) /\ w2[f.sp] = Back
    BY <1>0, <1>6, <2>3, <2>4 DEF Below, Total
  <2>6. Base("x86", f) = f.sp - 1 /\ After("x86", f) = Stub(19)
    BY DEF Base, Deep, After
  <2>7. \A x \in Registers("x86") : r[x] = f.reg[x]
    BY <1>6 DEF Intact, Matters, Value, First
  <2>8. r2 = f.reg
    BY <2>3, <2>7 DEF Total, FrameOK
  <2>9. f.seen = <<Prolog>>
    BY <1>6 DEF Passed, First
  <2>10. AtOriginal("x86", f, i2, s2, r2, w2)
    BY <2>3, <2>4, <2>5, <2>6, <2>8, <2>9 DEF AtOriginal, InOriginal
  <2> QED BY <2>3, <2>5, <2>10 DEF Innermost
<1>7. CASE /\ Stub(o) = Stub(b + 14) /\ s = f.sp /\ Intact("x86", f, b, r)
           /\ f.seen = Passed(b) /\ b = 19
  <2>1. o = 33
    BY <1>7, StubOffset
  <2>2. buffer.code[o] = Instr("ret", "sp", 1)
    BY <2>1, Found86 DEF Finds
  <2>3. i2 = Back /\ s2 = f.sp + 1 /\ r2 = r /\ w2 = w
    BY <1>7, <2>2 DEF Effect, Instr
  <2>4. f.seen = <<Prolog, Original, Postlog>>
    BY <1>7 DEF Passed, First
  <2>5. \A x \in {"ax", "bx"} \cup Others("x86") : r[x] = Value(f, 19, x)
    <3>1. Intact("x86", f, 19, r)
      BY <1>7
    <3>2. {"ax", "bx"} \cup Others("x86") \subseteq Matters("x86", 19)
      BY Names86
    <3> QED BY <3>1, <3>2 DEF Intact
  <2>6. "ax" \notin Others("x86") /\ "bx" # "ax"
    BY DEF Others, Volatile
  <2>7. /\ r["ax"] = Returned(f.n)
        /\ \A x \in Others("x86") \cup {"bx"} : r[x] = f.reg[x]
    <3>1. \A x : Value(f, 19, x) = IF x = "ax" THEN Returned(f.n) ELSE f.reg[x]
      BY DEF Value, First
    <3> QED BY <2>5, <2>6, <3>1
  <2>8. AtCaller("x86", f, i2, s2, r2)
    BY <2>3, <2>4, <2>7 DEF AtCaller
  <2> QED BY <2>3, <2>8 DEF Innermost, Below
<1> QED BY <1>0, <1>2, <1>3, <1>4, <1>5, <1>6, <1>7 DEF Half86
\* Whatever the build, an instruction of the callback takes the call to its next position.
LEMMA InnermostExecuted ==
  ASSUME BufferInv, Functional, NEW t \in Threads, Execute(t), ip'[t] # Lost,
         NEW f, FrameOK(arch, f), Roomy(f),
         Innermost(arch, f, ip[t], sp[t], reg[t], word[t]),
         Total(reg[t], Registers(arch)), Total(word[t], Stack)
  PROVE  /\ Innermost(arch, f, ip'[t], sp'[t], reg'[t], word'[t])
         /\ Total(reg'[t], Registers(arch)) /\ Below(f, word[t], word'[t])
         /\ frames'[t] = frames[t] /\ calls'[t] = calls[t]
<1> DEFINE i == ip[t]
           s == sp[t]
           r == reg[t]
           w == word[t]
<1>1. i[2] = "stub"
  BY DEF Execute, ExecPush, ExecPop, ExecPusha, ExecPopa, ExecMove, ExecShift, ExecCall,
     ExecRet, ExecUnwritten, Runs
<1>2. /\ i \notin {Original, Again, Back}
      /\ \A b : i # Intercept(b)
  BY <1>1, Codes DEF Original, Again, Back, Intercept, Prolog, Postlog
<1>3. InCallback(arch, f, i, s, r, w)
  BY <1>2 DEF Innermost, AtOriginal, AtCaller
<1> HIDE DEF i, s, r, w
<1>4. arch \in Archs
  BY DEF BufferInv
<1>5. ASSUME NEW o, i = Stub(o)
      PROVE  /\ o \in DOMAIN buffer.code
             /\ Effect(arch, buffer.code[o], o, s, r, w, ip'[t], sp'[t], reg'[t], word'[t])
             /\ frames'[t] = frames[t] /\ calls'[t] = calls[t]
  BY <1>5, Executed DEF i, s, r, w
<1>6. CASE arch = "x64"
  <2>1. \E o : i = Stub(o)
    BY <1>2, <1>3, <1>6 DEF InCallback, Half64, Middle64, Pushing64, Calling64, Called64,
       Popping64, Popped64
  <2>2. PICK o : i = Stub(o)
    BY <2>1
  <2>3. \/ \E b \in {0, 99} : Half64(f, b, Stub(o), s, r, w)
        \/ Middle64(f, Stub(o), s, r, w)
    BY <1>3, <1>6, <2>2 DEF InCallback
  <2>4. f.hooked /\ w[f.sp] = Back
    BY <1>3 DEF InCallback
  <2>5. /\ Total(r, Registers("x64")) /\ Total(w, Stack) /\ FrameOK("x64", f)
        /\ o \in DOMAIN buffer.code
        /\ Effect("x64", buffer.code[o], o, s, r, w, ip'[t], sp'[t], reg'[t], word'[t])
    BY <1>5, <1>6, <2>2 DEF r, w
  <2>6. /\ Innermost("x64", f, ip'[t], sp'[t], reg'[t], word'[t])
        /\ Total(reg'[t], Registers("x64")) /\ Below(f, w, word'[t])
    <3>1. ASSUME NEW b \in {0, 99}, Half64(f, b, Stub(o), s, r, w)
          PROVE  /\ Innermost("x64", f, ip'[t], sp'[t], reg'[t], word'[t])
                 /\ Total(reg'[t], Registers("x64")) /\ Below(f, w, word'[t])
      BY <1>6, <2>4, <2>5, <3>1, HalfStep64
    <3>2. CASE Middle64(f, Stub(o), s, r, w)
      BY <1>6, <2>4, <2>5, <3>2, FromMiddle64
    <3> QED BY <2>3, <3>1, <3>2
  <2> QED BY <1>5, <1>6, <2>2, <2>6 DEF w
<1>7. CASE arch = "x86"
  <2>1. \E o : i = Stub(o)
    BY <1>2, <1>3, <1>7 DEF InCallback, Half86
  <2>2. PICK o : i = Stub(o)
    BY <2>1
  <2>3. \E b \in {0, 19} : Half86(f, b, Stub(o), s, r, w)
    BY <1>3, <1>7, <2>2 DEF InCallback
  <2>4. f.hooked /\ w[f.sp] = Back
    BY <1>3 DEF InCallback
  <2>5. /\ Total(r, Registers("x86")) /\ Total(w, Stack) /\ FrameOK("x86", f)
        /\ o \in DOMAIN buffer.code
        /\ Effect("x86", buffer.code[o], o, s, r, w, ip'[t], sp'[t], reg'[t], word'[t])
    BY <1>5, <1>7, <2>2 DEF r, w
  <2>6. /\ Innermost("x86", f, ip'[t], sp'[t], reg'[t], word'[t])
        /\ Total(reg'[t], Registers("x86")) /\ Below(f, w, word'[t])
    BY <1>7, <2>3, <2>4, <2>5, HalfStep86
  <2> QED BY <1>5, <1>7, <2>2, <2>6 DEF w
<1> QED BY <1>4, <1>6, <1>7 DEF Archs
(***************************************************************************)
(* The calls a thread is in.                                               *)
(***************************************************************************)
LEMMA CallsAre ==
  ASSUME NEW S, NEW fs \in Seq(S)
  PROVE  Calls(fs)
<1>1. Len(fs) \in Nat /\ DOMAIN fs = 1 .. Len(fs)
  BY LenProperties
<1>2. \A m \in 1 .. Len(fs) : fs[m] \in ToSet(fs)
  BY <1>1 DEF ToSet
<1>3. SubSeq(fs, 1, Len(fs)) \in Seq(ToSet(fs))
  BY <1>1, <1>2, SubSeqProperties
<1> QED BY <1>3, SubSeqFull DEF Calls

LEMMA CallAppended ==
  ASSUME NEW fs, Calls(fs), NEW g
  PROVE  /\ Calls(Append(fs, g)) /\ Append(fs, g) # <<>>
         /\ Len(fs) \in Nat /\ Len(Append(fs, g)) = Len(fs) + 1
         /\ \A m \in 1 .. Len(fs) : Append(fs, g)[m] = fs[m]
         /\ Append(fs, g)[Len(fs) + 1] = g
<1> DEFINE S == ToSet(fs) \cup {g}
<1>1. fs \in Seq(S)
  BY SeqMonotonic DEF Calls
<1>2. Append(fs, g) \in Seq(S)
  BY <1>1
<1>3. /\ Len(fs) \in Nat /\ Len(Append(fs, g)) = Len(fs) + 1
      /\ \A m \in 1 .. Len(fs) : Append(fs, g)[m] = fs[m]
      /\ Append(fs, g)[Len(fs) + 1] = g
  BY <1>1
<1>4. Append(fs, g) # <<>>
  BY <1>3
<1> QED BY <1>2, <1>3, <1>4, CallsAre

\* The innermost call has passed v.
Passing(f, v)   == [f EXCEPT !.seen = v]
Replaced(fs, g) == [fs EXCEPT ![Len(fs)] = g]

LEMMA CallReplaced ==
  ASSUME NEW fs, Calls(fs), fs # <<>>, NEW g
  PROVE  /\ Calls(Replaced(fs, g)) /\ Replaced(fs, g) # <<>>
         /\ Len(fs) \in Nat \ {0} /\ Len(Replaced(fs, g)) = Len(fs)
         /\ \A m \in 1 .. Len(fs) - 1 : Replaced(fs, g)[m] = fs[m]
         /\ Replaced(fs, g)[Len(fs)] = g
<1> DEFINE S == ToSet(fs) \cup {g}
           new == Replaced(fs, g)
<1>1. fs \in Seq(S)
  BY SeqMonotonic DEF Calls
<1>2. Len(fs) \in Nat \ {0}
  BY <1>1, EmptySeq
<1>3. /\ new \in Seq(S) /\ Len(new) = Len(fs)
      /\ \A m \in 1 .. Len(fs) : new[m] = IF m = Len(fs) THEN g ELSE fs[m]
  BY <1>1, <1>2, ExceptSeq DEF Replaced
<1> HIDE DEF new
<1>4. new # <<>>
  BY <1>2, <1>3
<1>5. Calls(new)
  BY <1>3, CallsAre
<1>6. /\ \A m \in 1 .. Len(fs) - 1 : new[m] = fs[m]
      /\ new[Len(fs)] = g
  BY <1>2, <1>3
<1> QED BY <1>2, <1>3, <1>4, <1>5, <1>6 DEF new

LEMMA CallRemoved ==
  ASSUME NEW fs, Calls(fs), fs # <<>>
  PROVE  /\ Calls(Front(fs)) /\ Len(fs) \in Nat \ {0} /\ Len(Front(fs)) = Len(fs) - 1
         /\ Len(fs) = 1 => Front(fs) = <<>>
         /\ Len(fs) # 1 => Front(fs) # <<>>
         /\ \A m \in 1 .. Len(fs) - 1 : Front(fs)[m] = fs[m]
<1> DEFINE S == ToSet(fs)
<1>1. fs \in Seq(S) /\ Len(fs) \in Nat \ {0}
  BY EmptySeq DEF Calls
<1>2. /\ Front(fs) \in Seq(S) /\ Len(Front(fs)) = Len(fs) - 1
      /\ \A m \in 1 .. Len(fs) - 1 : Front(fs)[m] = fs[m]
  <2>1. \A m \in 1 .. Len(fs) - 1 : fs[m] \in S
    BY <1>1, ElementOfSeq
  <2>2. PICK n \in Int : n = Len(fs) - 1
    BY <1>1
  <2>3. /\ SubSeq(fs, 1, n) \in Seq(S)
        /\ Len(SubSeq(fs, 1, n)) = IF 1 <= n THEN n - 1 + 1 ELSE 0
        /\ \A m \in 1 .. n - 1 + 1 : SubSeq(fs, 1, n)[m] = fs[1 + m - 1]
    BY <2>1, <2>2, SubSeqProperties
  <2>4. Len(SubSeq(fs, 1, n)) = n /\ \A m \in 1 .. n : SubSeq(fs, 1, n)[m] = fs[m]
    BY <1>1, <2>2, <2>3
  <2> QED BY <2>2, <2>3, <2>4 DEF Front
<1>3. Len(fs) = 1 => Front(fs) = <<>>
  BY <1>1, <1>2, EmptySeq
<1>4. Len(fs) # 1 => Front(fs) # <<>>
  BY <1>1, <1>2, EmptySeq
<1> QED BY <1>1, <1>2, <1>3, <1>4, CallsAre
LEMMA BaseOf ==
  ASSUME NEW a \in Archs, NEW f, FrameOK(a, f)
  PROVE  /\ Base(a, f) \in Int /\ f.sp - 6 <= Base(a, f) /\ Base(a, f) <= f.sp
         /\ a = "x64" => Base(a, f) % 2 = 0 /\ (Base(a, f) - 6) % 2 = 0
<1>1. f.sp \in Int /\ (a = "x64" => f.sp % 2 = 0)
  BY DEF FrameOK
<1>2. Base(a, f) \in {f.sp, f.sp - 6} \/ (a # "x64" /\ Base(a, f) = f.sp - 1)
  <2>1. Deep(a, f) \in {0, 6} \/ (a # "x64" /\ Deep(a, f) = 1)
    BY DEF Deep
  <2> QED BY <1>1, <2>1 DEF Base
<1>3. ASSUME f.sp % 2 = 0
      PROVE  (f.sp - 6) % 2 = 0 /\ (f.sp - 12) % 2 = 0
  BY <1>1, <1>3
<1>4. (f.sp - 6) - 6 = f.sp - 12
  BY <1>1
<1> QED BY <1>1, <1>2, <1>3, <1>4

\* The stack has room for the call a thread is in.
LEMMA RoomFor ==
  ASSUME NEW a \in Archs, NEW fs, Chain(a, fs), fs # <<>>, Len(fs) <= MaxCalls
  PROVE  /\ Len(fs) \in Nat \ {0} /\ FrameOK(a, fs[Len(fs)]) /\ Roomy(fs[Len(fs)])
         /\ fs[Len(fs)].sp >= -12 * (Len(fs) - 1)
         /\ \A x \in fs[Len(fs)].sp .. 0 : x \in Stack
<1>1. Len(fs) \in Nat \ {0}
  BY CallRemoved DEF Chain
<1>2. PICK n \in Nat \ {0} : n = Len(fs)
  BY <1>1
<1> DEFINE f == fs[n]
<1>3. FrameOK(a, f) /\ f.sp >= -12 * (n - 1)
  BY <1>2 DEF Chain
<1>4. f.sp \in Int /\ f.sp <= 0
  BY <1>3 DEF FrameOK
<1>5. MaxCalls \in Nat /\ Lowest \in Int /\ Lowest <= -14 * MaxCalls /\ n <= MaxCalls
  BY <1>2, StubAssumption
<1>6. f.sp - 14 >= Lowest /\ f.sp + 5 <= Highest /\ 0 <= Highest
  BY <1>3, <1>4, <1>5 DEF Highest
<1>7. Stack = Lowest .. Highest /\ Highest \in Int
  BY DEF Stack, Highest
<1> HIDE DEF f
<1>8. Roomy(f)
  BY <1>4, <1>5, <1>6, <1>7 DEF Roomy
<1>9. \A x \in f.sp .. 0 : x \in Stack
  BY <1>4, <1>5, <1>6, <1>7
<1> QED BY <1>2, <1>3, <1>8, <1>9 DEF f

\* What the innermost call does to the stack leaves the others what they need.
LEMMA StandingKept ==
  ASSUME NEW a \in Archs, NEW fs, Chain(a, fs), fs # <<>>, Len(fs) <= MaxCalls,
         NEW w, NEW w2, Standing(a, fs, w),
         \A x \in Stack : x >= fs[Len(fs)].sp + 5 => w2[x] = w[x]
  PROVE  Standing(a, fs, w2)
<1>1. PICK n \in Nat \ {0} : n = Len(fs)
  BY RoomFor
<1> DEFINE f == fs[n]
<1>2. FrameOK(a, f) /\ f.sp \in Int /\ \A x \in f.sp .. 0 : x \in Stack
  BY <1>1, RoomFor DEF FrameOK
<1> SUFFICES ASSUME NEW m \in 1 .. n - 1
             PROVE  InOriginal(a, fs[m], w2) /\ w2[Base(a, fs[m]) - 1] = fs[m].reg["bx"]
  BY <1>1 DEF Standing
<1>3. InOriginal(a, fs[m], w) /\ w[Base(a, fs[m]) - 1] = fs[m].reg["bx"]
  BY <1>1 DEF Standing
<1>4. FrameOK(a, fs[m]) /\ f.sp + 6 <= Base(a, fs[m])
  BY <1>1 DEF Chain
<1>5. /\ fs[m].sp \in Int /\ fs[m].sp <= 0
      /\ Base(a, fs[m]) \in Int /\ Base(a, fs[m]) <= fs[m].sp
  BY <1>4, BaseOf DEF FrameOK
<1>6. \A x \in Stack : x >= f.sp + 5 => w2[x] = w[x]
  BY <1>1
<1> HIDE DEF f
<1>7. \A x \in {Base(a, fs[m]), fs[m].sp, Base(a, fs[m]) - 1} :
        x \in f.sp .. 0 /\ x >= f.sp + 5
  <2>1. PICK d \in Int : d = f.sp
    BY <1>2
  <2>2. PICK e \in Int, h \in Int : e = Base(a, fs[m]) /\ h = fs[m].sp
    BY <1>5
  <2>3. d + 6 <= e /\ e <= h /\ h <= 0
    BY <1>4, <1>5, <2>1, <2>2
  <2>4. \A x \in {e, h, e - 1} : x \in d .. 0 /\ x >= d + 5
    BY <2>3
  <2> QED BY <2>1, <2>2, <2>4
<1>8. \A x \in {Base(a, fs[m]), fs[m].sp, Base(a, fs[m]) - 1} : w2[x] = w[x]
  BY <1>2, <1>6, <1>7
<1> QED BY <1>3, <1>8 DEF InOriginal

\* A call that has passed something more is the same call.
LEMMA SeenMore ==
  ASSUME NEW a, NEW f, FrameOK(a, f), NEW v, NEW g, g = Passing(f, v)
  PROVE  /\ FrameOK(a, g) /\ g.seen = v /\ Base(a, g) = Base(a, f)
         /\ g.n = f.n /\ g.sp = f.sp /\ g.reg = f.reg /\ g.xmm = f.xmm /\ g.hooked = f.hooked
<1>1. g = [n |-> f.n, sp |-> f.sp, reg |-> f.reg, xmm |-> f.xmm, hooked |-> f.hooked, seen |-> v]
  BY DEF FrameOK, Passing
<1>2. /\ g.seen = v /\ g.n = f.n /\ g.sp = f.sp /\ g.reg = f.reg /\ g.xmm = f.xmm /\ g.hooked = f.hooked
  BY <1>1
<1>3. FrameOK(a, g)
  BY <1>1, <1>2 DEF FrameOK
<1> QED BY <1>2, <1>3 DEF Base, Deep

LEMMA ChainSeen ==
  ASSUME NEW a \in Archs, NEW fs, Chain(a, fs), fs # <<>>, NEW v,
         NEW g, g = Passing(fs[Len(fs)], v),
         NEW new, new = Replaced(fs, g), NEW w, Standing(a, fs, w)
  PROVE  Chain(a, new) /\ Standing(a, new, w) /\ new # <<>> /\ Len(new) = Len(fs) /\ new[Len(new)] = g
<1>1. PICK n \in Nat \ {0} : n = Len(fs)
  BY CallRemoved DEF Chain
<1> DEFINE f == fs[n]
<1>2. FrameOK(a, f)
  BY <1>1 DEF Chain
<1>3. /\ Calls(new) /\ new # <<>> /\ Len(new) = n
      /\ (\A m \in 1 .. n - 1 : new[m] = fs[m]) /\ new[n] = g
  <2>1. Calls(fs)
    BY DEF Chain
  <2>2. /\ Calls(new) /\ new # <<>> /\ Len(new) = Len(fs)
        /\ (\A m \in 1 .. Len(fs) - 1 : new[m] = fs[m]) /\ new[Len(fs)] = g
    BY <2>1, CallReplaced
  <2> QED BY <1>1, <2>2
<1>4. /\ FrameOK(a, g) /\ Base(a, g) = Base(a, f) /\ g.sp = f.sp /\ g.reg = f.reg
  <2>1. g = Passing(f, v)
    BY <1>1
  <2> HIDE DEF f
  <2> QED BY <1>2, <2>1, SeenMore
<1>5. \A m \in 1 .. n : /\ FrameOK(a, new[m]) /\ new[m].sp = fs[m].sp
                        /\ new[m].reg = fs[m].reg /\ Base(a, new[m]) = Base(a, fs[m])
  <2> TAKE m \in 1 .. n
  <2>1. CASE m = n
    BY <2>1, <1>3, <1>4
  <2>2. CASE m \in 1 .. n - 1
    BY <2>2, <1>1, <1>3 DEF Chain
  <2> QED BY <2>1, <2>2
<1> HIDE DEF f
<1>6. Chain(a, new)
  <2>1. \A m \in 1 .. n : FrameOK(a, new[m]) /\ new[m].sp >= -12 * (m - 1)
    BY <1>1, <1>5 DEF Chain
  <2>2. \A m, l \in 1 .. n : m < l => new[l].sp + 6 <= Base(a, new[m])
    BY <1>1, <1>5 DEF Chain
  <2>3. \A m \in 1 .. n - 1 :
          /\ new[m + 1].sp = Base(a, new[m]) - 6
          /\ \A x \in Others(a) : new[m + 1].reg[x] = new[m].reg[x]
    <3> TAKE m \in 1 .. n - 1
    <3>1. m \in 1 .. n /\ m + 1 \in 1 .. n
      OBVIOUS
    <3> QED BY <3>1, <1>1, <1>5 DEF Chain
  <2> QED BY <1>3, <2>1, <2>2, <2>3 DEF Chain
<1>7. Standing(a, new, w)
  BY <1>1, <1>3 DEF Standing
<1> QED BY <1>1, <1>3, <1>6, <1>7
(***************************************************************************)
(* The steps of a thread.                                                  *)
(***************************************************************************)
Now(t) == Sane(arch, ip'[t], sp'[t], reg'[t], word'[t], frames'[t], calls'[t])

\* What the invariant says of a thread that has not been led astray.
LEMMA Inside ==
  ASSUME StubInv, NEW t \in Threads, ip[t] # Lost,
         NEW fs, fs = frames[t], NEW n, n = Len(fs)
  PROVE  /\ BufferInv /\ Functional /\ arch \in Archs
         /\ calls[t] \in Nat /\ n \in Nat /\ n <= calls[t] /\ calls[t] <= MaxCalls
         /\ Total(reg[t], Registers(arch)) /\ Total(word[t], Stack)
         /\ Chain(arch, fs) /\ Calls(fs) /\ Standing(arch, fs, word[t])
         /\ fs = <<>> => ip[t] = User
         /\ fs # <<>> => /\ n \in Nat \ {0} /\ FrameOK(arch, fs[n]) /\ Roomy(fs[n])
                         /\ Innermost(arch, fs[n], ip[t], sp[t], reg[t], word[t])
<1>1. ThreadInv(t) /\ BufferInv /\ Functional
  BY DEF StubInv
<1>2. arch \in Archs
  BY <1>1 DEF BufferInv
<1>3. /\ calls[t] \in Nat /\ n <= calls[t] /\ calls[t] <= MaxCalls
      /\ Total(reg[t], Registers(arch)) /\ Total(word[t], Stack)
      /\ Chain(arch, fs) /\ Standing(arch, fs, word[t])
      /\ fs = <<>> => ip[t] = User
      /\ fs # <<>> => Innermost(arch, fs[n], ip[t], sp[t], reg[t], word[t])
  BY <1>1 DEF ThreadInv, Sane
<1>4. Calls(fs) /\ n \in Nat
  BY <1>3, LenProperties DEF Chain, Calls
<1>5. fs # <<>> => n \in Nat \ {0} /\ FrameOK(arch, fs[n]) /\ Roomy(fs[n])
  <2> SUFFICES ASSUME fs # <<>>
               PROVE  n \in Nat \ {0} /\ FrameOK(arch, fs[n]) /\ Roomy(fs[n])
    OBVIOUS
  <2>1. Len(fs) <= MaxCalls
    BY <1>3, <1>4, StubAssumption
  <2> QED BY <2>1, <1>2, <1>3, RoomFor
<1> QED BY <1>1, <1>2, <1>3, <1>4, <1>5

\* It is enough that the innermost call is at some position, and has left the stack above alone.
LEMMA StaysSane ==
  ASSUME NEW a \in Archs, NEW fs, Chain(a, fs), fs # <<>>, NEW k \in Nat,
         Len(fs) <= k, k <= MaxCalls, NEW f, f = fs[Len(fs)], NEW w, Standing(a, fs, w),
         NEW i, NEW s, NEW r, NEW w2, Innermost(a, f, i, s, r, w2),
         Total(r, Registers(a)), Total(w2, Stack),
         \A x \in Stack : x >= f.sp + 5 => w2[x] = w[x]
  PROVE  Sane(a, i, s, r, w2, fs, k)
<1>1. Len(fs) \in Nat /\ Len(fs) <= MaxCalls
  BY CallRemoved, StubAssumption DEF Chain
<1>2. Standing(a, fs, w2)
  BY <1>1, StandingKept
<1> QED BY <1>2 DEF Sane

LEMMA NotInCallback ==
  ASSUME NEW a \in Archs, NEW f, NEW i, NEW s, NEW r, NEW w, InCallback(a, f, i, s, r, w)
  PROVE  i \in {Prolog, Postlog} \/ \E o : i = Stub(o)
<1>1. CASE a = "x64"
  BY <1>1 DEF InCallback, Half64, Middle64, Pushing64, Calling64, Called64, Popping64,
     Popped64, Intercept
<1>2. CASE a = "x86"
  BY <1>2 DEF InCallback, Half86, Intercept
<1> QED BY <1>1, <1>2 DEF Archs

LEMMA ExecutedSane ==
  ASSUME StubInv, NEW t \in Threads, Execute(t)
  PROVE  Now(t)
<1> DEFINE fs == frames[t]
           n  == Len(fs)
           f  == fs[n]
<1>1. ip[t][2] = "stub"
  BY DEF Execute, ExecPush, ExecPop, ExecPusha, ExecPopa, ExecMove, ExecShift, ExecCall,
     ExecRet, ExecUnwritten, Runs
<1>2. ip[t] # Lost /\ ip[t] # User
  BY <1>1, Codes DEF Lost, User
<1>3. CASE ip'[t] = Lost
  BY <1>3 DEF Now, Sane
<1>4. CASE ip'[t] # Lost
  <2>1. fs # <<>>
    BY <1>2, Inside
  <2>2. /\ BufferInv /\ Functional /\ arch \in Archs
        /\ calls[t] \in Nat /\ n <= calls[t] /\ calls[t] <= MaxCalls
        /\ Total(reg[t], Registers(arch)) /\ Total(word[t], Stack)
        /\ Chain(arch, fs) /\ Standing(arch, fs, word[t])
        /\ FrameOK(arch, f) /\ Roomy(f)
        /\ Innermost(arch, f, ip[t], sp[t], reg[t], word[t])
    BY <1>2, <2>1, Inside
  <2>3. /\ Innermost(arch, f, ip'[t], sp'[t], reg'[t], word'[t])
        /\ Total(reg'[t], Registers(arch)) /\ Below(f, word[t], word'[t])
        /\ frames'[t] = fs /\ calls'[t] = calls[t]
    BY <1>4, <2>2, InnermostExecuted
  <2>4. Total(word'[t], Stack) /\ \A x \in Stack : x >= f.sp + 5 => word'[t][x] = word[t][x]
    <3>1. f.sp \in Int
      BY <2>2 DEF FrameOK
    <3>2. \A x \in Stack : x \in Int
      BY StubAssumption DEF Stack, Highest
    <3> HIDE DEF f
    <3> QED BY <2>3, <3>1, <3>2 DEF Below
  <2>5. Sane(arch, ip'[t], sp'[t], reg'[t], word'[t], fs, calls[t])
    BY <2>1, <2>2, <2>3, <2>4, StaysSane
  <2> QED BY <2>3, <2>5 DEF Now
<1> QED BY <1>3, <1>4
LEMMA Appended ==
  /\ \A x : Append(<<>>, x) = <<x>>
  /\ \A x, y : Append(<<x>>, y) = <<x, y>>
  /\ \A x, y, z : Append(<<x, y>>, z) = <<x, y, z>>
<1>1. \A x : Append(<<>>, x) = <<x>>
  OBVIOUS
<1>2. ASSUME NEW x, NEW y
      PROVE  Append(<<x>>, y) = <<x, y>>
  <2> DEFINE S == {x, y}
  <2>1. <<x>> \in Seq(S) /\ <<x, y>> \in Seq(S)
    OBVIOUS
  <2>2. /\ Append(<<x>>, y) \in Seq(S) /\ Len(Append(<<x>>, y)) = 2
        /\ \A i \in 1 .. 2 : Append(<<x>>, y)[i] = <<x, y>>[i]
    BY <2>1
  <2> QED BY <2>1, <2>2, SeqEqual
<1>3. ASSUME NEW x, NEW y, NEW z
      PROVE  Append(<<x, y>>, z) = <<x, y, z>>
  <2> DEFINE S == {x, y, z}
  <2>1. <<x, y>> \in Seq(S) /\ <<x, y, z>> \in Seq(S)
    OBVIOUS
  <2>2. /\ Append(<<x, y>>, z) \in Seq(S) /\ Len(Append(<<x, y>>, z)) = 3
        /\ \A i \in 1 .. 3 : Append(<<x, y>>, z)[i] = <<x, y, z>>[i]
    BY <2>1
  <2> QED BY <2>1, <2>2, SeqEqual
<1> QED BY <1>1, <1>2, <1>3

\* The call g is f that has passed i, and w2 is w but for what lies up to s.
HasPassed(f, g, i) == g = Passing(f, Append(f.seen, i))
KeptAbove(s, w, w2) == Total(w2, Stack) /\ \A x \in Stack : ~(x <= s) => w2[x] = w[x]

LEMMA PassedMore ==
  ASSUME NEW a, NEW f, FrameOK(a, f), NEW g, NEW i, HasPassed(f, g, i)
  PROVE  /\ f.sp \in Int /\ g.sp = f.sp /\ g.n = f.n /\ g.reg = f.reg
         /\ g.hooked = f.hooked /\ g.seen = Append(f.seen, i)
<1>1. f.sp \in Int
  BY DEF FrameOK
<1>2. PICK v : v = Append(f.seen, i)
  OBVIOUS
<1>3. g = Passing(f, v)
  BY <1>2 DEF HasPassed
<1>4. /\ g.sp = f.sp /\ g.n = f.n /\ g.reg = f.reg /\ g.hooked = f.hooked /\ g.seen = v
  BY <1>3, SeenMore
<1> QED BY <1>1, <1>2, <1>4

\* The saved registers of f are those of g.
LEMMA KeptMore ==
  ASSUME NEW f, NEW g, g.sp = f.sp, g.n = f.n, g.reg = f.reg, NEW b, NEW w, NEW w2,
         \A j \in 1 .. 9 : w2[f.sp - j] = w[f.sp - j]
  PROVE  /\ Kept64(f, b, w, 9) => Kept64(g, b, w2, 9)
         /\ Kept86(f, b, w) => Kept86(g, b, w2)
<1>1. \A x : Value(g, b, x) = Value(f, b, x)
  BY DEF Value
<1>2. Kept64(f, b, w, 9) => Kept64(g, b, w2, 9)
  BY <1>1 DEF Kept64
<1>3. Kept86(f, b, w) => Kept86(g, b, w2)
  BY <1>1 DEF Kept86
<1> QED BY <1>2, <1>3

\* An intercept leaves the call where the callback restores the registers.
LEMMA InterceptReturns ==
  ASSUME NEW a \in Archs, NEW f, FrameOK(a, f), Roomy(f),
         NEW i \in {Prolog, Postlog}, NEW s, NEW r, NEW w, InCallback(a, f, i, s, r, w),
         NEW g, HasPassed(f, g, i),
         NEW top, top = s + Home(a) + Cleanup(a), NEW s2, s2 = s + (1 + Cleanup(a)),
         NEW r2, Total(r2, Registers(a)), NEW w2, KeptAbove(top, w, w2)
  PROVE  InCallback(a, g, w[s], s2, r2, w2) /\ Below(f, w, w2)
<1>1. /\ f.sp \in Int /\ g.sp = f.sp /\ g.n = f.n /\ g.reg = f.reg /\ g.hooked = f.hooked
      /\ g.seen = Append(f.seen, i)
  BY PassedMore
<1>2. /\ f.hooked /\ w[f.sp] = Back
      /\ a = "x64" => \/ Half64(f, 0, i, s, r, w) \/ Half64(f, 99, i, s, r, w)
                      \/ Middle64(f, i, s, r, w)
      /\ a = "x86" => Half86(f, 0, i, s, r, w) \/ Half86(f, 19, i, s, r, w)
  BY DEF InCallback
<1>3. \A o : i # Stub(o)
  BY Codes DEF Stub, Prolog, Postlog
<1>4. \A b : Append(Before(b), Intercept(b)) = Passed(b)
  BY Appended DEF Before, Intercept, Passed, First
<1>5. \A x \in Stack : x \in Int
  BY StubAssumption DEF Stack, Highest
<1>6. Total(w2, Stack)
  BY DEF KeptAbove
<1>7. CASE a = "x64"
  <2>1. Home(a) = 4 /\ Cleanup(a) = 0
    BY <1>7 DEF Home, Cleanup
  <2>2. PICK b \in {0, 99} : Calling64(f, b, i, s, r, w)
    BY <1>2, <1>3, <1>7 DEF Half64, Middle64, Pushing64, Called64, Popping64, Popped64
  <2>3. /\ i = Intercept(b) /\ s = f.sp - 14 /\ w[s] = Stub(b + 39)
        /\ Kept64(f, b, w, 9) /\ f.seen = Before(b)
    BY <1>3, <2>2 DEF Calling64
  <2>4. /\ top = f.sp - 10 /\ s2 = f.sp - 13
    BY <1>1, <2>1, <2>3
  <2>5. \A x \in Stack : x >= f.sp - 9 => w2[x] = w[x]
    BY <1>1, <1>5, <2>4 DEF KeptAbove
  <2>6. \A j \in 1 .. 9 : f.sp - j \in Stack /\ f.sp - j >= f.sp - 9
    BY <1>1, RoomBelow
  <2>7. Kept64(g, b, w2, 9)
    <3>1. \A j \in 1 .. 9 : w2[f.sp - j] = w[f.sp - j]
      BY <2>5, <2>6
    <3> QED BY <1>1, <2>3, <3>1, KeptMore
  <2>8. g.seen = Passed(b)
    BY <1>1, <1>4, <2>3
  <2>9. f.sp \in Stack /\ w2[f.sp] = Back
    BY <1>1, <1>2, <2>5 DEF Roomy
  <2>10. Called64(g, b, w[s], f.sp - 13, w2)
    BY <1>1, <2>3, <2>7, <2>8 DEF Called64
  <2>11. Half64(g, b, w[s], f.sp - 13, r2, w2)
    BY <2>10 DEF Half64
  <2>12. InCallback(a, g, w[s], f.sp - 13, r2, w2)
    BY <1>1, <1>2, <1>7, <2>9, <2>11 DEF InCallback
  <2>13. Below(f, w, w2)
    BY <1>1, <1>5, <1>6, <2>5 DEF Below
  <2> QED BY <2>4, <2>12, <2>13
<1>8. CASE a = "x86"
  <2>1. Home(a) = 0 /\ Cleanup(a) = 1
    BY <1>8 DEF Home, Cleanup
  <2>2. PICK b \in {0, 19} : Half86(f, b, i, s, r, w)
    BY <1>2, <1>8
  <2>3. /\ i = Intercept(b) /\ s = f.sp - 11 /\ w[s] = Stub(b + 12)
        /\ Kept86(f, b, w) /\ f.seen = Before(b)
    BY <1>3, <2>2 DEF Half86
  <2>4. /\ top = f.sp - 10 /\ s2 = f.sp - 9
    BY <1>1, <2>1, <2>3
  <2>5. \A x \in Stack : x >= f.sp - 9 => w2[x] = w[x]
    BY <1>1, <1>5, <2>4 DEF KeptAbove
  <2>6. \A j \in 1 .. 9 : f.sp - j \in Stack /\ f.sp - j >= f.sp - 9
    BY <1>1, RoomBelow
  <2>7. Kept86(g, b, w2)
    <3>1. \A j \in 1 .. 9 : w2[f.sp - j] = w[f.sp - j]
      BY <2>5, <2>6
    <3> QED BY <1>1, <2>3, <3>1, KeptMore
  <2>8. g.seen = Passed(b)
    BY <1>1, <1>4, <2>3
  <2>9. f.sp \in Stack /\ w2[f.sp] = Back
    BY <1>1, <1>2, <2>5 DEF Roomy
  <2>10. Half86(g, b, w[s], f.sp - 9, r2, w2)
    BY <1>1, <2>3, <2>7, <2>8 DEF Half86
  <2>11. InCallback(a, g, w[s], f.sp - 9, r2, w2)
    BY <1>1, <1>2, <1>8, <2>9, <2>10 DEF InCallback
  <2>12. Below(f, w, w2)
    BY <1>1, <1>5, <1>6, <2>5 DEF Below
  <2> QED BY <2>4, <2>11, <2>12
<1> QED BY <1>7, <1>8 DEF Archs

\* The original returns behind the jump to it, or to the caller.
LEMMA OriginalReturns ==
  ASSUME NEW a \in Archs, NEW f, FrameOK(a, f), Roomy(f),
         NEW i, NEW s, NEW r, NEW w, AtOriginal(a, f, i, s, r, w),
         NEW g, HasPassed(f, g, Original),
         NEW r2, r2 = [x \in Registers(a) |->
                         IF x = "ax" THEN Returned(f.n)
                         ELSE IF x \in Volatile(a) THEN Junk ELSE r[x]],
         NEW w2, KeptAbove(s + Home(a) + 0, w, w2)
  PROVE  /\ Innermost(a, g, w[s], s + 1, r2, w2)
         /\ Total(r2, Registers(a)) /\ Total(w2, Stack)
         /\ \A x \in Stack : x >= f.sp + 5 => w2[x] = w[x]
<1>1. /\ f.sp \in Int /\ g.sp = f.sp /\ g.n = f.n /\ g.reg = f.reg /\ g.hooked = f.hooked
      /\ g.seen = Append(f.seen, Original) /\ f.hooked \in BOOLEAN
  <2>1. f.sp \in Int /\ f.hooked \in BOOLEAN
    BY DEF FrameOK
  <2> QED BY <2>1, PassedMore
<1>2. /\ w[s] = After(a, f) /\ s = Base(a, f) /\ w[f.sp] = Back
      /\ f.seen = IF f.hooked THEN <<Prolog>> ELSE <<>>
  BY DEF AtOriginal, InOriginal
<1>3. \A x \in Others(a) \cup {"bx"} : r[x] = f.reg[x]
  BY DEF AtOriginal
<1>4. /\ Others(a) \cup {"ax", "bx"} \subseteq Registers(a)
      /\ \A x \in Others(a) \cup {"bx"} : x \notin Volatile(a) /\ x # "ax"
  BY DEF Others, Registers, Volatile
<1>5. r2["ax"] = Returned(f.n) /\ \A x \in Others(a) \cup {"bx"} : r2[x] = f.reg[x]
  BY <1>3, <1>4
<1>6. \A x \in Stack : x \in Int
  BY StubAssumption DEF Stack, Highest
<1>7. Total(r2, Registers(a)) /\ Total(w2, Stack)
  BY DEF Total, KeptAbove
<1>8. Home(a) \in {0, 4}
  BY DEF Home
<1>9. s \in Int /\ s <= f.sp
  BY <1>2, BaseOf
<1>10. \A x \in Stack : x >= f.sp + 5 => w2[x] = w[x]
  BY <1>1, <1>6, <1>8, <1>9 DEF KeptAbove
<1>11. CASE ~f.hooked
  <2>1. w[s] = Back /\ s = f.sp
    BY <1>1, <1>2, <1>11 DEF After, Base, Deep
  <2>2. g.seen = <<Original>>
    BY <1>1, <1>2, <1>11
  <2> QED BY <1>1, <1>5, <1>7, <1>10, <1>11, <2>1, <2>2 DEF Innermost, AtCaller
<1>12. ASSUME f.hooked
       PROVE  /\ g.seen = <<Prolog, Original>>
              /\ \A b \in {19, 99} : Intact(a, g, b, r2)
              /\ s < f.sp - Home(a) => w2[f.sp] = Back
  <2>1. g.seen = <<Prolog, Original>>
    BY <1>1, <1>2, <1>12, Appended
  <2>2. ASSUME NEW b \in {19, 99}
        PROVE  Intact(a, g, b, r2)
    <3>1. Matters(a, b) = {"ax", "bx"} \cup Others(a)
      BY DEF Matters, First
    <3>2. Value(g, b, "ax") = Returned(f.n)
      BY <1>1 DEF Value, First
    <3>3. \A x \in Others(a) \cup {"bx"} : Value(g, b, x) = f.reg[x]
      BY <1>1, <1>4 DEF Value
    <3> QED BY <1>5, <3>1, <3>2, <3>3 DEF Intact
  <2>3. f.sp \in Stack
    BY <1>1 DEF Roomy
  <2>4. s < f.sp - Home(a) => w2[f.sp] = Back
    BY <1>1, <1>2, <1>8, <1>9, <2>3 DEF KeptAbove
  <2> QED BY <2>1, <2>2, <2>4
<1>13. CASE f.hooked /\ a = "x64"
  <2>1. w[s] = Stub(95) /\ s = f.sp - 6 /\ s + 1 = f.sp - 5 /\ Home(a) = 4
    BY <1>1, <1>2, <1>13 DEF After, Base, Deep, Home
  <2>2. Intact("x64", g, 99, r2) /\ w2[f.sp] = Back /\ g.seen = <<Prolog, Original>>
    BY <1>1, <1>12, <1>13, <2>1
  <2>3. Middle64(g, w[s], s + 1, r2, w2)
    BY <1>1, <2>1, <2>2 DEF Middle64
  <2>4. InCallback(a, g, w[s], s + 1, r2, w2)
    BY <1>1, <1>13, <2>2, <2>3 DEF InCallback
  <2> QED BY <2>4, <1>7, <1>10 DEF Innermost
<1>14. CASE f.hooked /\ a = "x86"
  <2>1. w[s] = Stub(19) /\ s = f.sp - 1 /\ s + 1 = f.sp /\ Home(a) = 0
    BY <1>1, <1>2, <1>14 DEF After, Base, Deep, Home
  <2>2. Intact("x86", g, 19, r2) /\ w2[f.sp] = Back /\ g.seen = <<Prolog, Original>>
    BY <1>1, <1>12, <1>14, <2>1
  <2>3. Before(19) = <<Prolog, Original>>
    BY DEF Before, First
  <2>4. Half86(g, 19, w[s], s + 1, r2, w2)
    BY <1>1, <2>1, <2>2, <2>3 DEF Half86
  <2>5. InCallback(a, g, w[s], s + 1, r2, w2)
    BY <1>1, <1>14, <2>2, <2>4 DEF InCallback
  <2> QED BY <2>5, <1>7, <1>10 DEF Innermost
<1> QED BY <1>1, <1>11, <1>13, <1>14 DEF Archs
LEMMA Seeing ==
  ASSUME Functional, NEW t \in Threads, NEW v, Sees(t, v),
         NEW fs, fs = frames[t], NEW n, n = Len(fs), NEW f, f = fs[n]
  PROVE  frames'[t] = Replaced(fs, Passing(f, Append(f.seen, v)))
BY DEF Sees, Replaced, Passing, Functional, Total

LEMMA InterceptSane ==
  ASSUME StubInv, NEW t \in Threads, RunIntercept(t)
  PROVE  Now(t)
<1> DEFINE fs == frames[t]
           n  == Len(fs)
           f  == fs[n]
           g  == Passing(f, Append(f.seen, ip[t]))
           new == Replaced(fs, g)
<1>1. ip[t] \in {Prolog, Postlog}
  BY DEF RunIntercept
<1>2. ip[t] \notin {Lost, User, Original, Again, Back}
  BY <1>1, Codes DEF Lost, User, Original, Again, Back, Prolog, Postlog
<1>3. fs # <<>>
  BY <1>2, Inside
<1>4. /\ Functional /\ arch \in Archs
      /\ calls[t] \in Nat /\ n <= calls[t] /\ calls[t] <= MaxCalls
      /\ Total(reg[t], Registers(arch)) /\ Total(word[t], Stack)
      /\ Chain(arch, fs) /\ Standing(arch, fs, word[t])
      /\ FrameOK(arch, f) /\ Roomy(f)
      /\ Innermost(arch, f, ip[t], sp[t], reg[t], word[t])
  BY <1>2, <1>3, Inside
<1>5. InCallback(arch, f, ip[t], sp[t], reg[t], word[t])
  BY <1>2, <1>4 DEF Innermost, AtOriginal, AtCaller
<1>6. /\ ip'[t] = word[t][sp[t]] /\ sp'[t] = sp[t] + (1 + Cleanup(arch))
      /\ Total(reg'[t], Registers(arch)) /\ calls'[t] = calls[t]
      /\ word'[t] = [x \in Stack |-> IF x <= sp[t] + Home(arch) + Cleanup(arch) THEN Junk
                                     ELSE word[t][x]]
      /\ Sees(t, ip[t])
  BY <1>4 DEF RunIntercept, Goto, Top, Moves, Scratched, Clobbered, Functional, Total
<1>7. frames'[t] = new
  BY <1>4, <1>6, Seeing
<1> HIDE DEF f, new, g
<1>8. g = Passing(f, Append(f.seen, ip[t])) /\ new = Replaced(fs, g) /\ f = fs[Len(fs)]
  BY DEF g, new, f
<1>9. /\ InCallback(arch, g, ip'[t], sp'[t], reg'[t], word'[t])
      /\ Total(word'[t], Stack) /\ \A x \in Stack : x >= f.sp => word'[t][x] = word[t][x]
  <2>1. HasPassed(f, g, ip[t])
    BY <1>8 DEF HasPassed
  <2>2. PICK top : top = sp[t] + Home(arch) + Cleanup(arch)
    OBVIOUS
  <2>3. KeptAbove(top, word[t], word'[t])
    BY <1>6, <2>2 DEF KeptAbove, Total
  <2>4. arch \in Archs /\ FrameOK(arch, f) /\ Roomy(f) /\ sp'[t] = sp[t] + (1 + Cleanup(arch))
    BY <1>4, <1>6
  <2>5. Total(reg'[t], Registers(arch))
    BY <1>6
  <2>6. /\ InCallback(arch, g, word[t][sp[t]], sp'[t], reg'[t], word'[t])
        /\ Below(f, word[t], word'[t])
    BY <1>1, <1>5, <2>1, <2>2, <2>3, <2>4, <2>5, InterceptReturns
  <2> QED BY <1>6, <2>6 DEF Below
<1>10. /\ Chain(arch, new) /\ Standing(arch, new, word[t]) /\ new # <<>>
       /\ Len(new) = n /\ g = new[Len(new)]
  <2>1. PICK v : v = Append(f.seen, ip[t])
    OBVIOUS
  <2>2. g = Passing(fs[Len(fs)], v) /\ new = Replaced(fs, g)
    BY <1>8, <2>1
  <2>3. arch \in Archs /\ Chain(arch, fs) /\ Standing(arch, fs, word[t])
    BY <1>4
  <2> QED BY <1>3, <2>2, <2>3, ChainSeen
<1>11. g.sp = f.sp /\ f.sp \in Int
  <2>1. PICK v : v = Append(f.seen, ip[t])
    OBVIOUS
  <2>2. g.sp = f.sp
    BY <1>4, <1>8, <2>1, SeenMore
  <2> QED BY <1>4, <2>2 DEF FrameOK
<1>12. \A x \in Stack : x >= g.sp + 5 => word'[t][x] = word[t][x]
  <2>1. \A x \in Stack : x \in Int
    BY StubAssumption DEF Stack, Highest
  <2> QED BY <1>9, <1>11, <2>1
<1>13. Innermost(arch, g, ip'[t], sp'[t], reg'[t], word'[t])
  BY <1>9 DEF Innermost
<1>14. Sane(arch, ip'[t], sp'[t], reg'[t], word'[t], new, calls[t])
  BY <1>4, <1>6, <1>9, <1>10, <1>12, <1>13, StaysSane
<1> QED BY <1>6, <1>7, <1>14 DEF Now

LEMMA OriginalSane ==
  ASSUME StubInv, NEW t \in Threads, RunOriginal(t)
  PROVE  Now(t)
<1> DEFINE fs == frames[t]
           n  == Len(fs)
           f  == fs[n]
           g  == Passing(f, Append(f.seen, Original))
           new == Replaced(fs, g)
<1>1. ip[t] \in {Original, Again}
  BY DEF RunOriginal
<1>2. /\ ip[t] \notin {Lost, User, Back, Prolog, Postlog}
      /\ \A o : ip[t] # Stub(o)
  BY <1>1, Codes DEF Lost, User, Original, Again, Back, Prolog, Postlog, Stub
<1>3. fs # <<>>
  BY <1>2, Inside
<1>4. /\ Functional /\ arch \in Archs
      /\ calls[t] \in Nat /\ n <= calls[t] /\ calls[t] <= MaxCalls
      /\ Total(reg[t], Registers(arch)) /\ Total(word[t], Stack)
      /\ Chain(arch, fs) /\ Standing(arch, fs, word[t])
      /\ FrameOK(arch, f) /\ Roomy(f)
      /\ Innermost(arch, f, ip[t], sp[t], reg[t], word[t])
  BY <1>2, <1>3, Inside
<1>5. AtOriginal(arch, f, ip[t], sp[t], reg[t], word[t])
  BY <1>2, <1>4, NotInCallback DEF Innermost, AtCaller
<1>6. /\ ip'[t] = word[t][sp[t]] /\ sp'[t] = sp[t] + 1 /\ calls'[t] = calls[t]
      /\ word'[t] = [x \in Stack |-> IF x <= sp[t] + Home(arch) + 0 THEN Junk
                                     ELSE word[t][x]]
      /\ Sees(t, Original)
  BY <1>4 DEF RunOriginal, Goto, Top, Moves, Clobbered, Functional, Total
<1>7. reg'[t] = [x \in Registers(arch) |->
                   IF x = "ax" THEN Returned(f.n)
                   ELSE IF x \in Volatile(arch) THEN Junk ELSE reg[t][x]]
  BY <1>4 DEF RunOriginal, Scratched, Functional, Total, Last
<1>8. frames'[t] = new
  BY <1>4, <1>6, Seeing
<1> HIDE DEF f, new, g
<1>9. g = Passing(f, Append(f.seen, Original)) /\ new = Replaced(fs, g) /\ f = fs[Len(fs)]
  BY DEF g, new, f
<1>10. /\ Innermost(arch, g, ip'[t], sp'[t], reg'[t], word'[t])
       /\ Total(reg'[t], Registers(arch)) /\ Total(word'[t], Stack)
       /\ \A x \in Stack : x >= f.sp + 5 => word'[t][x] = word[t][x]
  <2>1. HasPassed(f, g, Original)
    BY <1>9 DEF HasPassed
  <2>2. KeptAbove(sp[t] + Home(arch) + 0, word[t], word'[t])
    BY <1>6 DEF KeptAbove, Total
  <2> QED BY <1>4, <1>5, <1>6, <1>7, <2>1, <2>2, OriginalReturns
<1>11. /\ Chain(arch, new) /\ Standing(arch, new, word[t]) /\ new # <<>>
       /\ Len(new) = n /\ g = new[Len(new)]
  <2>1. PICK v : v = Append(f.seen, Original)
    OBVIOUS
  <2>2. g = Passing(fs[Len(fs)], v) /\ new = Replaced(fs, g)
    BY <1>9, <2>1
  <2>3. arch \in Archs /\ Chain(arch, fs) /\ Standing(arch, fs, word[t])
    BY <1>4
  <2> QED BY <1>3, <2>2, <2>3, ChainSeen
<1>12. g.sp = f.sp
  <2>1. PICK v : v = Append(f.seen, Original)
    OBVIOUS
  <2> QED BY <1>4, <1>9, <2>1, SeenMore
<1>13. \A x \in Stack : x >= g.sp + 5 => word'[t][x] = word[t][x]
  BY <1>10, <1>12
<1>14. Sane(arch, ip'[t], sp'[t], reg'[t], word'[t], new, calls[t])
  BY <1>4, <1>10, <1>11, <1>13, StaysSane
<1> QED BY <1>6, <1>8, <1>14 DEF Now
\* A call begins at the first instruction of the callback, or of the original.
LEMMA Begins ==
  ASSUME NEW a \in Archs, NEW g, FrameOK(a, g), g.seen = <<>>, NEW w, w[g.sp] = Back
  PROVE  Innermost(a, g, IF g.hooked THEN Stub(0) ELSE Original, g.sp, g.reg, w)
<1>1. g.hooked \in BOOLEAN /\ g.sp \in Int
  BY DEF FrameOK
<1>2. Before(0) = <<>> /\ \A x : Value(g, 0, x) = g.reg[x]
  BY DEF Before, Value, First
<1>3. Intact(a, g, 0, g.reg)
  BY <1>2 DEF Intact
<1>4. CASE ~g.hooked
  BY <1>1, <1>4 DEF Innermost, AtOriginal, InOriginal, Base, Deep, After
<1>5. CASE g.hooked /\ a = "x64"
  <2>1. Stub(0) = Stub(0 + PushAt[1]) /\ g.sp = g.sp - (1 - 1)
    BY <1>1, Offsets64
  <2>2. Kept64(g, 0, w, 1 - 1)
    BY DEF Kept64
  <2>3. Pushing64(g, 0, 1, Stub(0), g.sp, g.reg, w)
    BY <1>2, <1>3, <1>5, <2>1, <2>2 DEF Pushing64
  <2>4. Half64(g, 0, Stub(0), g.sp, g.reg, w)
    BY <2>3 DEF Half64
  <2> QED BY <1>5, <2>4 DEF Innermost, InCallback
<1>6. CASE g.hooked /\ a = "x86"
  <2>1. Half86(g, 0, Stub(0), g.sp, g.reg, w)
    BY <1>2, <1>3, <1>6 DEF Half86
  <2> QED BY <1>6, <2>1 DEF Innermost, InCallback
<1> QED BY <1>1, <1>4, <1>5, <1>6 DEF Archs

LEMMA Entered ==
  ASSUME StubInv, NEW t \in Threads, NEW fresh, NEW s, Enters(t, fresh, s),
         s \in Int, s <= 0, arch = "x64" => s % 2 = 0
  PROVE  /\ calls[t] < MaxCalls /\ calls'[t] = calls[t] + 1 /\ sp'[t] = s
         /\ \E g : /\ frames'[t] = Append(frames[t], g)
                   /\ FrameOK(arch, g) /\ g.sp = s /\ g.seen = <<>> /\ reg'[t] = g.reg
                   /\ ip'[t] = IF g.hooked THEN Stub(0) ELSE Original
                   /\ \A x \in Registers(arch) \ fresh : g.reg[x] = reg[t][x]
<1> DEFINE n  == calls[t] + 1
           r0 == [r \in Registers(arch) |-> IF r \in fresh THEN Held(r, n) ELSE reg[t][r]]
           g  == [n |-> n, sp |-> s, reg |-> r0, xmm |-> Held("xmm", n), hooked |-> installed, seen |-> <<>>]
<1>1. Functional /\ installed \in BOOLEAN
  BY DEF StubInv, BufferInv
<1>2. /\ calls[t] < MaxCalls /\ calls'[t] = calls[t] + 1 /\ sp'[t] = s
      /\ reg'[t] = r0 /\ frames'[t] = Append(frames[t], g)
      /\ ip'[t] = IF installed THEN Stub(0) ELSE Original
  BY <1>1 DEF Enters, Goto, Functional, Total, Stub
<1>3. Total(r0, Registers(arch)) /\ \A x \in Registers(arch) \ fresh : r0[x] = reg[t][x]
  BY DEF Total
<1> HIDE DEF r0
<1>4. /\ g.sp = s /\ g.seen = <<>> /\ g.reg = r0 /\ g.hooked = installed /\ g.n = n
  OBVIOUS
<1>5. g = [n |-> g.n, sp |-> g.sp, reg |-> g.reg, xmm |-> g.xmm, hooked |-> g.hooked, seen |-> g.seen]
  OBVIOUS
<1> HIDE DEF g
<1>6. FrameOK(arch, g)
  BY <1>1, <1>3, <1>4, <1>5 DEF FrameOK
<1> QED BY <1>2, <1>3, <1>4, <1>6

LEMMA ChainGrows ==
  ASSUME NEW a \in Archs, NEW fs, Chain(a, fs), NEW g, FrameOK(a, g),
         fs = <<>> => g.sp = 0,
         fs # <<>> => /\ g.sp = Base(a, fs[Len(fs)]) - 6
                      /\ \A x \in Others(a) : g.reg[x] = fs[Len(fs)].reg[x]
  PROVE  Chain(a, Append(fs, g))
<1> DEFINE new == Append(fs, g)
<1>1. PICK n \in Nat : n = Len(fs)
  BY LenProperties DEF Chain, Calls
<1>2. /\ Calls(new) /\ Len(new) = n + 1 /\ new[n + 1] = g
      /\ \A m \in 1 .. n : new[m] = fs[m]
  BY <1>1, CallAppended DEF Chain
<1> HIDE DEF new
<1>3. g.sp \in Int /\ (fs = <<>> <=> n = 0)
  BY <1>1, EmptySeq DEF FrameOK, Chain, Calls
<1>4. \A m \in 1 .. n : /\ FrameOK(a, fs[m]) /\ fs[m].sp >= -12 * (m - 1) /\ fs[m].sp \in Int
                        /\ Base(a, fs[m]) \in Int /\ fs[m].sp - 6 <= Base(a, fs[m])
                        /\ Base(a, fs[m]) <= fs[m].sp
  BY <1>1, BaseOf DEF Chain, FrameOK
<1>5. \A m \in 1 .. n + 1 : m \in 1 .. n \/ m = n + 1
  OBVIOUS
<1>6. n # 0 => /\ g.sp = Base(a, fs[n]) - 6
               /\ \A x \in Others(a) : g.reg[x] = fs[n].reg[x]
  BY <1>1, <1>3
<1>7. \A m \in 1 .. n + 1 : FrameOK(a, new[m]) /\ new[m].sp >= -12 * (m - 1)
  <2>1. g.sp >= -12 * ((n + 1) - 1)
    <3>1. CASE n = 0
      BY <3>1, <1>1, <1>3
    <3>2. CASE n # 0
      <4>1. n \in 1 .. n
        BY <3>2
      <4>2. PICK d \in Int : d = fs[n].sp
        BY <4>1, <1>4
      <4>3. PICK e \in Int : e = Base(a, fs[n])
        BY <4>1, <1>4
      <4>4. d >= -12 * (n - 1) /\ d - 6 <= e /\ g.sp = e - 6
        BY <4>1, <4>2, <4>3, <1>4, <1>6, <3>2
      <4> QED BY <4>4
    <3> QED BY <3>1, <3>2
  <2> QED BY <2>1, <1>2, <1>4, <1>5
<1>8. \A m, l \in 1 .. n + 1 : m < l => new[l].sp + 6 <= Base(a, new[m])
  <2> SUFFICES ASSUME NEW m \in 1 .. n + 1, NEW l \in 1 .. n + 1, m < l
               PROVE  new[l].sp + 6 <= Base(a, new[m])
    OBVIOUS
  <2>1. m \in 1 .. n /\ new[m] = fs[m]
    BY <1>2
  <2>2. CASE l \in 1 .. n
    BY <2>1, <2>2, <1>1, <1>2 DEF Chain
  <2>3. CASE l = n + 1
    <3>1. n # 0 /\ n \in 1 .. n /\ g.sp + 6 = Base(a, fs[n])
      <4>1. n # 0 /\ n \in 1 .. n
        BY <2>1
      <4>2. PICK e \in Int : e = Base(a, fs[n])
        BY <4>1, <1>4
      <4> QED BY <4>1, <4>2, <1>6
    <3>2. CASE m = n
      BY <2>1, <2>3, <3>1, <3>2, <1>2, <1>4
    <3>3. CASE m < n
      <4>1. fs[n].sp + 6 <= Base(a, fs[m])
        BY <2>1, <3>1, <3>3, <1>1 DEF Chain
      <4>2. PICK d \in Int, e \in Int, h \in Int :
              d = fs[n].sp /\ e = Base(a, fs[n]) /\ h = Base(a, fs[m])
        BY <2>1, <3>1, <1>4
      <4>3. d + 6 <= h /\ e <= d /\ g.sp + 6 = e
        BY <4>1, <4>2, <3>1, <1>4
      <4>4. g.sp + 6 <= h
        BY <4>3, <1>3
      <4> QED BY <4>2, <4>4, <2>1, <2>3, <1>2
    <3> QED BY <2>1, <3>2, <3>3
  <2> QED BY <2>2, <2>3, <1>5
<1>9. \A m \in 1 .. (n + 1) - 1 :
        /\ new[m + 1].sp = Base(a, new[m]) - 6
        /\ \A x \in Others(a) : new[m + 1].reg[x] = new[m].reg[x]
  <2> TAKE m \in 1 .. (n + 1) - 1
  <2>1. m \in 1 .. n /\ new[m] = fs[m]
    BY <1>2
  <2>2. CASE m = n
    BY <2>1, <2>2, <1>2, <1>6
  <2>3. CASE m \in 1 .. n - 1
    <3>1. new[m + 1] = fs[m + 1]
      BY <2>3, <1>2
    <3> QED BY <2>1, <2>3, <3>1, <1>1 DEF Chain
  <2> QED BY <2>1, <2>2, <2>3
<1>10. Chain(a, new)
  BY <1>2, <1>7, <1>8, <1>9 DEF Chain
<1> QED BY <1>10 DEF new
LEMMA CallSane ==
  ASSUME StubInv, NEW t \in Threads, CallFunction(t)
  PROVE  Now(t)
<1> DEFINE fs == frames[t]
           n  == Len(fs)
<1>1. /\ ip[t] = User /\ Enters(t, Registers(arch), 0)
      /\ word' = [word EXCEPT ![t][0] = Back]
  BY DEF CallFunction
<1>2. /\ ip[t] \notin {Lost, Original, Again, Back, Prolog, Postlog}
      /\ \A o : ip[t] # Stub(o)
  BY <1>1, Codes DEF Lost, User, Original, Again, Back, Prolog, Postlog, Stub
<1>3. /\ Functional /\ arch \in Archs /\ calls[t] \in Nat /\ n \in Nat /\ n <= calls[t]
      /\ Total(word[t], Stack) /\ Chain(arch, fs) /\ Calls(fs)
  BY <1>2, Inside
<1>4. fs = <<>>
  <2> SUFFICES ASSUME fs # <<>> PROVE FALSE
    OBVIOUS
  <2>1. Innermost(arch, fs[n], ip[t], sp[t], reg[t], word[t])
    BY <1>2, Inside
  <2> QED BY <2>1, <1>2, <1>3, NotInCallback DEF Innermost, AtOriginal, AtCaller
<1>5. /\ calls[t] < MaxCalls /\ calls'[t] = calls[t] + 1 /\ sp'[t] = 0
      /\ \E g : /\ frames'[t] = Append(fs, g)
                /\ FrameOK(arch, g) /\ g.sp = 0 /\ g.seen = <<>> /\ reg'[t] = g.reg
                /\ ip'[t] = IF g.hooked THEN Stub(0) ELSE Original
  BY <1>1, Entered
<1>6. PICK g : /\ frames'[t] = Append(fs, g)
               /\ FrameOK(arch, g) /\ g.sp = 0 /\ g.seen = <<>> /\ reg'[t] = g.reg
               /\ ip'[t] = IF g.hooked THEN Stub(0) ELSE Original
  BY <1>5
<1>7. word'[t] = [word[t] EXCEPT ![0] = Back]
  BY <1>1, <1>3 DEF Functional, Total
<1>8. 0 \in Stack
  BY <1>3, <1>5, StubAssumption DEF Stack, Highest
<1>9. Total(word'[t], Stack) /\ word'[t][g.sp] = Back
  BY <1>3, <1>6, <1>7, <1>8 DEF Total
<1>10. Innermost(arch, g, ip'[t], sp'[t], reg'[t], word'[t])
  BY <1>3, <1>5, <1>6, <1>9, Begins
<1>11. Chain(arch, Append(fs, g))
  BY <1>3, <1>4, <1>6, ChainGrows
<1>12. /\ Append(fs, g) # <<>> /\ Len(Append(fs, g)) = 1 /\ Append(fs, g)[1] = g
  BY <1>3, <1>4, CallAppended, EmptySeq
<1>13. Standing(arch, Append(fs, g), word'[t])
  BY <1>12 DEF Standing
<1>14. Total(reg'[t], Registers(arch))
  BY <1>6 DEF FrameOK
<1>15. calls'[t] \in Nat /\ 1 <= calls'[t] /\ calls'[t] <= MaxCalls
  BY <1>3, <1>5, StubAssumption
<1> QED BY <1>5, <1>6, <1>9, <1>10, <1>11, <1>12, <1>13, <1>14, <1>15 DEF Now, Sane

\* A recursive call leaves the call it is made from in its original, with bx saved.
LEMMA RecurseSane ==
  ASSUME StubInv, NEW t \in Threads, Recurse(t)
  PROVE  Now(t)
<1> DEFINE fs == frames[t]
           n  == Len(fs)
           f  == fs[n]
           b  == Base(arch, f)
<1>1. /\ ip[t] \in {Original, Again} /\ Enters(t, Volatile(arch) \cup {"bx"}, sp[t] - 6)
      /\ word' = [word EXCEPT ![t][sp[t] - 1] = reg[t].bx, ![t][sp[t] - 6] = Back]
  BY DEF Recurse
<1>2. /\ ip[t] \notin {Lost, User, Back, Prolog, Postlog}
      /\ \A o : ip[t] # Stub(o)
  BY <1>1, Codes DEF Lost, User, Original, Again, Back, Prolog, Postlog, Stub
<1>3. fs # <<>>
  BY <1>2, Inside
<1>4. /\ Functional /\ arch \in Archs
      /\ calls[t] \in Nat /\ n \in Nat \ {0} /\ n <= calls[t] /\ calls[t] <= MaxCalls
      /\ Total(reg[t], Registers(arch)) /\ Total(word[t], Stack)
      /\ Chain(arch, fs) /\ Standing(arch, fs, word[t])
      /\ FrameOK(arch, f) /\ Roomy(f)
      /\ Innermost(arch, f, ip[t], sp[t], reg[t], word[t])
  BY <1>2, <1>3, Inside
<1>5. AtOriginal(arch, f, ip[t], sp[t], reg[t], word[t])
  BY <1>2, <1>4, NotInCallback DEF Innermost, AtCaller
<1> HIDE DEF f
<1>6. /\ f.sp \in Int /\ f.sp <= 0 /\ b \in Int /\ f.sp - 6 <= b /\ b <= f.sp
      /\ arch = "x64" => (b - 6) % 2 = 0
  BY <1>4, BaseOf DEF FrameOK
<1> HIDE DEF b
<1>7. /\ sp[t] = b /\ InOriginal(arch, f, word[t])
      /\ \A x \in Others(arch) \cup {"bx"} : reg[t][x] = f.reg[x]
  BY <1>5 DEF AtOriginal, b
<1>8. /\ calls[t] < MaxCalls /\ calls'[t] = calls[t] + 1 /\ sp'[t] = b - 6
      /\ \E g : /\ frames'[t] = Append(fs, g)
                /\ FrameOK(arch, g) /\ g.sp = b - 6 /\ g.seen = <<>> /\ reg'[t] = g.reg
                /\ ip'[t] = IF g.hooked THEN Stub(0) ELSE Original
                /\ \A x \in Registers(arch) \ (Volatile(arch) \cup {"bx"}) :
                     g.reg[x] = reg[t][x]
  <2>1. Enters(t, Volatile(arch) \cup {"bx"}, b - 6) /\ b - 6 \in Int /\ b - 6 <= 0
    BY <1>1, <1>6, <1>7
  <2> QED BY <2>1, <1>6, Entered
<1>9. PICK g : /\ frames'[t] = Append(fs, g)
               /\ FrameOK(arch, g) /\ g.sp = b - 6 /\ g.seen = <<>> /\ reg'[t] = g.reg
               /\ ip'[t] = IF g.hooked THEN Stub(0) ELSE Original
               /\ \A x \in Registers(arch) \ (Volatile(arch) \cup {"bx"}) :
                    g.reg[x] = reg[t][x]
  BY <1>8
<1>10. b - 1 \in Stack /\ b - 6 \in Stack /\ b \in Stack /\ f.sp \in Stack
  <2>1. \A x \in {b - 1, b - 6, b, f.sp} : x \in Int /\ f.sp - 14 <= x /\ x <= f.sp + 5
    BY <1>6
  <2>2. \A x \in {b - 1, b - 6, b, f.sp} : x \in Stack
    BY <1>4, <1>6, <2>1, Room
  <2> QED BY <2>2
<1>11. /\ Total(word'[t], Stack) /\ word'[t][b - 6] = Back /\ word'[t][b - 1] = f.reg["bx"]
       /\ \A x \in Stack : x # b - 1 /\ x # b - 6 => word'[t][x] = word[t][x]
  <2>1. word'[t] = [[word[t] EXCEPT ![b - 1] = reg[t]["bx"]] EXCEPT ![b - 6] = Back]
    BY <1>1, <1>4, <1>7 DEF Functional, Total
  <2>2. reg[t]["bx"] = f.reg["bx"] /\ b - 1 # b - 6
    BY <1>6, <1>7
  <2> QED BY <2>1, <2>2, <1>4, <1>10 DEF Total
<1>12. Innermost(arch, g, ip'[t], sp'[t], reg'[t], word'[t])
  BY <1>4, <1>8, <1>9, <1>11, Begins
<1>13. Chain(arch, Append(fs, g))
  <2>1. \A x \in Others(arch) : g.reg[x] = f.reg[x]
    BY <1>7, <1>9 DEF Others
  <2> QED BY <2>1, <1>3, <1>4, <1>9, ChainGrows DEF f, b
<1>14. /\ Append(fs, g) # <<>> /\ Len(Append(fs, g)) = n + 1 /\ Append(fs, g)[n + 1] = g
       /\ \A m \in 1 .. n : Append(fs, g)[m] = fs[m]
  BY <1>4, CallAppended DEF Chain
<1>15. Standing(arch, Append(fs, g), word'[t])
  <2>1. \A x \in Stack : x >= f.sp + 5 => word'[t][x] = word[t][x]
    <3>1. \A x \in Stack : x \in Int
      BY StubAssumption DEF Stack, Highest
    <3>2. \A x \in Stack : x >= f.sp + 5 => x # b - 1 /\ x # b - 6
      BY <3>1, <1>6
    <3> QED BY <3>2, <1>11
  <2>2. Standing(arch, fs, word'[t])
    <3>1. n <= MaxCalls
      BY <1>4, StubAssumption
    <3> QED BY <2>1, <3>1, <1>3, <1>4, StandingKept DEF f
  <2>3. /\ word'[t][b] = word[t][b] /\ word'[t][f.sp] = word[t][f.sp]
    <3>1. b # b - 1 /\ b # b - 6 /\ f.sp # b - 1 /\ f.sp # b - 6
      BY <1>6
    <3> QED BY <3>1, <1>10, <1>11
  <2>4. InOriginal(arch, f, word'[t]) /\ word'[t][Base(arch, f) - 1] = f.reg["bx"]
    BY <1>7, <1>11, <2>3 DEF InOriginal, b
  <2> SUFFICES ASSUME NEW m \in 1 .. (n + 1) - 1
               PROVE  /\ InOriginal(arch, fs[m], word'[t])
                      /\ word'[t][Base(arch, fs[m]) - 1] = fs[m].reg["bx"]
    BY <1>4, <1>14 DEF Standing
  <2>5. CASE m = n
    BY <2>4, <2>5 DEF f
  <2>6. CASE m \in 1 .. n - 1
    BY <2>2, <2>6 DEF Standing
  <2> QED BY <1>4, <2>5, <2>6
<1>16. Total(reg'[t], Registers(arch))
  BY <1>9 DEF FrameOK
<1>17. calls'[t] \in Nat /\ n + 1 <= calls'[t] /\ calls'[t] <= MaxCalls
  BY <1>4, <1>8, StubAssumption
<1>18. n + 1 = Len(Append(fs, g)) /\ g = Append(fs, g)[Len(Append(fs, g))]
  BY <1>14
<1> QED BY <1>9, <1>11, <1>12, <1>13, <1>14, <1>15, <1>16, <1>17, <1>18 DEF Now, Sane

LEMMA ReturnSane ==
  ASSUME StubInv, NEW t \in Threads, ReturnFrom(t)
  PROVE  Now(t)
<1> DEFINE fs == frames[t]
           n  == Len(fs)
           f  == fs[n]
           e  == fs[n - 1]
           new == Front(fs)
<1>1. ip[t] = Back
  BY DEF ReturnFrom
<1>2. /\ ip[t] \notin {Lost, User, Original, Again, Prolog, Postlog}
      /\ \A o : ip[t] # Stub(o)
  BY <1>1, Codes DEF Lost, User, Original, Again, Back, Prolog, Postlog, Stub
<1>3. fs # <<>>
  BY <1>2, Inside
<1>4. /\ Functional /\ arch \in Archs
      /\ calls[t] \in Nat /\ n \in Nat \ {0} /\ n <= calls[t] /\ calls[t] <= MaxCalls
      /\ Total(reg[t], Registers(arch)) /\ Total(word[t], Stack)
      /\ Chain(arch, fs) /\ Calls(fs) /\ Standing(arch, fs, word[t])
      /\ FrameOK(arch, f) /\ Roomy(f)
      /\ Innermost(arch, f, ip[t], sp[t], reg[t], word[t])
  BY <1>2, <1>3, Inside
<1>5. AtCaller(arch, f, ip[t], sp[t], reg[t])
  BY <1>2, <1>4, NotInCallback DEF Innermost, AtOriginal
<1>6. /\ Calls(new) /\ Len(new) = n - 1
      /\ n = 1 => new = <<>>
      /\ n # 1 => new # <<>>
      /\ \A m \in 1 .. n - 1 : new[m] = fs[m]
  BY <1>3, <1>4, CallRemoved
<1>7. frames'[t] = new /\ calls'[t] = calls[t]
  BY <1>4 DEF ReturnFrom, Functional, Total
<1> HIDE DEF f, e, new
<1>8. Chain(arch, new)
  <2>0. \A m \in 1 .. n - 1 : m \in 1 .. n /\ new[m] = fs[m]
    BY <1>4, <1>6
  <2>1. \A m \in 1 .. n - 1 : FrameOK(arch, new[m]) /\ new[m].sp >= -12 * (m - 1)
    <3>1. \A m \in 1 .. n : FrameOK(arch, fs[m]) /\ fs[m].sp >= -12 * (m - 1)
      BY <1>4 DEF Chain
    <3> QED BY <2>0, <3>1
  <2>2. \A m, l \in 1 .. n - 1 : m < l => new[l].sp + 6 <= Base(arch, new[m])
    <3>1. \A m, l \in 1 .. n : m < l => fs[l].sp + 6 <= Base(arch, fs[m])
      BY <1>4 DEF Chain
    <3> QED BY <2>0, <3>1
  <2>3. \A m \in 1 .. (n - 1) - 1 :
          /\ new[m + 1].sp = Base(arch, new[m]) - 6
          /\ \A x \in Others(arch) : new[m + 1].reg[x] = new[m].reg[x]
    <3> TAKE m \in 1 .. (n - 1) - 1
    <3>1. m \in 1 .. n - 1 /\ m + 1 \in 1 .. n - 1
      BY <1>4
    <3> QED BY <3>1, <1>4, <1>6 DEF Chain
  <2> QED BY <1>6, <2>1, <2>2, <2>3 DEF Chain
<1>9. Standing(arch, new, word[t])
  <2>1. \A m \in 1 .. (n - 1) - 1 : m \in 1 .. n - 1 /\ new[m] = fs[m]
    BY <1>4, <1>6
  <2> QED BY <2>1, <1>4, <1>6 DEF Standing
<1>10. n - 1 \in Nat /\ n - 1 <= calls[t]
  BY <1>4
<1>11. CASE n = 1
  <2>1. /\ ip'[t] = User /\ Total(reg'[t], Registers(arch)) /\ Total(word'[t], Stack)
    BY <1>4, <1>11 DEF ReturnFrom, Goto, Functional, Total
  <2>2. Standing(arch, new, word'[t])
    BY <1>6, <1>11 DEF Standing
  <2> QED BY <1>4, <1>6, <1>7, <1>8, <1>10, <1>11, <2>1, <2>2 DEF Now, Sane
<1>12. CASE n # 1
  <2>1. /\ ip'[t] = Again /\ sp'[t] = sp[t] + 5 /\ word'[t] = word[t]
        /\ reg'[t] = [reg[t] EXCEPT !["bx"] = word[t][sp[t] + 4]]
    <3>1. /\ ip' = [ip EXCEPT ![t] = Again] /\ sp' = [sp EXCEPT ![t] = @ + 5]
          /\ reg' = [reg EXCEPT ![t].bx = word[t][sp[t] + 4]] /\ word' = word
      BY <1>12 DEF ReturnFrom, Goto, Moves
    <3>2. t \in DOMAIN ip /\ t \in DOMAIN sp /\ t \in DOMAIN reg
      BY <1>4 DEF Functional, Total
    <3> QED BY <3>1, <3>2
  <2>2. n - 1 \in 1 .. n - 1 /\ (n - 1) + 1 = n /\ n - 1 \in 1 .. n
    <3>1. PICK m \in Nat \ {0} : m = n
      BY <1>4
    <3>2. m # 1
      BY <3>1, <1>12
    <3>3. m \in Int /\ m >= 2
      BY <3>2
    <3>4. m - 1 \in 1 .. m - 1 /\ (m - 1) + 1 = m /\ m - 1 \in 1 .. m
      BY <3>3
    <3> QED BY <3>1, <3>4
  <2>3. /\ InOriginal(arch, e, word[t]) /\ word[t][Base(arch, e) - 1] = e.reg["bx"]
    BY <1>4, <2>2 DEF Standing, e
  <2>4. f.sp = Base(arch, e) - 6 /\ (\A x \in Others(arch) : f.reg[x] = e.reg[x])
    BY <1>4, <2>2 DEF Chain, e, f
  <2>5. FrameOK(arch, e)
    BY <1>4, <2>2 DEF Chain, e
  <2>6. Base(arch, e) \in Int
    BY <1>4, <2>5, BaseOf
  <2>7. sp[t] = f.sp + 1 /\ \A x \in Others(arch) \cup {"bx"} : reg[t][x] = f.reg[x]
    BY <1>5 DEF AtCaller
  <2>8. sp[t] + 5 = Base(arch, e) /\ sp[t] + 4 = Base(arch, e) - 1
    BY <2>4, <2>6, <2>7
  <2>9. /\ "bx" \in Registers(arch) /\ "bx" \notin Others(arch)
        /\ Others(arch) \subseteq Registers(arch)
    BY DEF Registers, Others
  <2>10. /\ Total(reg'[t], Registers(arch))
         /\ \A x \in Others(arch) \cup {"bx"} : reg'[t][x] = e.reg[x]
    BY <1>4, <2>1, <2>3, <2>4, <2>7, <2>8, <2>9 DEF Total
  <2>11. AtOriginal(arch, e, ip'[t], sp'[t], reg'[t], word'[t])
    BY <2>1, <2>3, <2>8, <2>10 DEF AtOriginal
  <2>12. new[Len(new)] = e
    BY <1>6, <2>2 DEF e
  <2> QED BY <1>4, <1>6, <1>7, <1>8, <1>9, <1>10, <1>12, <2>1, <2>10, <2>11, <2>12
     DEF Now, Sane, Innermost
<1> QED BY <1>11, <1>12
(***************************************************************************)
(* The invariant holds throughout.                                         *)
(***************************************************************************)
LEMMA StubInit == Init => StubInv
<1> SUFFICES ASSUME Init PROVE StubInv
  OBVIOUS
<1>1. BufferInv
  BY BufferInit
<1>2. Functional
  BY DEF Init, Functional, Total
<1>3. ASSUME NEW t \in Threads PROVE ThreadInv(t)
  <2>1. /\ ip[t] = User /\ calls[t] = 0 /\ frames[t] = <<>>
        /\ Total(reg[t], Registers(arch)) /\ Total(word[t], Stack)
    BY DEF Init, Total
  <2>2. <<>> \in Seq({}) /\ Len(<<>>) = 0
    BY EmptySeq
  <2>3. Chain(arch, <<>>)
    <3>1. Calls(<<>>)
      BY <2>2, CallsAre
    <3>2. 1 .. Len(<<>>) = {} /\ 1 .. Len(<<>>) - 1 = {}
      BY <2>2
    <3> QED BY <3>1, <3>2 DEF Chain
  <2>4. Standing(arch, <<>>, word[t])
    BY <2>2 DEF Standing
  <2>5. 0 <= MaxCalls
    BY StubAssumption
  <2> QED BY <2>1, <2>2, <2>3, <2>4, <2>5 DEF ThreadInv, Sane
<1> QED BY <1>1, <1>2, <1>3 DEF StubInv

LEMMA ThreadStep ==
  ASSUME StubInv, NEW t \in Threads, Execute(t) \/ Around(t)
  PROVE  StubInv'
<1>1. Functional /\ BufferInv
  BY DEF StubInv
<1>2. BufferInv'
  <2>1. Next
    BY DEF Next
  <2> QED BY <1>1, <2>1, BufferStep
<1>3. /\ UNCHANGED install /\ Functional'
      /\ \A u \in Threads \ {t} :
           UNCHANGED <<ip[u], sp[u], reg[u], word[u], frames[u], calls[u]>>
  BY <1>1, Alone
<1>4. Now(t)
  BY ExecutedSane, CallSane, RecurseSane, ReturnSane, OriginalSane, InterceptSane DEF Around
<1>5. arch' = arch
  BY <1>3 DEF install
<1>6. ThreadInv(t)'
  BY <1>4, <1>5 DEF Now, ThreadInv
<1>7. ASSUME NEW u \in Threads \ {t} PROVE ThreadInv(u)'
  <2>1. ThreadInv(u)
    BY DEF StubInv
  <2> QED BY <2>1, <1>3, <1>5 DEF ThreadInv
<1> QED BY <1>2, <1>3, <1>6, <1>7 DEF StubInv

LEMMA StubStep == StubInv /\ [Next]_vars => StubInv'
<1> SUFFICES ASSUME StubInv, [Next]_vars PROVE StubInv'
  OBVIOUS
<1>1. BufferInv'
  BY BufferStep DEF StubInv
<1>2. CASE UNCHANGED <<arch, cpu, frames, calls>>
  <2>1. Functional' /\ \A t \in Threads : ThreadInv(t)'
    BY <1>2 DEF StubInv, Functional, ThreadInv, cpu
  <2> QED BY <1>1, <2>1 DEF StubInv
<1>3. ASSUME NEW t \in Threads, Execute(t) \/ Around(t)
      PROVE  StubInv'
  BY <1>3, ThreadStep
<1>4. InstallHook \/ WriteNext \/ UNCHANGED vars => UNCHANGED <<arch, cpu, frames, calls>>
  BY DEF InstallHook, WriteNext, vars, cpu
<1> QED BY <1>2, <1>3, <1>4 DEF Next

\* The original and the intercepts are entered, and the caller is come back to, only where
\* the invariant says (HookHandler64.h:132-194, HookHandler86.h).
LEMMA Positions ==
  ASSUME StubInv, NEW t \in Threads,
         ip[t] \in {Prolog, Postlog, Original, Back}
  PROVE  LET f == Last(frames[t]) IN
         /\ arch \in Archs /\ FrameOK(arch, f)
         /\ ip[t] \in {Prolog, Postlog} => InCallback(arch, f, ip[t], sp[t], reg[t], word[t])
         /\ ip[t] = Original => AtOriginal(arch, f, ip[t], sp[t], reg[t], word[t])
         /\ ip[t] = Back => AtCaller(arch, f, ip[t], sp[t], reg[t])
<1> DEFINE f == frames[t][Len(frames[t])]
<1>1. ip[t] # Lost /\ ip[t] # User /\ \A o : ip[t] # Stub(o)
  BY Codes DEF Lost, User, Original, Back, Prolog, Postlog, Stub
<1>2. frames[t] # <<>>
  BY <1>1, Inside
<1>3. arch \in Archs /\ FrameOK(arch, f) /\ Innermost(arch, f, ip[t], sp[t], reg[t], word[t])
  BY <1>1, <1>2, Inside
<1> HIDE DEF f
<1>4. Prolog # Original /\ Prolog # Back /\ Postlog # Original /\ Postlog # Back
      /\ Original # Back /\ Again # Prolog /\ Again # Postlog /\ Again # Back /\ Again # Original
  BY Codes DEF Original, Again, Back, Prolog, Postlog
<1>5. ip[t] \in {Prolog, Postlog} => InCallback(arch, f, ip[t], sp[t], reg[t], word[t])
  BY <1>3, <1>4 DEF Innermost, AtOriginal, AtCaller
<1>6. ip[t] = Original => AtOriginal(arch, f, ip[t], sp[t], reg[t], word[t])
  BY <1>1, <1>3, <1>4, NotInCallback DEF Innermost, AtCaller
<1>7. ip[t] = Back => AtCaller(arch, f, ip[t], sp[t], reg[t])
  BY <1>1, <1>3, <1>4, NotInCallback DEF Innermost, AtOriginal
<1> QED BY <1>3, <1>5, <1>6, <1>7 DEF f, Last

(***************************************************************************)
(* The XMM registers, when the intercepts leave them alone: what the       *)
(* caller put into them, until the original has run.                       *)
(***************************************************************************)
HasRun(c) == c.seen \notin {<<>>, <<Prolog>>}

Carried(i, x, fs) ==
  i \notin {Lost, User, Again} /\ fs # <<>> =>
    x = IF HasRun(fs[Len(fs)]) THEN Returned(fs[Len(fs)].n) ELSE fs[Len(fs)].xmm

VectorInv ==
  /\ Total(xmm, Threads)
  /\ ~simd => \A t \in Threads : Carried(ip[t], xmm[t], frames[t])

LEMMA AtIntercept ==
  ASSUME StubInv, NEW t \in Threads, ip[t] \in {Prolog, Postlog}, NEW f, f = Last(frames[t])
  PROVE  f.seen = IF ip[t] = Prolog THEN <<>> ELSE <<Prolog, Original>>
<1>1. InCallback(arch, f, ip[t], sp[t], reg[t], word[t]) /\ arch \in Archs
  BY Positions
<1>2. \A o : ip[t] # Stub(o)
  BY Codes DEF Stub, Prolog, Postlog
<1>3. \E b \in {0, 19, 99} : ip[t] = Intercept(b) /\ f.seen = Before(b)
  <2>1. CASE arch = "x64"
    BY <1>1, <1>2, <2>1 DEF InCallback, Half64, Middle64, Pushing64, Calling64, Called64,
       Popping64, Popped64
  <2>2. CASE arch = "x86"
    BY <1>1, <1>2, <2>2 DEF InCallback, Half86
  <2> QED BY <1>1, <2>1, <2>2 DEF Archs
<1>4. Prolog # Postlog
  BY Codes DEF Prolog, Postlog
<1> QED BY <1>3, <1>4 DEF Intercept, Before, First

\* A thread leaves the XMM registers of the others alone, and executes the callback with
\* its own as they are.
LEMMA AloneVector ==
  ASSUME Total(xmm, Threads), NEW t \in Threads, Execute(t) \/ Around(t)
  PROVE  /\ Total(xmm', Threads)
         /\ \A u \in Threads \ {t} : xmm'[u] = xmm[u]
         /\ Execute(t) => xmm' = xmm /\ frames' = frames /\ ip[t][2] = "stub"
BY DEF Execute, Around, ExecPush, ExecPop, ExecPusha, ExecPopa, ExecMove, ExecShift,
     ExecCall, ExecRet, ExecUnwritten, CallFunction, Recurse, ReturnFrom, RunOriginal,
     RunIntercept, Enters, Total, Runs

LEMMA InterceptVector ==
  ASSUME StubInv, VectorInv, ~simd, NEW t \in Threads, RunIntercept(t)
  PROVE  Carried(ip'[t], xmm'[t], frames'[t])
<1> DEFINE fs == frames[t]
           f  == fs[Len(fs)]
           g  == Passing(f, Append(f.seen, ip[t]))
<1>1. ip[t] \in {Prolog, Postlog} /\ xmm' = xmm /\ Sees(t, ip[t])
  BY DEF RunIntercept
<1>2. ip[t] \notin {Lost, User, Again}
  BY <1>1, Codes DEF Lost, User, Again, Prolog, Postlog
<1>3. fs # <<>> /\ Functional /\ Calls(fs) /\ FrameOK(arch, f)
  BY <1>2, Inside
<1>4. frames'[t] = Replaced(fs, g)
  BY <1>1, <1>3, Seeing
<1>5. f.seen = IF ip[t] = Prolog THEN <<>> ELSE <<Prolog, Original>>
  BY <1>1, AtIntercept DEF Last
<1>6. xmm[t] = IF HasRun(f) THEN Returned(f.n) ELSE f.xmm
  BY <1>2, <1>3 DEF VectorInv, Carried
<1> HIDE DEF f
<1>7. g.seen = Append(f.seen, ip[t]) /\ g.n = f.n /\ g.xmm = f.xmm
  <2>1. PICK v : v = Append(f.seen, ip[t])
    OBVIOUS
  <2>2. g = Passing(f, v)
    BY <2>1
  <2>3. FrameOK(arch, f)
    BY <1>3
  <2> HIDE DEF g
  <2>4. g.seen = v /\ g.n = f.n /\ g.xmm = f.xmm
    BY <2>2, <2>3, SeenMore
  <2> QED BY <2>1, <2>4
<1> HIDE DEF g
<1>8. HasRun(g) <=> HasRun(f)
  <2>1. CASE ip[t] = Prolog
    BY <1>5, <1>7, <2>1 DEF HasRun
  <2>2. CASE ip[t] # Prolog
    BY <1>5, <1>7, <2>2 DEF HasRun
  <2> QED BY <2>1, <2>2
<1>9. frames'[t][Len(frames'[t])] = g
  BY <1>3, <1>4, CallReplaced
<1> QED BY <1>1, <1>6, <1>7, <1>8, <1>9 DEF Carried

LEMMA OriginalVector ==
  ASSUME StubInv, Total(xmm, Threads), NEW t \in Threads, RunOriginal(t)
  PROVE  Carried(ip'[t], xmm'[t], frames'[t])
<1> DEFINE fs == frames[t]
           f  == fs[Len(fs)]
           g  == Passing(f, Append(f.seen, Original))
<1>1. ip[t] \in {Original, Again} /\ xmm'[t] = Returned(f.n) /\ Sees(t, Original)
  BY DEF RunOriginal, Total, Last
<1>2. /\ ip[t] \notin {Lost, User, Back, Prolog, Postlog} /\ \A o : ip[t] # Stub(o)
  BY <1>1, Codes DEF Lost, User, Original, Again, Back, Prolog, Postlog, Stub
<1>3. fs # <<>>
  BY <1>2, Inside
<1>4. /\ Functional /\ Calls(fs) /\ FrameOK(arch, f) /\ arch \in Archs
      /\ Innermost(arch, f, ip[t], sp[t], reg[t], word[t])
  BY <1>2, <1>3, Inside
<1>5. frames'[t] = Replaced(fs, g)
  BY <1>1, <1>4, Seeing
<1> HIDE DEF f
<1>6. AtOriginal(arch, f, ip[t], sp[t], reg[t], word[t])
  BY <1>2, <1>4, NotInCallback DEF Innermost, AtCaller
<1>7. f.seen \in {<<>>, <<Prolog>>}
  BY <1>6 DEF AtOriginal, InOriginal
<1>8. g.seen = Append(f.seen, Original) /\ g.n = f.n
  <2>1. PICK v : v = Append(f.seen, Original)
    OBVIOUS
  <2>2. g = Passing(f, v)
    BY <2>1
  <2>3. FrameOK(arch, f)
    BY <1>4
  <2> HIDE DEF g
  <2>4. g.seen = v /\ g.n = f.n
    BY <2>2, <2>3, SeenMore
  <2> QED BY <2>1, <2>4
<1> HIDE DEF g
<1>9. Prolog # Original
  BY Codes DEF Prolog, Original
<1>10. HasRun(g)
  <2>1. CASE f.seen = <<>>
    BY <1>8, <1>9, <2>1 DEF HasRun
  <2>2. CASE f.seen = <<Prolog>>
    BY <1>8, <2>2 DEF HasRun
  <2> QED BY <1>7, <2>1, <2>2
<1>11. frames'[t][Len(frames'[t])] = g
  BY <1>3, <1>4, <1>5, CallReplaced DEF g
<1> QED BY <1>1, <1>8, <1>10, <1>11 DEF Carried, f

LEMMA EnteredVector ==
  ASSUME Total(xmm, Threads), Functional, NEW t \in Threads, NEW fresh, NEW s,
         Enters(t, fresh, s), Calls(frames[t])
  PROVE  Carried(ip'[t], xmm'[t], frames'[t])
<1> DEFINE n == calls[t] + 1
<1>1. PICK r0 :
        frames'[t] = Append(frames[t], [n |-> n, sp |-> s, reg |-> r0, xmm |-> Held("xmm", n),
                                        hooked |-> installed, seen |-> <<>>])
  BY DEF Enters, Functional, Total
<1>2. xmm'[t] = Held("xmm", n)
  BY DEF Enters, Total
<1> HIDE DEF n
<1>3. PICK g : g = [n |-> n, sp |-> s, reg |-> r0, xmm |-> Held("xmm", n),
                    hooked |-> installed, seen |-> <<>>]
  OBVIOUS
<1>4. ~HasRun(g) /\ g.xmm = xmm'[t]
  BY <1>2, <1>3 DEF HasRun
<1>5. Append(frames[t], g)[Len(Append(frames[t], g))] = g
  <2>1. frames[t] \in Seq(ToSet(frames[t]))
    BY DEF Calls
  <2>2. frames[t] \in Seq(ToSet(frames[t]) \cup {g})
    BY <2>1
  <2> QED BY <2>2
<1> QED BY <1>1, <1>3, <1>4, <1>5 DEF Carried

LEMMA VectorStep == StubInv /\ VectorInv /\ [Next]_vars => VectorInv'
<1> SUFFICES ASSUME StubInv, VectorInv, [Next]_vars PROVE VectorInv'
  OBVIOUS
<1>1. CASE InstallHook \/ WriteNext \/ UNCHANGED vars
  <2>1. UNCHANGED <<simd, ip, xmm, frames>>
    BY <1>1 DEF InstallHook, WriteNext, vars, cpu
  <2> QED BY <2>1 DEF VectorInv
<1>2. ASSUME NEW t \in Threads, Execute(t) \/ Around(t) PROVE VectorInv'
  <2>1. Functional /\ Total(xmm, Threads)
    BY DEF StubInv, VectorInv
  <2>2. /\ UNCHANGED install
        /\ \A u \in Threads \ {t} : UNCHANGED <<ip[u], frames[u]>>
    BY <1>2, <2>1, Alone
  <2>3. /\ Total(xmm', Threads)
        /\ \A u \in Threads \ {t} : xmm'[u] = xmm[u]
        /\ Execute(t) => xmm' = xmm /\ frames' = frames /\ ip[t][2] = "stub"
    BY <1>2, <2>1, AloneVector
  <2>4. ASSUME ~simd PROVE Carried(ip'[t], xmm'[t], frames'[t])
    <3>1. CASE Execute(t)
      <4>1. ip[t] \notin {Lost, User, Again}
        BY <2>3, <3>1, Codes DEF Lost, User, Again
      <4> QED BY <2>3, <2>4, <3>1, <4>1 DEF VectorInv, Carried
    <3>2. CASE CallFunction(t) \/ Recurse(t)
      <4>1. ip[t] # Lost
        BY <3>2, Codes DEF CallFunction, Recurse, Lost, User, Original, Again
      <4>2. Calls(frames[t])
        BY <4>1, Inside
      <4>3. \E fresh, s : Enters(t, fresh, s)
        BY <3>2 DEF CallFunction, Recurse
      <4> QED BY <2>1, <4>2, <4>3, EnteredVector
    <3>3. CASE ReturnFrom(t)
      <4>1. ip'[t] \in {User, Again}
        BY <2>1, <3>3 DEF ReturnFrom, Goto, Functional, Total
      <4> QED BY <4>1 DEF Carried
    <3>4. CASE RunOriginal(t)
      BY <2>1, <3>4, OriginalVector
    <3>5. CASE RunIntercept(t)
      BY <2>4, <3>5, InterceptVector
    <3> QED BY <1>2, <3>1, <3>2, <3>3, <3>4, <3>5 DEF Around
  <2>5. ASSUME ~simd, NEW u \in Threads PROVE Carried(ip'[u], xmm'[u], frames'[u])
    BY <2>2, <2>3, <2>4, <2>5 DEF VectorInv
  <2>6. simd' = simd
    BY <2>2 DEF install
  <2> QED BY <2>3, <2>5, <2>6 DEF VectorInv
<1> QED BY <1>1, <1>2 DEF Next

LEMMA StubTransparent == StubInv /\ VectorInv => Transparent
<1> SUFFICES ASSUME StubInv, VectorInv, NEW t \in Threads, ip[t] = Back
             PROVE  LET c == Last(frames[t]) IN
                    /\ sp[t] = c.sp + 1 /\ reg[t].ax = Returned(c.n)
                    /\ ~simd => xmm[t] = Returned(c.n)
                    /\ \A r \in Registers(arch) \ Volatile(arch) : reg[t][r] = c.reg[r]
                    /\ c.seen = IF c.hooked THEN <<Prolog, Original, Postlog>> ELSE <<Original>>
  BY DEF Transparent
<1> DEFINE c == Last(frames[t])
<1>1. AtCaller(arch, c, ip[t], sp[t], reg[t])
  BY Positions
<1>2. ip[t] \notin {Lost, User, Again} /\ Prolog # Original
  BY Codes DEF Lost, User, Again, Back, Prolog, Original
<1>3. ~simd => xmm[t] = IF HasRun(c) THEN Returned(c.n) ELSE c.xmm
  BY <1>2, Inside DEF VectorInv, Carried, Last
<1> HIDE DEF c
<1>4. \A r \in Registers(arch) \ Volatile(arch) : r \in Others(arch) \cup {"bx"}
  BY DEF Others
<1>5. /\ sp[t] = c.sp + 1 /\ reg[t].ax = Returned(c.n)
      /\ \A r \in Registers(arch) \ Volatile(arch) : reg[t][r] = c.reg[r]
      /\ c.seen = IF c.hooked THEN <<Prolog, Original, Postlog>> ELSE <<Original>>
  BY <1>1, <1>4 DEF AtCaller
<1>6. HasRun(c)
  BY <1>2, <1>5 DEF HasRun
<1> QED BY <1>3, <1>5, <1>6 DEF c

LEMMA StubUndisturbed == StubInv /\ VectorInv => OriginalUndisturbed
<1> SUFFICES ASSUME StubInv, VectorInv, NEW t \in Threads, ip[t] = Original
             PROVE  LET c == Last(frames[t]) IN
                    /\ reg[t] = c.reg /\ (~simd => xmm[t] = c.xmm)
                    /\ c.seen = IF c.hooked THEN <<Prolog>> ELSE <<>>
  BY DEF OriginalUndisturbed
<1> DEFINE c == Last(frames[t])
<1>1. AtOriginal(arch, c, ip[t], sp[t], reg[t], word[t])
  BY Positions
<1>2. ip[t] \notin {Lost, User, Again} /\ Original # Again
  BY Codes DEF Lost, User, Again, Original
<1>3. ~simd => xmm[t] = IF HasRun(c) THEN Returned(c.n) ELSE c.xmm
  BY <1>2, Inside DEF VectorInv, Carried, Last
<1> HIDE DEF c
<1>4. reg[t] = c.reg /\ c.seen = IF c.hooked THEN <<Prolog>> ELSE <<>>
  BY <1>1, <1>2 DEF AtOriginal, InOriginal
<1> QED BY <1>3, <1>4 DEF c, HasRun

LEMMA StubAligned == StubInv => Aligned
<1> SUFFICES ASSUME StubInv, NEW t \in Threads
             PROVE  /\ arch = "x64" /\ ip[t] \in {Prolog, Original, Postlog} => sp[t] % 2 = 0
                    /\ ip[t] = Prolog  => Parameter(t) = Const("function")
                    /\ ip[t] = Postlog => Parameter(t) = Const("hook")
  BY DEF Aligned
<1> DEFINE c == Last(frames[t])
<1>1. ASSUME ip[t] = Original, arch = "x64" PROVE sp[t] % 2 = 0
  <2>1. AtOriginal(arch, c, ip[t], sp[t], reg[t], word[t]) /\ FrameOK(arch, c) /\ arch \in Archs
    BY <1>1, Positions
  <2> HIDE DEF c
  <2>2. sp[t] = Base(arch, c)
    BY <2>1 DEF AtOriginal
  <2> QED BY <1>1, <2>1, <2>2, BaseOf
<1>2. ASSUME ip[t] \in {Prolog, Postlog}
      PROVE  /\ arch = "x64" => sp[t] % 2 = 0
             /\ \E b \in {0, 19, 99} : ip[t] = Intercept(b) /\ Parameter(t) = Param(b)
  <2>1. /\ InCallback(arch, c, ip[t], sp[t], reg[t], word[t])
        /\ FrameOK(arch, c) /\ arch \in Archs
    BY <1>2, Positions
  <2> HIDE DEF c
  <2>2. \A o : ip[t] # Stub(o)
    BY <1>2, Codes DEF Stub, Prolog, Postlog
  <2>3. CASE arch = "x64"
    <3>1. PICK b \in {0, 99} : Calling64(c, b, ip[t], sp[t], reg[t], word[t])
      BY <2>1, <2>2, <2>3 DEF InCallback, Half64, Middle64, Pushing64, Called64, Popping64,
         Popped64
    <3>2. ip[t] = Intercept(b) /\ sp[t] = c.sp - 14 /\ reg[t]["cx"] = Param(b)
      BY <2>2, <3>1 DEF Calling64
    <3>3. c.sp \in Int /\ c.sp % 2 = 0
      BY <2>1, <2>3 DEF FrameOK
    <3>4. sp[t] % 2 = 0
      BY <3>2, <3>3
    <3>5. Parameter(t) = Param(b)
      BY <2>3, <3>2 DEF Parameter
    <3> QED BY <3>2, <3>4, <3>5
  <2>4. CASE arch = "x86"
    <3>1. PICK b \in {0, 19} : Half86(c, b, ip[t], sp[t], reg[t], word[t])
      BY <2>1, <2>4 DEF InCallback
    <3>2. ip[t] = Intercept(b) /\ word[t][sp[t] + 1] = Param(b)
      BY <2>2, <3>1 DEF Half86
    <3>3. Parameter(t) = Param(b)
      BY <2>4, <3>2 DEF Parameter
    <3> QED BY <2>4, <3>2, <3>3
  <2> QED BY <2>1, <2>3, <2>4 DEF Archs
<1>3. \A b \in {0, 19, 99} :
        /\ Intercept(b) = Prolog  => Param(b) = Const("function")
        /\ Intercept(b) = Postlog => Param(b) = Const("hook")
  <2>1. Prolog # Postlog
    BY Codes DEF Prolog, Postlog
  <2> QED BY <2>1 DEF Intercept, Param, First
<1> QED BY <1>1, <1>2, <1>3

LEMMA StubAlways == Spec => [](StubInv /\ VectorInv)
<1>1. Init => VectorInv
  BY DEF Init, VectorInv, Total, Carried
<1>2. (StubInv /\ VectorInv) /\ [Next]_vars => (StubInv /\ VectorInv)'
  BY StubStep, VectorStep
<1> QED BY StubInit, <1>1, <1>2, PTL DEF Spec

\* A caller finds what the original returned, the general registers it may rely on and its
\* stack pointer as without the hook, whatever the number of threads and of calls one inside
\* the other, and the intercepts have run around the original (HookHandler64.h:155-179); what
\* the original returned in an XMM register is there if the intercepts use none.
THEOREM CallsTransparent == Spec => []Transparent
BY StubAlways, StubTransparent, PTL

\* The original begins with the general registers (on x86 the flags too) the caller left
\* (HookHandler64.h:165-171), and with its XMM registers if the intercepts use none: the
\* callback does not save those (src/README.md:22).
THEOREM OriginalsUndisturbed == Spec => []OriginalUndisturbed
BY StubAlways, StubUndisturbed, PTL

\* On x64 every function around the callback is entered with an aligned stack, and each
\* intercept with its own parameter (HookHandler64.h:66-72, 165-178).
THEOREM EntriesAligned == Spec => []Aligned
BY StubAlways, StubAligned, PTL
=============================================================================
