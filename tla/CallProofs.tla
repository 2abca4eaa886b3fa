----------------------------- MODULE CallProofs -----------------------------
(***************************************************************************)
(* What a call may disturb, for any number of functions and registers and  *)
(* any depth of activations: the registers (CallConvention), the words of  *)
(* the stack (StackFrames) and the bytes of a frame (FrameLayout).         *)
(***************************************************************************)
EXTENDS CallConvention, StackFrames, FrameLayout, SequenceTheorems, TLAPS

-----------------------------------------------------------------------------
(***************************************************************************)
(* The registers, in programs that are Covering and return plainly.        *)
(***************************************************************************)

\* The $t registers each function and what it calls may write.
Covers(s, writes) ==
  /\ \A h \in Functions : s.regs[h] \cap T \subseteq writes[h]
  /\ \A c \in s.calls :
       /\ writes[c[2]] \subseteq writes[c[1]]
       /\ c[2] < c[1] /\ c[2] \in s.locals => writes[c[2]] \subseteq s.regs[c[2]]
Writes(s) == CHOOSE writes \in [Functions -> SUBSET T] : Covers(s, writes)

SavedSets == UNION {[D -> Nat] : D \in SUBSET S}
Activations ==
  [function : Functions, live : SUBSET Regs, kept : SUBSET Regs,
   callee_saved : SavedSets, left : BOOLEAN]

\* Type invariant of the registers and of the activations.
ConventionTypeOK ==
  /\ source \in Sources
  /\ translated \in 0 .. N
  /\ entered \subseteq Functions
  /\ registers_used \in [Functions -> SUBSET Regs]
  /\ saves \in [source.calls -> SUBSET T]
  /\ stack \in Seq(Activations)
  /\ holder \in [Regs -> Nat]

\* What is saved around call c of a function that is translated: every $t
\* register, or those of a function that is translated too.
Enough(c) ==
  \/ saves[c] = T
  \/ c[2] <= c[1] /\ c[2] \in source.locals /\ saves[c] = source.regs[c[2]] \cap T

Prepared ==
  /\ \A h \in 1 .. translated : registers_used[h] = source.regs[h]
  /\ \A h \in entered : h <= translated /\ h \in source.locals
  /\ \A c \in source.calls : c[1] <= translated => Enough(c)
  /\ stack # <<>> => translated = N

\* Function of the activation at depth d.
Fn(d) == stack[d].function

\* Activations follow the calls of the program, and only those that return
\* an expression have others above them once they executed OP_Leave.
Chained ==
  /\ \A d \in 1 .. Depth :
       /\ stack[d].callee_saved \in [source.regs[Fn(d)] \cap S -> Nat]
       /\ d < Depth /\ stack[d].left => Fn(d) \in source.expr
  /\ \A d \in 2 .. Depth :
       /\ <<Fn(d - 1), Fn(d)>> \in source.calls
       /\ stack[d].live \subseteq source.regs[Fn(d - 1)]
       /\ stack[d].kept = stack[d].live \cap saves[<<Fn(d - 1), Fn(d)>>]

\* A $t register the caller at depth d - 1 goes on to read, and has not
\* saved: nothing above it writes it.
CallerSide ==
  \A d \in 2 .. Depth : \A r \in (stack[d].live \cap T) \ stack[d].kept :
    /\ holder[r] = d - 1
    /\ \A e \in d .. Depth : r \notin Writes(source)[Fn(e)]

\* The activation at depth e has saved register r and not restored it.
Saves(e, r) == ~stack[e].left /\ r \in source.regs[Fn(e)] \cap S

\* An $s register the caller at depth d - 1 goes on to read: the first
\* activation above it that has saved the register, if any, has its value.
CalleeSide ==
  \A d \in 2 .. Depth : \A r \in stack[d].live \cap S :
    /\ (\A e \in d .. Depth : ~Saves(e, r)) => holder[r] = d - 1
    /\ \A e \in d .. Depth :
         Saves(e, r) /\ (\A c \in d .. e - 1 : ~Saves(c, r)) => stack[e].callee_saved[r] = d - 1

ConventionInv == ConventionTypeOK /\ Prepared /\ Chained /\ CallerSide /\ CalleeSide

-----------------------------------------------------------------------------
\* What the assumptions on programs give.
LEMMA RegistersSplit == S \cap T = {} /\ S \cup T = Regs /\ S \subseteq Regs /\ T \subseteq Regs
  BY DEF S, T

LEMMA ProgramType ==
  ASSUME NEW s \in Sources
  PROVE  /\ s.calls \subseteq Functions \X Functions
         /\ s.regs \in [Functions -> SUBSET Regs]
         /\ N \in Functions
  BY SourcesAssumption DEF Functions

LEMMA CallType ==
  ASSUME NEW s \in Sources, NEW c \in s.calls
  PROVE  c[1] \in Functions /\ c[2] \in Functions /\ c = <<c[1], c[2]>>
  BY ProgramType

LEMMA WritesCover ==
  ASSUME NEW s \in Sources, Covering(s)
  PROVE  Writes(s) \in [Functions -> SUBSET T] /\ Covers(s, Writes(s))
  BY DEF Covering, Covers, Writes

\* Taking the last element off a sequence leaves the others.
LEMMA FrontOf ==
  ASSUME NEW A, NEW s \in Seq(A), s # <<>>
  PROVE  /\ Front(s) \in Seq(A)
         /\ Len(s) \in Nat \ {0}
         /\ Len(Front(s)) = Len(s) - 1
         /\ \A d \in 1 .. Len(s) - 1 : Front(s)[d] = s[d]
<1>1. Len(s) \in Nat \ {0}
  BY EmptySeq, LenProperties
<1>2. Front(s) = SubSeq(s, 1, Len(s) - 1)
  BY DEF Front
<1>3. \A d \in 1 .. Len(s) - 1 : s[d] \in A
  BY <1>1, ElementOfSeq
<1>4. /\ Front(s) \in Seq(A)
      /\ Len(Front(s)) = IF 1 <= Len(s) - 1 THEN Len(s) - 1 - 1 + 1 ELSE 0
      /\ \A d \in 1 .. Len(s) - 1 - 1 + 1 : Front(s)[d] = s[1 + d - 1]
  <2> DEFINE n == Len(s) - 1
  <2>1. n \in Int /\ 1 \in Int /\ \A d \in 1 .. n : s[d] \in A
    BY <1>1, <1>3
  <2>2. Front(s) = SubSeq(s, 1, n)
    BY <1>2
  <2> HIDE DEF n
  <2>3. /\ Front(s) \in Seq(A)
        /\ Len(Front(s)) = IF 1 <= n THEN n - 1 + 1 ELSE 0
        /\ \A d \in 1 .. n - 1 + 1 : Front(s)[d] = s[1 + d - 1]
    BY <2>1, <2>2, SubSeqProperties
  <2> QED BY <2>3 DEF n
<1>5. \A d \in 1 .. Len(s) - 1 : 1 + d - 1 = d
  OBVIOUS
<1>6. 1 .. Len(s) - 1 - 1 + 1 = 1 .. Len(s) - 1
  BY <1>1
<1>7. Len(Front(s)) = Len(s) - 1
  <2>1. \A k \in Nat \ {0} : (IF 1 <= k - 1 THEN k - 1 - 1 + 1 ELSE 0) = k - 1
    OBVIOUS
  <2>2. Len(Front(s)) = IF 1 <= Len(s) - 1 THEN Len(s) - 1 - 1 + 1 ELSE 0
    BY <1>4
  <2> HIDE <1>4
  <2> QED BY <1>1, <2>1, <2>2
<1>8. ASSUME NEW d \in 1 .. Len(s) - 1 PROVE Front(s)[d] = s[d]
  <2>1. Front(s)[d] = s[1 + d - 1]
    BY <1>4, <1>6
  <2> QED BY <2>1, <1>5
<1> QED BY <1>1, <1>4, <1>7, <1>8
-----------------------------------------------------------------------------
LEMMA InitConvention == Init => ConventionInv
<1> SUFFICES ASSUME Init PROVE ConventionInv
  OBVIOUS
<1>1. ConventionTypeOK
  BY SourcesAssumption DEF Init, Begin, ConventionTypeOK, Functions
<1>2. Prepared
  <2>1. \A c \in source.calls : c[1] \in Functions
    BY ProgramType DEF Init
  <2> QED BY <2>1 DEF Init, Begin, Prepared, Functions
<1>3. Depth = 0
  BY DEF Init, Begin, Depth
<1>4. Chained /\ CallerSide /\ CalleeSide
  BY <1>3 DEF Chained, CallerSide, CalleeSide
<1> QED BY <1>1, <1>2, <1>4 DEF ConventionInv

\* Translating a function leaves the stack, still empty, as it is.
LEMMA TranslateInv == ASSUME ConventionInv, Translate PROVE ConventionInv'
<1> DEFINE h == translated + 1
<1>1. h \in Functions /\ translated \in Nat /\ N \in Nat
  BY SourcesAssumption DEF ConventionInv, ConventionTypeOK, Translate, Functions
<1>2. source.regs[h] \in SUBSET Regs /\ source.regs \in [Functions -> SUBSET Regs]
  BY <1>1, ProgramType DEF ConventionInv, ConventionTypeOK
<1>3. \A c \in source.calls : SavedAround(c[2], entered', registers_used') \in SUBSET T
  BY DEF SavedAround
<1>4. stack = <<>> /\ stack' = <<>> /\ source' = source
  BY <1>1 DEF ConventionInv, Prepared, Translate
<1>5. ConventionTypeOK'
  <2>1. translated' = h /\ entered' \subseteq entered \cup {h}
    BY DEF Translate
  <2>4. translated' \in 0 .. N
    BY <1>1, <2>1 DEF Functions
  <2>5. entered' \subseteq Functions
    BY <1>1, <2>1 DEF ConventionInv, ConventionTypeOK
  <2>2. registers_used' \in [Functions -> SUBSET Regs]
    BY <1>1, <1>2 DEF ConventionInv, ConventionTypeOK, Translate
  <2>3. saves' \in [source.calls -> SUBSET T]
    BY <1>3 DEF ConventionInv, ConventionTypeOK, Translate
  <2> QED BY <1>4, <2>2, <2>3, <2>4, <2>5 DEF ConventionInv, ConventionTypeOK, Translate
<1>6. \A g \in 1 .. translated' : registers_used'[g] = source.regs[g]
  <2> SUFFICES ASSUME NEW g \in 1 .. translated' PROVE registers_used'[g] = source.regs[g]
    OBVIOUS
  <2>1. g \in Functions /\ (g = h \/ g \in 1 .. translated)
    BY <1>1 DEF ConventionInv, ConventionTypeOK, Translate, Functions
  <2> QED BY <2>1 DEF ConventionInv, ConventionTypeOK, Prepared, Translate
<1>7. \A g \in entered' : g \in 1 .. translated' /\ g \in source.locals
  BY <1>1 DEF ConventionInv, ConventionTypeOK, Prepared, Translate, Functions
<1>8. ASSUME NEW c \in source.calls, c[1] <= translated' PROVE Enough(c)'
  <2>1. c[1] \in Functions /\ c[2] \in Functions
    BY CallType DEF ConventionInv, ConventionTypeOK
  <2>2. CASE c[1] # h
    <3>1. c[1] <= translated /\ saves'[c] = saves[c]
      BY <1>1, <1>8, <2>1, <2>2 DEF Translate, Functions
    <3> QED BY <1>4, <3>1 DEF ConventionInv, Prepared, Enough
  <2>3. CASE c[1] = h
    <3>1. saves'[c] = SavedAround(c[2], entered', registers_used')
      BY <2>3 DEF Translate
    <3>2. CASE c[2] \in entered'
      <4>1. saves'[c] = source.regs[c[2]] \cap T /\ c[2] <= c[1] /\ c[2] \in source.locals
        BY <1>1, <1>6, <1>7, <2>3, <3>1, <3>2 DEF SavedAround, Translate
      <4> QED BY <1>4, <4>1 DEF Enough
    <3>3. CASE c[2] \notin entered'
      BY <3>1, <3>3 DEF SavedAround, Enough
    <3> QED BY <3>2, <3>3
  <2> QED BY <2>2, <2>3
<1>9. Prepared'
  BY <1>4, <1>6, <1>7, <1>8 DEF Prepared
<1>10. Depth' = 0
  BY <1>4 DEF Depth
<1>11. Chained' /\ CallerSide' /\ CalleeSide'
  BY <1>10 DEF Chained, CallerSide, CalleeSide
<1> QED BY <1>5, <1>9, <1>11 DEF ConventionInv

-----------------------------------------------------------------------------
LEMMA StackType ==
  ASSUME ConventionTypeOK
  PROVE  /\ Depth \in Nat
         /\ stack # <<>> => Depth \in 1 .. Depth
         /\ \A d \in 1 .. Depth :
              /\ stack[d] \in Activations /\ Fn(d) \in Functions
              /\ stack[d].live \subseteq Regs /\ stack[d].kept \subseteq Regs
              /\ stack[d].left \in BOOLEAN
<1>1. stack \in Seq(Activations) /\ Depth \in Nat
  BY LenProperties DEF ConventionTypeOK, Depth
<1>2. stack # <<>> => Depth # 0
  BY <1>1, EmptySeq DEF Depth
<1>3. ASSUME NEW d \in 1 .. Depth
      PROVE  /\ stack[d] \in Activations /\ Fn(d) \in Functions
             /\ stack[d].live \subseteq Regs /\ stack[d].kept \subseteq Regs
             /\ stack[d].left \in BOOLEAN
  <2>1. stack[d] \in Activations
    BY <1>1, ElementOfSeq DEF Depth
  <2> QED BY <2>1 DEF Activations, Fn
<1> QED BY <1>1, <1>2, <1>3

\* Once there are activations every function is translated.
LEMMA AllTranslated ==
  ASSUME ConventionTypeOK, Prepared, translated = N
  PROVE  /\ \A h \in Functions : registers_used[h] = source.regs[h] /\ source.regs[h] \subseteq Regs
         /\ \A c \in source.calls : Enough(c)
<1>1. \A c \in source.calls : c[1] <= N
  BY CallType DEF ConventionTypeOK, Functions
<1> QED BY <1>1, ProgramType DEF ConventionTypeOK, Prepared, Functions

\* What a new activation is made of.
Fresh(a, h, live, kept) ==
  /\ a \in Activations
  /\ a.function = h /\ a.live = live /\ a.kept = kept /\ a.left = FALSE
  /\ a.callee_saved \in [source.regs[h] \cap S -> Nat]
  /\ \A r \in source.regs[h] \cap S : a.callee_saved[r] = holder[r]

LEMMA ActivationType ==
  ASSUME ConventionTypeOK, Prepared, translated = N,
         NEW h \in Functions, NEW live \in SUBSET Regs, NEW kept \in SUBSET Regs
  PROVE  Fresh(Activation(h, live, kept), h, live, kept)
<1> DEFINE cs == [r \in registers_used[h] \cap S |-> holder[r]]
           a == [function |-> h, live |-> live, kept |-> kept, callee_saved |-> cs, left |-> FALSE]
<1>1. Activation(h, live, kept) = a
  BY DEF Activation
<1>2. registers_used[h] = source.regs[h] /\ source.regs[h] \subseteq Regs
  BY AllTranslated
<1>3. cs \in [source.regs[h] \cap S -> Nat] /\ \A r \in source.regs[h] \cap S : cs[r] = holder[r]
  BY <1>2 DEF ConventionTypeOK
<1>4. cs \in SavedSets
  BY <1>3 DEF SavedSets
<1> HIDE DEF cs
<1>5. Fresh(a, h, live, kept)
  BY <1>3, <1>4 DEF Activations, Fresh
<1> QED BY <1>1, <1>5

LEMMA StartConvention == ASSUME ConventionInv, Start PROVE ConventionInv'
<1>1. translated = N /\ N \in Functions /\ ConventionTypeOK /\ Prepared
  BY ProgramType DEF ConventionInv, ConventionTypeOK, Start
<1> PICK a : a = Activation(N, {}, {})
  OBVIOUS
<1>2. Fresh(a, N, {}, {})
  <2>1. {} \in SUBSET Regs
    OBVIOUS
  <2> QED BY <1>1, <2>1, ActivationType
<1>3. stack' = <<a>> /\ UNCHANGED program /\ holder' \in [Regs -> Nat]
  BY DEF Start
<1>4. stack' \in Seq(Activations) /\ Depth' = 1 /\ stack'[1] = a
  BY <1>2, <1>3 DEF Depth, Fresh
<1>5. ConventionTypeOK'
  BY <1>1, <1>3, <1>4 DEF ConventionTypeOK, program
<1>6. Prepared'
  BY <1>1, <1>3 DEF Prepared, Enough, program
<1>7. Chained'
  <2>1. \A d \in 1 .. Depth' : d = 1 /\ ~(d < Depth')
    BY <1>4
  <2>2. \A d \in 2 .. Depth' : FALSE
    BY <1>4
  <2>3. source' = source /\ Fn(1)' = N /\ stack'[1].callee_saved \in [source.regs[N] \cap S -> Nat]
    BY <1>2, <1>3, <1>4 DEF Fn, Fresh, program
  <2> QED BY <2>1, <2>2, <2>3 DEF Chained
<1>8. CallerSide' /\ CalleeSide'
  BY <1>4 DEF CallerSide, CalleeSide
<1> QED BY <1>5, <1>6, <1>7, <1>8 DEF ConventionInv

\* A function only writes what it may write, and saves the $s registers it
\* writes; one that goes on after OP_Leave has none.
LEMMA WriteInv ==
  ASSUME ConventionInv, Covering(source), PlainReturns(source), NEW r \in Regs, Write(r)
  PROVE  ConventionInv'
<1>1. /\ ConventionTypeOK /\ Depth \in Nat /\ Depth \in 1 .. Depth /\ Depth' = Depth
      /\ stack' = stack /\ UNCHANGED program
      /\ r \in source.regs[Fn(Depth)]
      /\ stack[Depth].left => Fn(Depth) \in source.expr
  BY StackType DEF ConventionInv, Write, MayCompute, Running, Fn, Depth
<1>2. holder' \in [Regs -> Nat] /\ \A q \in Regs : q # r => holder'[q] = holder[q]
  BY <1>1 DEF Write, ConventionTypeOK
<1>3. r \in T => r \in Writes(source)[Fn(Depth)]
  BY <1>1, WritesCover, StackType DEF Covers, ConventionTypeOK
<1>4. r \in S => Saves(Depth, r)
  BY <1>1, StackType DEF PlainReturns, Saves
<1>5. ConventionTypeOK' /\ Prepared' /\ Chained'
  BY <1>1, <1>2 DEF ConventionInv, ConventionTypeOK, Prepared, Enough, Chained, Fn, program
<1>6. CallerSide'
  <2> SUFFICES ASSUME NEW d \in 2 .. Depth, NEW q \in (stack[d].live \cap T) \ stack[d].kept
               PROVE  /\ holder'[q] = d - 1
                      /\ \A e \in d .. Depth : q \notin Writes(source)[Fn(e)]
    BY <1>1 DEF CallerSide, Fn, program
  <2>1. holder[q] = d - 1 /\ \A e \in d .. Depth : q \notin Writes(source)[Fn(e)]
    BY DEF ConventionInv, CallerSide
  <2>2. q # r
    BY <1>1, <1>3, <2>1
  <2>3. q \in Regs
    BY RegistersSplit
  <2> QED BY <1>2, <2>1, <2>2, <2>3
<1>7. CalleeSide'
  <2>1. \A e, q : Saves(e, q)' <=> Saves(e, q)
    BY <1>1 DEF Saves, Fn, program
  <2> SUFFICES ASSUME NEW d \in 2 .. Depth, NEW q \in stack[d].live \cap S
               PROVE  /\ (\A e \in d .. Depth : ~Saves(e, q)) => holder'[q] = d - 1
                      /\ \A e \in d .. Depth :
                           Saves(e, q) /\ (\A c \in d .. e - 1 : ~Saves(c, q))
                             => stack[e].callee_saved[q] = d - 1
    BY <1>1, <2>1 DEF CalleeSide
  <2>2. q \in Regs /\ Depth \in d .. Depth
    BY <1>1, RegistersSplit
  <2> QED BY <1>2, <1>4, <2>2 DEF ConventionInv, CalleeSide
<1> QED BY <1>5, <1>6, <1>7 DEF ConventionInv

\* What is not saved around a call is not written by the callee, nor by what
\* it may call.
LEMMA UnsavedNotWritten ==
  ASSUME ConventionTypeOK, Prepared, translated = N, Covering(source),
         NEW c \in source.calls, NEW r \in (source.regs[c[1]] \cap T) \ saves[c]
  PROVE  r \notin Writes(source)[c[2]]
<1>1. Enough(c) /\ c[1] \in Functions /\ c[2] \in Functions
  BY AllTranslated, CallType DEF ConventionTypeOK
<1>2. c[2] <= c[1] /\ c[2] \in source.locals /\ saves[c] = source.regs[c[2]] \cap T
  BY <1>1 DEF Enough
<1>3. c[2] < c[1]
  BY <1>1, <1>2 DEF Functions
<1> QED BY <1>2, <1>3, WritesCover DEF Covers, ConventionTypeOK

LEMMA CallKeepsConvention ==
  ASSUME ConventionInv, Covering(source), PlainReturns(source),
         NEW h \in Functions, NEW live \in SUBSET Regs, Call(h, live)
  PROVE  ConventionInv'
<1> PICK c : c = <<Fn(Depth), h>>
  OBVIOUS
<1> PICK a : a = Activation(h, live, live \cap saves[c])
  OBVIOUS
<1> PICK n : n = Depth
  OBVIOUS
<1>1. /\ ConventionTypeOK /\ Prepared /\ translated = N /\ n \in Nat /\ n \in 1 .. n /\ n # 0
      /\ UNCHANGED program /\ UNCHANGED holder
      /\ c \in source.calls /\ c[1] = Fn(n) /\ c[2] = h /\ live \subseteq source.regs[Fn(n)]
      /\ \A r \in live : holder[r] = n
      /\ stack[n].left => Fn(n) \in source.expr
  <2>1. ConventionTypeOK /\ Prepared /\ translated = N
    BY DEF ConventionInv, Prepared, Call, MayCompute
  <2>2. n \in Nat /\ n \in 1 .. n /\ n # 0
    BY <2>1, StackType DEF Call, MayCompute
  <2>3. UNCHANGED program /\ UNCHANGED holder /\ c \in source.calls /\ c[1] = Fn(n) /\ c[2] = h
    BY DEF Call, Running, Fn
  <2>4. /\ live \subseteq source.regs[Fn(n)] /\ \A r \in live : holder[r] = n
        /\ stack[n].left => Fn(n) \in source.expr
    BY DEF Call, MayCompute, Running, Fn
  <2> QED BY <2>1, <2>2, <2>3, <2>4
<1>2. Fresh(a, h, live, live \cap saves[c])
  <2>1. live \cap saves[c] \in SUBSET Regs
    OBVIOUS
  <2> QED BY <1>1, <2>1, ActivationType
<1>3. stack' = Append(stack, a)
  BY DEF Call, Running, Fn
<1>4. /\ stack' \in Seq(Activations) /\ Depth' = n + 1
      /\ \A d \in 1 .. n : stack'[d] = stack[d] /\ Fn(d)' = Fn(d)
      /\ \A d : d = n + 1 => stack'[d] = a /\ Fn(d)' = h
  <2>1. stack \in Seq(Activations) /\ a \in Activations /\ a.function = h /\ n = Len(stack)
    BY <1>1, <1>2 DEF ConventionTypeOK, Fresh, Depth
  <2>2. /\ Append(stack, a) \in Seq(Activations)
        /\ Len(Append(stack, a)) = n + 1
        /\ \A d \in 1 .. n : Append(stack, a)[d] = stack[d]
        /\ Append(stack, a)[n + 1] = a
    BY <2>1, AppendProperties
  <2>3. \A d : d = n + 1 => stack'[d] = a
    BY <1>3, <2>2
  <2>4. \A d \in 1 .. n : stack'[d] = stack[d]
    BY <1>3, <2>2
  <2>5. stack' \in Seq(Activations) /\ Depth' = n + 1
    BY <1>3, <2>2 DEF Depth
  <2> QED BY <2>1, <2>3, <2>4, <2>5 DEF Fn
<1>5. ConventionTypeOK' /\ Prepared'
  BY <1>1, <1>4 DEF ConventionTypeOK, Prepared, Enough, program
<1>6. saves[c] \subseteq T
  BY <1>1 DEF ConventionTypeOK
<1>7. Chained'
  <2>1. ASSUME NEW d \in 1 .. n + 1
        PROVE  /\ stack'[d].callee_saved \in [source.regs[Fn(d)'] \cap S -> Nat]
               /\ d < n + 1 /\ stack'[d].left => Fn(d)' \in source.expr
    <3>1. CASE d = n + 1
      BY <1>2, <1>4, <3>1 DEF Fresh
    <3>2. CASE d = n
      BY <1>1, <1>4, <3>2 DEF ConventionInv, Chained
    <3>3. CASE d \in 1 .. n /\ d < n
      BY <1>1, <1>4, <3>3 DEF ConventionInv, Chained
    <3> QED BY <1>1, <3>1, <3>2, <3>3
  <2>2. ASSUME NEW d \in 2 .. n + 1
        PROVE  /\ <<Fn(d - 1)', Fn(d)'>> \in source.calls
               /\ stack'[d].live \subseteq source.regs[Fn(d - 1)']
               /\ stack'[d].kept = stack'[d].live \cap saves[<<Fn(d - 1)', Fn(d)'>>]
    <3>1. CASE d = n + 1
      <4>1. d - 1 = n
        BY <1>1, <3>1
      <4>2. stack'[d] = a /\ Fn(d)' = h
        BY <1>4, <3>1
      <4>3. a.live = live /\ a.kept = live \cap saves[c] /\ c = <<Fn(n), h>>
        BY <1>2 DEF Fresh
      <4>4. Fn(d - 1)' = Fn(n)
        BY <1>1, <1>4, <4>1
      <4> QED BY <1>1, <4>2, <4>3, <4>4
    <3>2. CASE d \in 2 .. n
      <4>1. d \in 1 .. n /\ d - 1 \in 1 .. n
        BY <1>1, <3>2
      <4> QED BY <1>4, <3>2, <4>1 DEF ConventionInv, Chained
    <3> QED BY <1>1, <3>1, <3>2
  <2> QED BY <1>1, <1>4, <2>1, <2>2 DEF Chained, program
<1>8. CallerSide'
  <2> SUFFICES ASSUME NEW d \in 2 .. n + 1, NEW r \in (stack'[d].live \cap T) \ stack'[d].kept
               PROVE  /\ holder[r] = d - 1
                      /\ \A e \in d .. n + 1 : r \notin Writes(source)[Fn(e)']
    BY <1>1, <1>4 DEF CallerSide, program
  <2>1. CASE d = n + 1
    <3>1. r \in (source.regs[Fn(n)] \cap T) \ saves[c] /\ r \in live
      BY <1>1, <1>2, <1>4, <2>1 DEF Fresh
    <3>2. r \notin Writes(source)[h]
      BY <1>1, <3>1, UnsavedNotWritten
    <3> QED BY <1>1, <1>4, <2>1, <3>1, <3>2
  <2>2. CASE d \in 2 .. n
    <3>1. d \in 1 .. n /\ n \in d .. n
      BY <1>1, <2>2
    <3>2. holder[r] = d - 1 /\ \A e \in d .. n : r \notin Writes(source)[Fn(e)]
      BY <1>4, <2>2, <3>1 DEF ConventionInv, CallerSide
    <3>3. Writes(source)[h] \subseteq Writes(source)[Fn(n)]
      BY <1>1, WritesCover DEF Covers, ConventionTypeOK
    <3>4. ASSUME NEW e \in d .. n + 1 PROVE r \notin Writes(source)[Fn(e)']
      <4>1. CASE e = n + 1
        BY <1>4, <3>1, <3>2, <3>3, <4>1
      <4>2. CASE e \in d .. n
        BY <1>1, <1>4, <2>2, <3>2, <4>2
      <4> QED BY <1>1, <2>2, <4>1, <4>2
    <3> QED BY <3>2, <3>4
  <2> QED BY <1>1, <2>1, <2>2
<1>9. CalleeSide'
  <2>1. \A e \in 1 .. n : \A r : Saves(e, r)' <=> Saves(e, r)
    BY <1>1, <1>4 DEF Saves, program
  <2>2. \A r : Saves(n + 1, r)' <=> r \in source.regs[h] \cap S
    BY <1>1, <1>2, <1>4 DEF Fresh, Saves, program
  <2> SUFFICES ASSUME NEW d \in 2 .. n + 1, NEW r \in stack'[d].live \cap S
               PROVE  /\ (\A e \in d .. n + 1 : ~Saves(e, r)') => holder[r] = d - 1
                      /\ \A e \in d .. n + 1 :
                           Saves(e, r)' /\ (\A b \in d .. e - 1 : ~Saves(b, r)')
                             => stack'[e].callee_saved[r] = d - 1
    BY <1>1, <1>4 DEF CalleeSide
  <2>3. CASE d = n + 1
    <3>1. d - 1 = n
      BY <1>1, <2>3
    <3>2. stack'[d] = a
      BY <1>4, <2>3
    <3>3. /\ a.live = live
          /\ \A q \in source.regs[h] \cap S : a.callee_saved[q] = holder[q]
      BY <1>2 DEF Fresh
    <3>4. holder[r] = n
      BY <1>1, <3>2, <3>3
    <3>5. ASSUME NEW e \in d .. n + 1, Saves(e, r)' PROVE stack'[e].callee_saved[r] = n
      <4>1. e = n + 1
        BY <1>1, <2>3
      <4>2. stack'[e] = a /\ r \in source.regs[h] \cap S
        BY <1>4, <2>2, <3>5, <4>1
      <4> QED BY <3>3, <3>4, <4>2
    <3> QED BY <3>1, <3>4, <3>5
  <2>4. CASE d \in 2 .. n
    <3>1. /\ (\A e \in d .. n : ~Saves(e, r)) => holder[r] = d - 1
          /\ \A e \in d .. n :
               Saves(e, r) /\ (\A b \in d .. e - 1 : ~Saves(b, r)) => stack[e].callee_saved[r] = d - 1
      <4>1. r \in stack[d].live \cap S
        <5>1. d \in 1 .. n
          BY <1>1, <2>4
        <5> QED BY <1>4, <2>4, <5>1
      <4> QED BY <2>4, <4>1 DEF ConventionInv, CalleeSide
    <3>2. \A e \in d .. n : e \in 1 .. n /\ e \in d .. n + 1
      BY <1>1, <2>4
    <3>3. (\A e \in d .. n + 1 : ~Saves(e, r)') => holder[r] = d - 1
      BY <2>1, <3>1, <3>2
    <3>4. ASSUME NEW e \in d .. n + 1, Saves(e, r)', \A b \in d .. e - 1 : ~Saves(b, r)'
          PROVE  stack'[e].callee_saved[r] = d - 1
      <4>1. \A b \in d .. e - 1 : b \in 1 .. n
        BY <1>1, <2>4
      <4>2. \A b \in d .. e - 1 : ~Saves(b, r)
        BY <2>1, <3>4, <4>1
      <4>3. CASE e \in d .. n
        <5>1. e \in 1 .. n
          BY <3>2, <4>3
        <5> QED BY <1>4, <2>1, <3>1, <3>4, <4>2, <4>3, <5>1
      <4>4. CASE e = n + 1
        <5>1. e - 1 = n
          BY <1>1, <4>4
        <5>2. holder[r] = d - 1
          BY <3>1, <4>2, <5>1
        <5> QED BY <1>2, <1>4, <2>2, <3>4, <4>4, <5>2, ZenonT(60) DEF Fresh
      <4> QED BY <1>1, <2>4, <4>3, <4>4
    <3> QED BY <3>3, <3>4
  <2> QED BY <1>1, <2>3, <2>4
<1> QED BY <1>5, <1>7, <1>8, <1>9 DEF ConventionInv

\* OP_Leave gives the $s registers back the values they had at the entry.
LEMMA LeaveKeepsConvention == ASSUME ConventionInv, Leave PROVE ConventionInv'
<1> PICK n : n = Depth
  OBVIOUS
<1> PICK own : own = source.regs[Fn(n)] \cap S
  OBVIOUS
<1>1. /\ ConventionTypeOK /\ n \in Nat /\ n \in 1 .. n /\ UNCHANGED program
      /\ stack' = [stack EXCEPT ![n].left = TRUE] /\ stack[n].left = FALSE
      /\ stack[n].callee_saved \in [own -> Nat]
  <2>1. ConventionTypeOK /\ stack # <<>> /\ UNCHANGED program /\ ~stack[n].left
        /\ stack' = [stack EXCEPT ![n].left = TRUE]
    BY DEF ConventionInv, Leave, Running
  <2>2. n \in Nat /\ n \in 1 .. n /\ stack[n].left \in BOOLEAN
    BY <2>1, StackType
  <2>3. stack[n].callee_saved \in [own -> Nat]
    BY <2>2 DEF ConventionInv, Chained
  <2> QED BY <2>1, <2>2, <2>3
<1>2. /\ holder' \in [Regs -> Nat]
      /\ \A r \in own : holder'[r] = stack[n].callee_saved[r]
      /\ \A r \in Regs \ own : holder'[r] = holder[r]
  <2>1. DOMAIN stack[n].callee_saved = own /\ own \subseteq Regs
    BY <1>1, RegistersSplit
  <2>2. holder' = [r \in Regs |-> IF r \in own THEN stack[n].callee_saved[r] ELSE holder[r]]
    BY <2>1 DEF Leave, Running
  <2> QED BY <1>1, <2>1, <2>2 DEF ConventionTypeOK
<1>3. stack' \in Seq(Activations) /\ Depth' = n
  <2>1. [stack[n] EXCEPT !.left = TRUE] \in Activations
    BY <1>1, StackType DEF Activations
  <2>2. stack \in Seq(Activations) /\ n \in 1 .. Len(stack)
    BY <1>1 DEF ConventionTypeOK, Depth
  <2>3. stack' = [stack EXCEPT ![n] = [stack[n] EXCEPT !.left = TRUE]]
    BY <1>1
  <2>4. stack' \in Seq(Activations) /\ Len(stack') = Len(stack)
    BY <2>1, <2>2, <2>3, ExceptSeq
  <2> QED BY <2>4 DEF Depth
<1>4. \A d \in 1 .. n :
        /\ Fn(d)' = Fn(d) /\ stack'[d].live = stack[d].live /\ stack'[d].kept = stack[d].kept
        /\ stack'[d].callee_saved = stack[d].callee_saved
        /\ d # n => stack'[d].left = stack[d].left
        /\ d = n => stack'[d].left = TRUE
  <2> SUFFICES ASSUME NEW d \in 1 .. n
               PROVE  /\ stack'[d].function = stack[d].function
                      /\ stack'[d].live = stack[d].live /\ stack'[d].kept = stack[d].kept
                      /\ stack'[d].callee_saved = stack[d].callee_saved
                      /\ d # n => stack'[d].left = stack[d].left
                      /\ d = n => stack'[d].left = TRUE
    BY DEF Fn
  <2>1. d \in DOMAIN stack /\ n \in DOMAIN stack
    BY <1>1, LenProperties DEF ConventionTypeOK, Depth
  <2>2. CASE d # n
    <3>1. stack'[d] = stack[d]
      BY <1>1, <2>1, <2>2
    <3> QED BY <2>2, <3>1
  <2>3. CASE d = n
    <3>1. stack'[d] = [stack[d] EXCEPT !.left = TRUE] /\ stack[d] \in Activations
      BY <1>1, <2>1, <2>3, StackType
    <3> QED BY <2>3, <3>1 DEF Activations
  <2> QED BY <2>2, <2>3
<1>5. ConventionTypeOK' /\ Prepared'
  BY <1>1, <1>2, <1>3 DEF ConventionInv, ConventionTypeOK, Prepared, Enough, Leave, program
<1>6. \A d \in 2 .. n : d \in 1 .. n /\ d - 1 \in 1 .. n
  BY <1>1
<1>7. Chained'
  <2>1. ASSUME NEW d \in 1 .. n
        PROVE  /\ stack'[d].callee_saved \in [source.regs[Fn(d)'] \cap S -> Nat]
               /\ d < n /\ stack'[d].left => Fn(d)' \in source.expr
    <3>1. /\ stack[d].callee_saved \in [source.regs[Fn(d)] \cap S -> Nat]
          /\ d < n /\ stack[d].left => Fn(d) \in source.expr
      BY DEF ConventionInv, Chained
    <3>2. d < n => d # n
      BY <1>1
    <3> QED BY <1>4, <3>1, <3>2
  <2>2. \A d \in 2 .. n :
          /\ <<Fn(d - 1)', Fn(d)'>> \in source.calls
          /\ stack'[d].live \subseteq source.regs[Fn(d - 1)']
          /\ stack'[d].kept = stack'[d].live \cap saves[<<Fn(d - 1)', Fn(d)'>>]
    BY <1>4, <1>6 DEF ConventionInv, Chained
  <2> QED BY <1>1, <1>3, <2>1, <2>2 DEF Chained, program
<1>8. CallerSide'
  <2> SUFFICES ASSUME NEW d \in 2 .. n, NEW r \in (stack[d].live \cap T) \ stack[d].kept
               PROVE  /\ holder'[r] = d - 1
                      /\ \A e \in d .. n : r \notin Writes(source)[Fn(e)']
    BY <1>1, <1>3, <1>4, <1>6 DEF CallerSide, program
  <2>1. holder[r] = d - 1 /\ \A e \in d .. n : r \notin Writes(source)[Fn(e)] /\ e \in 1 .. n
    BY <1>1 DEF ConventionInv, CallerSide
  <2>2. r \in Regs \ own
    BY RegistersSplit
  <2> QED BY <1>2, <1>4, <2>1, <2>2
<1>9. CalleeSide'
  <2>1. ASSUME NEW e \in 1 .. n, NEW r PROVE Saves(e, r)' <=> e # n /\ Saves(e, r)
    <3>1. Saves(e, r)' <=> ~stack'[e].left /\ r \in source.regs[Fn(e)'] \cap S
      BY <1>1 DEF Saves, program
    <3>2. Saves(e, r) <=> ~stack[e].left /\ r \in source.regs[Fn(e)] \cap S
      BY DEF Saves
    <3>3. Fn(e)' = Fn(e)
      BY <1>4
    <3>4. CASE e = n
      BY <1>4, <3>1, <3>4
    <3>5. CASE e # n
      BY <1>4, <3>1, <3>2, <3>3, <3>5
    <3> QED BY <3>4, <3>5
  <2> SUFFICES ASSUME NEW d \in 2 .. n, NEW r \in stack[d].live \cap S
               PROVE  /\ (\A e \in d .. n : ~Saves(e, r)') => holder'[r] = d - 1
                      /\ \A e \in d .. n :
                           Saves(e, r)' /\ (\A b \in d .. e - 1 : ~Saves(b, r)')
                             => stack'[e].callee_saved[r] = d - 1
    BY <1>1, <1>3, <1>4, <1>6 DEF CalleeSide
  <2>2. /\ (\A e \in d .. n : ~Saves(e, r)) => holder[r] = d - 1
        /\ \A e \in d .. n :
             Saves(e, r) /\ (\A b \in d .. e - 1 : ~Saves(b, r)) => stack[e].callee_saved[r] = d - 1
    BY DEF ConventionInv, CalleeSide
  <2>3. /\ n \in d .. n /\ \A e \in d .. n : e \in 1 .. n
        /\ \A e \in d .. n : \A b \in d .. e - 1 : b \in 1 .. n /\ b # n /\ b \in d .. n
    BY <1>1
  <2>4. ASSUME \A e \in d .. n : ~Saves(e, r)' PROVE holder'[r] = d - 1
    <3>1. \A e \in d .. n : e # n => ~Saves(e, r)
      BY <2>1, <2>3, <2>4
    <3>2. Saves(n, r) <=> r \in own
      BY <1>1 DEF Saves
    <3>3. CASE r \in own
      <4>1. \A b \in d .. n - 1 : ~Saves(b, r)
        BY <2>3, <3>1
      <4> QED BY <1>2, <2>2, <2>3, <3>2, <3>3, <4>1
    <3>4. CASE r \notin own
      <4>1. r \in Regs \ own
        BY <3>4, RegistersSplit
      <4> QED BY <1>2, <2>2, <3>1, <3>2, <3>4, <4>1
    <3> QED BY <3>3, <3>4
  <2>5. ASSUME NEW e \in d .. n, Saves(e, r)', \A b \in d .. e - 1 : ~Saves(b, r)'
        PROVE  stack'[e].callee_saved[r] = d - 1
    <3>1. Saves(e, r) /\ \A b \in d .. e - 1 : ~Saves(b, r)
      BY <2>1, <2>3, <2>5
    <3> QED BY <1>4, <2>2, <2>3, <3>1
  <2> QED BY <2>4, <2>5
<1> QED BY <1>5, <1>7, <1>8, <1>9 DEF ConventionInv

\* A return loads $t registers of the caller: what it calls writes none of
\* those an activation below still reads.
LEMMA ReturnKeepsConvention == ASSUME ConventionInv, Covering(source), Return PROVE ConventionInv'
<1> PICK n : n = Depth
  OBVIOUS
<1>1. /\ ConventionTypeOK /\ Prepared /\ n \in Nat /\ n \in 1 .. n /\ n # 0 /\ UNCHANGED program
      /\ stack # <<>> /\ stack' = Front(stack) /\ stack[n].left
  BY StackType DEF ConventionInv, Return, Running
<1>2. /\ stack' \in Seq(Activations) /\ Depth' = n - 1
      /\ \A d \in 1 .. n - 1 : stack'[d] = stack[d] /\ Fn(d)' = Fn(d)
  BY <1>1, FrontOf DEF ConventionTypeOK, Depth, Fn
<1>3. /\ holder' \in [Regs -> Nat]
      /\ \A r \in Regs \ stack[n].kept : holder'[r] = holder[r]
  BY <1>1 DEF Return, Running, ConventionTypeOK
<1>4. ConventionTypeOK' /\ Prepared'
  BY <1>1, <1>2, <1>3 DEF ConventionTypeOK, Prepared, Enough, program
<1>5. \A d \in 2 .. n - 1 : d \in 1 .. n - 1 /\ d - 1 \in 1 .. n - 1 /\ d \in 2 .. n /\ n - 1 \in d .. n /\ n \in 2 .. n
  BY <1>1
<1>6. Chained'
  <2>1. ASSUME NEW d \in 1 .. n - 1
        PROVE  /\ stack'[d].callee_saved \in [source.regs[Fn(d)'] \cap S -> Nat]
               /\ d < n - 1 /\ stack'[d].left => Fn(d)' \in source.expr
    <3>1. d \in 1 .. n /\ d < n
      BY <1>1
    <3>2. /\ stack[d].callee_saved \in [source.regs[Fn(d)] \cap S -> Nat]
          /\ stack[d].left => Fn(d) \in source.expr
      BY <3>1 DEF ConventionInv, Chained
    <3> QED BY <1>2, <3>2
  <2>2. \A d \in 2 .. n - 1 :
          /\ <<Fn(d - 1)', Fn(d)'>> \in source.calls
          /\ stack'[d].live \subseteq source.regs[Fn(d - 1)']
          /\ stack'[d].kept = stack'[d].live \cap saves[<<Fn(d - 1)', Fn(d)'>>]
    BY <1>2, <1>5 DEF ConventionInv, Chained
  <2> QED BY <1>1, <1>2, <2>1, <2>2 DEF Chained, program
<1>7. n \in 2 .. n => stack[n].kept \subseteq source.regs[Fn(n - 1)] \cap T
  <2> SUFFICES ASSUME n \in 2 .. n PROVE stack[n].kept \subseteq source.regs[Fn(n - 1)] \cap T
    OBVIOUS
  <2>1. /\ <<Fn(n - 1), Fn(n)>> \in source.calls /\ stack[n].live \subseteq source.regs[Fn(n - 1)]
        /\ stack[n].kept = stack[n].live \cap saves[<<Fn(n - 1), Fn(n)>>]
    BY DEF ConventionInv, Chained
  <2> QED BY <1>1, <2>1 DEF ConventionTypeOK
<1>8. CallerSide'
  <2> SUFFICES ASSUME NEW d \in 2 .. n - 1, NEW r \in (stack[d].live \cap T) \ stack[d].kept
               PROVE  /\ holder'[r] = d - 1
                      /\ \A e \in d .. n - 1 : r \notin Writes(source)[Fn(e)']
    BY <1>1, <1>2, <1>5 DEF CallerSide, program
  <2>1. holder[r] = d - 1 /\ \A e \in d .. n : r \notin Writes(source)[Fn(e)]
    BY <1>5 DEF ConventionInv, CallerSide
  <2>2. source.regs[Fn(n - 1)] \cap T \subseteq Writes(source)[Fn(n - 1)]
    <3>1. Fn(n - 1) \in Functions
      BY <1>1, <1>5, StackType
    <3> QED BY <1>1, <3>1, WritesCover DEF Covers, ConventionTypeOK
  <2>3. r \in Regs \ stack[n].kept
    BY <1>5, <1>7, <2>1, <2>2, RegistersSplit
  <2>4. \A e \in d .. n - 1 : e \in d .. n /\ e \in 1 .. n - 1
    BY <1>1
  <2> QED BY <1>2, <1>3, <2>1, <2>3, <2>4
<1>9. CalleeSide'
  <2>1. \A e \in 1 .. n - 1 : \A r : Saves(e, r)' <=> Saves(e, r)
    BY <1>1, <1>2 DEF Saves, program
  <2> SUFFICES ASSUME NEW d \in 2 .. n - 1, NEW r \in stack[d].live \cap S
               PROVE  /\ (\A e \in d .. n - 1 : ~Saves(e, r)') => holder'[r] = d - 1
                      /\ \A e \in d .. n - 1 :
                           Saves(e, r)' /\ (\A b \in d .. e - 1 : ~Saves(b, r)')
                             => stack'[e].callee_saved[r] = d - 1
    BY <1>1, <1>2, <1>5 DEF CalleeSide
  <2>2. /\ (\A e \in d .. n : ~Saves(e, r)) => holder[r] = d - 1
        /\ \A e \in d .. n :
             Saves(e, r) /\ (\A b \in d .. e - 1 : ~Saves(b, r)) => stack[e].callee_saved[r] = d - 1
    BY <1>5 DEF ConventionInv, CalleeSide
  <2>3. /\ \A e \in d .. n - 1 : e \in 1 .. n - 1 /\ e \in d .. n
        /\ \A e \in d .. n - 1 : \A b \in d .. e - 1 : b \in 1 .. n - 1
        /\ \A e \in d .. n : e = n \/ e \in d .. n - 1
    BY <1>1
  <2>4. ~Saves(n, r) /\ r \in Regs \ stack[n].kept
    BY <1>1, <1>5, <1>7, RegistersSplit DEF Saves
  <2>5. (\A e \in d .. n - 1 : ~Saves(e, r)') => holder'[r] = d - 1
    BY <1>3, <2>1, <2>2, <2>3, <2>4
  <2>6. ASSUME NEW e \in d .. n - 1, Saves(e, r)', \A b \in d .. e - 1 : ~Saves(b, r)'
        PROVE  stack'[e].callee_saved[r] = d - 1
    BY <1>2, <2>1, <2>2, <2>3, <2>6
  <2> QED BY <2>5, <2>6
<1> QED BY <1>4, <1>6, <1>8, <1>9 DEF ConventionInv

-----------------------------------------------------------------------------
LEMMA StepKeepsConvention ==
  ASSUME ConventionInv, Covering(source), PlainReturns(source), [Next]_vars
  PROVE  ConventionInv'
<1>1. CASE Translate
  BY <1>1, TranslateInv
<1>2. CASE Start
  BY <1>2, StartConvention
<1>3. CASE \E r \in Regs : Write(r)
  BY <1>3, WriteInv
<1>4. CASE \E h \in Functions, live \in SUBSET Regs : Call(h, live)
  BY <1>4, CallKeepsConvention
<1>5. CASE Leave
  BY <1>5, LeaveKeepsConvention
<1>6. CASE Return
  BY <1>6, ReturnKeepsConvention
<1>7. CASE UNCHANGED vars
  <2>1. UNCHANGED <<source, translated, entered, registers_used, saves, stack, holder>>
    BY <1>7 DEF vars
  <2>2. ConventionTypeOK' /\ Prepared'
    BY <2>1 DEF ConventionInv, ConventionTypeOK, Prepared, Enough
  <2>3. Depth' = Depth /\ (\A d : Fn(d)' = Fn(d)) /\ \A e, r : Saves(e, r)' <=> Saves(e, r)
    BY <2>1 DEF Depth, Fn, Saves
  <2>4. Chained'
    BY <2>1, <2>3 DEF ConventionInv, Chained
  <2>5. CallerSide'
    BY <2>1, <2>3 DEF ConventionInv, CallerSide
  <2>6. CalleeSide'
    BY <2>1, <2>3 DEF ConventionInv, CalleeSide
  <2> QED BY <2>2, <2>4, <2>5, <2>6 DEF ConventionInv
<1> QED BY <1>1, <1>2, <1>3, <1>4, <1>5, <1>6, <1>7 DEF Next

\* Only a return makes the stack shorter.
LEMMA OnlyReturnPops ==
  ASSUME ConventionInv, [Next]_vars, Depth > 1, Len(stack') < Depth
  PROVE  Return
<1>1. ConventionTypeOK /\ Depth \in Nat /\ stack \in Seq(Activations) /\ stack # <<>>
  <2>1. ConventionTypeOK /\ Depth \in Nat /\ stack \in Seq(Activations)
    BY StackType DEF ConventionInv, ConventionTypeOK
  <2>2. CASE stack = <<>>
    BY <2>2 DEF Depth
  <2> QED BY <2>1, <2>2
<1>2. stack' # stack
  BY <1>1 DEF Depth
<1>3. ~Translate /\ ~Start /\ ~(\E r \in Regs : Write(r)) /\ ~(UNCHANGED vars)
  BY <1>1, <1>2 DEF Translate, Start, Write, vars
<1>4. ~Leave
  <2> SUFFICES ASSUME Leave PROVE FALSE
    OBVIOUS
  <2>1. stack' = [stack EXCEPT ![Depth] = [stack[Depth] EXCEPT !.left = TRUE]]
    BY DEF Leave
  <2>2. DOMAIN stack = 1 .. Depth /\ DOMAIN stack' = DOMAIN stack
    BY <1>1, <2>1, LenProperties DEF Depth
  <2>3. Depth \in 1 .. Len(stack) /\ stack[Depth] \in Activations
    BY <1>1, StackType, EmptySeq DEF Depth
  <2>4. [stack[Depth] EXCEPT !.left = TRUE] \in Activations
    BY <2>3 DEF Activations
  <2>5. Len(stack') = Len(stack)
    BY <1>1, <2>1, <2>3, <2>4, ExceptSeq
  <2> QED BY <1>1, <2>5 DEF Depth
<1>5. ASSUME NEW h \in Functions, NEW live \in SUBSET Regs, Call(h, live) PROVE FALSE
  <2> PICK a : a = Activation(h, live, live \cap saves[<<Running.function, h>>])
    OBVIOUS
  <2>1. Running.function \in Functions /\ translated = N /\ Prepared
    BY <1>1, StackType DEF ConventionInv, Prepared, Running, Fn
  <2>2. live \cap saves[<<Running.function, h>>] \in SUBSET Regs
    OBVIOUS
  <2>3. a \in Activations
    BY <1>1, <2>1, <2>2, ActivationType DEF Fresh
  <2>4. stack' = Append(stack, a)
    BY <1>5 DEF Call
  <2>5. Len(stack') = Len(stack) + 1
    BY <1>1, <2>3, <2>4, AppendProperties
  <2> QED BY <1>1, <2>5 DEF Depth
<1> QED BY <1>3, <1>4, <1>5 DEF Next

LEMMA ReturnKeeps ==
  ASSUME ConventionInv, Return, Depth > 1, NEW r \in Running.live
  PROVE  holder'[r] = Depth - 1
<1> PICK n : n = Depth
  OBVIOUS
<1>1. n \in Nat /\ n \in 2 .. n /\ n \in 1 .. n /\ stack[n].left /\ ConventionTypeOK /\ r \in stack[n].live
  BY StackType DEF ConventionInv, Return, Running
<1>2. r \in Regs
  BY <1>1, StackType
<1>3. CASE r \in stack[n].kept
  BY <1>2, <1>3 DEF Return, Running
<1>4. CASE r \notin stack[n].kept
  <2>1. holder'[r] = holder[r]
    BY <1>2, <1>4 DEF Return, Running
  <2>2. CASE r \in T
    BY <1>1, <1>4, <2>1, <2>2 DEF ConventionInv, CallerSide
  <2>3. CASE r \in S
    <3>1. \A e \in n .. n : e = n
      BY <1>1
    <3>2. \A e \in n .. n : ~Saves(e, r)
      BY <1>1, <3>1 DEF Saves
    <3>3. r \in stack[n].live \cap S
      BY <1>1, <2>3
    <3> QED BY <1>1, <2>1, <3>2, <3>3 DEF ConventionInv, CalleeSide
  <2> QED BY <1>2, <2>2, <2>3, RegistersSplit
<1> QED BY <1>3, <1>4

-----------------------------------------------------------------------------
\* In programs whose functions cover the $t registers of what they call and
\* return expressions without $s registers, activations are well formed at
\* any depth, and both halves of the convention hold.
THEOREM ConventionHolds ==
  ASSUME \A s \in Sources : Covering(s) /\ PlainReturns(s)
  PROVE  Spec => []ConventionInv
<1>1. Init => ConventionInv
  BY InitConvention
<1>2. ConventionInv /\ [Next]_vars => ConventionInv'
  <2> SUFFICES ASSUME ConventionInv, [Next]_vars PROVE ConventionInv'
    OBVIOUS
  <2>1. source \in Sources
    BY DEF ConventionInv, ConventionTypeOK
  <2> QED BY <2>1, StepKeepsConvention
<1> QED BY <1>1, <1>2, PTL DEF Spec

\* What the caller saves of the $t registers and the callee of the $s ones
\* is enough (optimize_register_allocation, save_registers_at_function_enter,
\* restore_callee_saved_registers): a caller finds in its registers every
\* value it reads after a call, for every program of this kind.
THEOREM LiveValuesSurvive ==
  ASSUME \A s \in Sources : Covering(s) /\ PlainReturns(s)
  PROVE  Spec => LiveAcrossCalls
<1>1. ConventionInv /\ [Next]_vars =>
        [Depth > 1 /\ Len(stack') < Depth => \A r \in Running.live : holder'[r] = Depth - 1]_vars
  BY OnlyReturnPops, ReturnKeeps
<1> QED BY <1>1, ConventionHolds, PTL DEF Spec, LiveAcrossCalls

-----------------------------------------------------------------------------
(***************************************************************************)
(* The stack, in programs that are Bare: what an activation wrote stays,   *)
(* formals are what was passed, and calls return to their caller.          *)
(***************************************************************************)

\* A function that has formals or returns an expression saves no $s
\* register, and main has no formals.
Bare(p) ==
  /\ p.num_formals \in [Procedures -> Nat]
  /\ p.saved \in [Procedures -> 0 .. MaxSaved]
  /\ p.words \in [Procedures -> Nat]
  /\ p.num_formals[1] = 0
  /\ \A h \in Procedures : p.num_formals[h] > 0 \/ h \in p.expr => p.saved[h] = 0

Parameters ==
  /\ NumProcedures \in Nat \ {0} /\ MaxSaved \in Nat /\ StackWords \in Nat
  /\ \A p \in Programs : Bare(p)

Kinds == {"variable", "argument", "ra", "fp", "reg", "junk"}
Words == [of : Int, what : Kinds, n : Int]
Frames ==
  [function : Procedures, base : Int, entry : [SRegs -> Words], written : SUBSET Int, left : BOOLEAN]

\* Type invariant of the machine.
TypeOK ==
  /\ prog \in Programs
  /\ mem \in [Stack -> Words] /\ sreg \in [SRegs -> Words]
  /\ sp \in Int /\ fp \in Int
  /\ calling \in 0 .. NumProcedures /\ pushed \in Nat
  /\ frames \in Seq(Frames)

\* The words of the activation at depth d, its arguments included, are those
\* from low(d) to below top(d).
low(d) == frames[d].base - words(d)
top(d) == frames[d].base + saved(d) + 2 + num_formals(d)

Layout == \A d \in 1 .. Level :
  /\ top(d) <= 0 /\ -StackWords <= low(d)
  /\ \A e \in 1 .. d - 1 : top(d) <= low(e)
  /\ d > 1 => top(d) = low(d - 1)
  /\ frames[d].written \subseteq -words(d) .. -1 \cup 2 .. num_formals(d) + 1
  /\ frames[d].left /\ d < Level => frames[d].function \in prog.expr

\* Where $sp and $fp are.  Only an activation that has left, and returns no
\* expression, may have its $sp elsewhere.
Pointers ==
  /\ calling = 0 => pushed = 0
  /\ calling # 0 => frames # <<>> /\ pushed <= prog.num_formals[calling]
  /\ frames = <<>> => sp = 0 /\ fp = 0
  /\ frames # <<>> =>
       /\ fp = frames[Level].base + IF frames[Level].left THEN saved(Level) ELSE 0
       /\ Current.left /\ calling # 0 => Current.function \in prog.expr
       /\ (Current.left => Current.function \in prog.expr) => sp = low(Level) - pushed

\* The $s registers an activation does not save are as its caller left them;
\* once it executed OP_Leave all are.
After(d) == IF d = Level THEN sreg ELSE frames[d + 1].entry
Registers == \A d \in 1 .. Level : \A r \in SRegs :
  r > saved(d) \/ frames[d].left => After(d)[r] = frames[d].entry[r]

\* The arguments pushed so far.
Arguments == \A i \in 1 .. pushed :
  mem[sp + pushed - i] = Word(Level, "argument", prog.num_formals[calling] - i + 1)

\* FramesIntact and FormalsReach, of one activation.
SavedPart(d) ==
  /\ \A r \in 1 .. saved(d) : mem[frames[d].base + r - 1] = frames[d].entry[r]
  /\ mem[frames[d].base + saved(d)] = Word(d - 1, "ra", 0)
  /\ mem[frames[d].base + saved(d) + 1] =
       Word(d - 1, "fp", IF d = 1 THEN 0 ELSE frames[d - 1].base)
VariablePart(d) == \A offset \in frames[d].written :
  mem[frames[d].base + offset] = Word(d, "variable", offset)
FormalPart(d) == \A i \in 1 .. num_formals(d) :
  i + 1 \in frames[d].written \/ mem[frames[d].base + i + 1] = Word(d - 1, "argument", i)
Contents == \A d \in 1 .. Level : SavedPart(d) /\ VariablePart(d) /\ FormalPart(d)

IInv == TypeOK /\ Layout /\ Pointers /\ Registers /\ Contents /\ Arguments

-----------------------------------------------------------------------------
LEMMA ContentsIs == Contents <=> FramesIntact /\ FormalsReach
  BY DEF Contents, SavedPart, VariablePart, FormalPart, FramesIntact, FormalsReach

LEMMA WordType ==
  ASSUME NEW d \in Int, NEW n \in Int
  PROVE  /\ Word(d, "variable", n) \in Words /\ Word(d, "argument", n) \in Words
         /\ Word(d, "ra", n) \in Words /\ Word(d, "fp", n) \in Words
         /\ Word(d, "reg", n) \in Words /\ Word(d, "junk", n) \in Words
         /\ Word(d, "fp", n).n = n
<1>1. \A what \in Kinds : [of |-> d, what |-> what, n |-> n] \in Words
  BY DEF Words
<1> QED BY <1>1 DEF Word, Kinds

LEMMA DepthType ==
  ASSUME TypeOK
  PROVE  /\ Level \in Nat
         /\ frames = <<>> <=> Level = 0
         /\ frames # <<>> => Level \in 1 .. Level
<1>1. frames \in Seq(Frames) /\ Level \in Nat
  BY LenProperties DEF TypeOK, Level
<1> QED BY <1>1, EmptySeq DEF Level

LEMMA FrameType ==
  ASSUME Parameters, TypeOK, NEW d \in 1 .. Level
  PROVE  /\ frames[d] \in Frames
         /\ frames[d].function \in Procedures /\ frames[d].base \in Int
         /\ frames[d].entry \in [SRegs -> Words] /\ frames[d].written \subseteq Int
         /\ frames[d].left \in BOOLEAN
         /\ saved(d) \in 0 .. MaxSaved /\ saved(d) \in Nat
         /\ num_formals(d) \in Nat /\ words(d) \in Nat
         /\ num_formals(d) > 0 \/ frames[d].function \in prog.expr => saved(d) = 0
         /\ low(d) \in Int /\ top(d) \in Int
<1>1. frames[d] \in Frames
  BY ElementOfSeq DEF TypeOK, Level
<1>2. /\ frames[d].function \in Procedures /\ frames[d].base \in Int
      /\ frames[d].entry \in [SRegs -> Words] /\ frames[d].written \subseteq Int
      /\ frames[d].left \in BOOLEAN
  BY <1>1 DEF Frames
<1>3. Bare(prog) /\ MaxSaved \in Nat
  BY DEF Parameters, TypeOK
<1>4. /\ saved(d) \in 0 .. MaxSaved /\ num_formals(d) \in Nat /\ words(d) \in Nat
      /\ num_formals(d) > 0 \/ frames[d].function \in prog.expr => saved(d) = 0
  BY <1>2, <1>3 DEF Bare, saved, num_formals, words
<1>5. saved(d) \in Nat
  BY <1>3, <1>4
<1>6. low(d) \in Int /\ top(d) \in Int
  BY <1>2, <1>4, <1>5 DEF low, top
<1> QED BY <1>1, <1>2, <1>4, <1>5, <1>6

\* The words of an activation are on the stack and above those of the
\* activations it called.
LEMMA Cells ==
  ASSUME Parameters, TypeOK, Layout, NEW d \in 1 .. Level, NEW a \in Int, low(d) <= a, a < top(d)
  PROVE  /\ a \in Stack
         /\ low(Level) <= a
         /\ d # Level => top(Level) <= a
<1>1. /\ Level \in 1 .. Level /\ StackWords \in Nat
      /\ top(d) <= 0 /\ -StackWords <= low(d)
      /\ d # Level => top(Level) <= low(d)
  <2>1. Level \in Nat /\ Level \in 1 .. Level /\ (d # Level => d \in 1 .. Level - 1)
    BY DepthType
  <2> QED BY <2>1 DEF Layout, Parameters
<1>2. /\ low(d) \in Int /\ top(d) \in Int /\ low(Level) \in Int /\ top(Level) \in Int
      /\ low(Level) <= top(Level)
  BY <1>1, FrameType DEF low, top
<1> QED BY <1>1, <1>2 DEF Stack

\* Where the parts of an activation are.
LEMMA Parts ==
  ASSUME Parameters, TypeOK, Layout, NEW d \in 1 .. Level
  PROVE  /\ \A r \in 1 .. saved(d) : LET a == frames[d].base + r - 1
                                     IN  a \in Int /\ low(d) <= a /\ a < top(d)
         /\ LET a == frames[d].base + saved(d) IN a \in Int /\ low(d) <= a /\ a < top(d)
         /\ LET a == frames[d].base + saved(d) + 1 IN a \in Int /\ low(d) <= a /\ a < top(d)
         /\ \A offset \in frames[d].written : LET a == frames[d].base + offset
                                             IN  a \in Int /\ low(d) <= a /\ a < top(d)
         /\ \A i \in 1 .. num_formals(d) : LET a == frames[d].base + i + 1
                                           IN  a \in Int /\ low(d) <= a /\ a < top(d)
<1>1. frames[d].written \subseteq -words(d) .. -1 \cup 2 .. num_formals(d) + 1
  BY DEF Layout
<1> QED BY <1>1, FrameType DEF low, top

\* What a step keeps of an activation whose words it leaves alone.
LEMMA Kept ==
  ASSUME Parameters, TypeOK, Layout, NEW d \in 1 .. Level, prog' = prog,
         frames'[d].function = frames[d].function, frames'[d].base = frames[d].base,
         frames'[d].entry = frames[d].entry,
         d > 1 => frames'[d - 1].base = frames[d - 1].base,
         \A a \in Int : low(d) <= a /\ a < top(d) => mem'[a] = mem[a]
  PROVE  /\ SavedPart(d) => SavedPart(d)'
         /\ VariablePart(d) /\ frames'[d].written = frames[d].written => VariablePart(d)'
         /\ FormalPart(d) /\ frames'[d].written = frames[d].written => FormalPart(d)'
<1>1. saved(d)' = saved(d) /\ num_formals(d)' = num_formals(d)
  BY DEF saved, num_formals
<1>2. SavedPart(d) => SavedPart(d)'
  <2>1. /\ \A r \in 1 .. saved(d) : mem'[frames[d].base + r - 1] = mem[frames[d].base + r - 1]
        /\ mem'[frames[d].base + saved(d)] = mem[frames[d].base + saved(d)]
        /\ mem'[frames[d].base + saved(d) + 1] = mem[frames[d].base + saved(d) + 1]
    BY Parts
  <2>2. (IF d = 1 THEN 0 ELSE frames'[d - 1].base) = IF d = 1 THEN 0 ELSE frames[d - 1].base
    BY DepthType
  <2> QED BY <1>1, <2>1, <2>2 DEF SavedPart
<1>3. VariablePart(d) /\ frames'[d].written = frames[d].written => VariablePart(d)'
  BY Parts DEF VariablePart
<1>4. FormalPart(d) /\ frames'[d].written = frames[d].written => FormalPart(d)'
  BY <1>1, Parts DEF FormalPart
<1> QED BY <1>2, <1>3, <1>4

\* The layout depends on what activations were created with.
LEMMA SameLayout ==
  ASSUME prog' = prog, NEW d, frames'[d].function = frames[d].function,
         frames'[d].base = frames[d].base
  PROVE  /\ saved(d)' = saved(d) /\ num_formals(d)' = num_formals(d) /\ words(d)' = words(d)
         /\ low(d)' = low(d) /\ top(d)' = top(d)
BY DEF saved, num_formals, words, low, top

-----------------------------------------------------------------------------
LEMMA InitInv == ASSUME Parameters, InitFrames PROVE IInv
<1>1. frames = <<>> /\ Level = 0
  BY DEF InitFrames, EmptyStack, Level
<1>2. TypeOK
  <2>1. \A a \in Int : Word(0, "junk", a) \in Words /\ Word(0, "reg", a) \in Words
    BY WordType
  <2>2. SRegs \subseteq Int
    BY DEF SRegs
  <2> QED BY <2>1, <2>2 DEF Parameters, InitFrames, EmptyStack, TypeOK
<1>3. Pointers
  BY <1>1 DEF InitFrames, EmptyStack, Pointers
<1> QED BY <1>1, <1>2, <1>3 DEF IInv, Layout, Registers, Contents, Arguments, InitFrames, EmptyStack

\* A running activation that may compute or call has its frame in place.
LEMMA InPlace ==
  ASSUME Parameters, IInv, frames # <<>>,
         Current.left => Current.function \in prog.expr
  PROVE  /\ Level \in 1 .. Level /\ Level \in Nat
         /\ fp = frames[Level].base /\ sp = low(Level) - pushed
<1>1. Level \in 1 .. Level /\ Level \in Nat
  BY DepthType DEF IInv
<1>2. Current.left => saved(Level) = 0
  BY <1>1, FrameType DEF IInv, Current
<1>3. frames[Level].base \in Int
  BY <1>1, FrameType DEF IInv
<1> QED BY <1>1, <1>2, <1>3 DEF IInv, Pointers, Current

LEMMA WriteVariableInv ==
  ASSUME Parameters, IInv, NEW offset \in Int, WriteVariable(offset)
  PROVE  IInv' /\ Level' = Level
<1> PICK n, f, a : n = Level /\ f = frames[n] /\ a = fp + offset
  OBVIOUS
<1>1. /\ n \in Nat /\ n \in 1 .. n /\ fp = f.base /\ calling = 0 /\ frames # <<>>
      /\ (f.left => f.function \in prog.expr)
  BY InPlace DEF WriteVariable, FrameComputes, Current
<1>2. /\ f \in Frames /\ f.base \in Int /\ saved(n) \in Nat /\ num_formals(n) \in Nat /\ words(n) \in Nat
      /\ (num_formals(n) > 0 => saved(n) = 0) /\ low(n) = f.base - words(n)
      /\ top(n) = f.base + saved(n) + 2 + num_formals(n)
  BY <1>1, FrameType DEF IInv, low, top
<1>3. offset \in -words(n) .. -1 \cup 2 .. num_formals(n) + 1
  BY DEF WriteVariable
<1>4. a \in Int /\ low(n) <= a /\ a < top(n) /\ a \in Stack
  <2>1. offset \in Int /\ -words(n) <= offset /\ offset < num_formals(n) + 2
    BY <1>2, <1>3
  <2>2. a \in Int /\ low(n) <= a /\ a < top(n)
    <3>1. \A b, o \in Int, w, k, m \in Nat :
            -w <= o /\ o < m + 2 => b + o \in Int /\ b - w <= b + o /\ b + o < b + k + 2 + m
      OBVIOUS
    <3>2. a = f.base + offset
      BY <1>1
    <3> HIDE <1>1
    <3> QED BY <1>2, <2>1, <3>1, <3>2
  <2> QED BY <1>1, <2>2, Cells DEF IInv
<1>5. /\ mem' = [mem EXCEPT ![a] = Word(n, "variable", offset)]
      /\ UNCHANGED <<prog, sp, fp, sreg, calling, pushed>>
  BY DEF WriteVariable
<1>6. frames' = [frames EXCEPT ![n] = [f EXCEPT !.written = @ \cup {offset}]]
  BY DEF WriteVariable
<1>7. [f EXCEPT !.written = @ \cup {offset}] \in Frames
  BY <1>2 DEF Frames
<1>8. frames' \in Seq(Frames) /\ Level' = n
  BY <1>1, <1>6, <1>7, ExceptSeq DEF IInv, TypeOK, Level
<1>9. \A d \in 1 .. n :
        /\ frames'[d].function = frames[d].function /\ frames'[d].base = frames[d].base
        /\ frames'[d].entry = frames[d].entry /\ frames'[d].left = frames[d].left
        /\ d # n => frames'[d].written = frames[d].written
        /\ d = n => frames'[d].written = frames[d].written \cup {offset}
  <2> SUFFICES ASSUME NEW d \in 1 .. n
               PROVE  /\ frames'[d].function = frames[d].function /\ frames'[d].base = frames[d].base
                      /\ frames'[d].entry = frames[d].entry /\ frames'[d].left = frames[d].left
                      /\ d # n => frames'[d].written = frames[d].written
                      /\ d = n => frames'[d].written = frames[d].written \cup {offset}
    OBVIOUS
  <2>1. d \in DOMAIN frames
    BY LenProperties DEF IInv, TypeOK, Level
  <2>2. frames'[d] = IF d = n THEN [f EXCEPT !.written = @ \cup {offset}] ELSE frames[d]
    BY <1>6, <2>1
  <2> QED BY <1>2, <2>2 DEF Frames
<1>10. \A d \in 1 .. n : /\ saved(d)' = saved(d) /\ num_formals(d)' = num_formals(d)
                        /\ words(d)' = words(d) /\ low(d)' = low(d) /\ top(d)' = top(d)
  BY <1>5, <1>9, SameLayout
<1>11. TypeOK'
  <2>1. mem \in [Stack -> Words]
    BY DEF IInv, TypeOK
  <2>2. Word(n, "variable", offset) \in Words
    BY <1>1, WordType
  <2>3. mem' \in [Stack -> Words]
    BY <1>5, <2>1, <2>2
  <2> QED BY <1>5, <1>8, <2>3 DEF IInv, TypeOK
<1>12. \A d \in 1 .. n : d > 1 => d - 1 \in 1 .. n
  BY <1>1
<1>13. Layout'
  <2> SUFFICES ASSUME NEW d \in 1 .. n
               PROVE  /\ top(d) <= 0 /\ -StackWords <= low(d)
                      /\ \A e \in 1 .. d - 1 : top(d) <= low(e)'
                      /\ d > 1 => top(d) = low(d - 1)'
                      /\ frames'[d].written \subseteq -words(d) .. -1 \cup 2 .. num_formals(d) + 1
                      /\ frames'[d].left /\ d < n => frames'[d].function \in prog.expr
    BY <1>5, <1>8, <1>10 DEF Layout
  <2>1. \A e \in 1 .. d - 1 : e \in 1 .. n
    BY <1>1
  <2>2. /\ top(d) <= 0 /\ -StackWords <= low(d)
        /\ \A e \in 1 .. d - 1 : top(d) <= low(e)
        /\ d > 1 => top(d) = low(d - 1)
        /\ frames[d].written \subseteq -words(d) .. -1 \cup 2 .. num_formals(d) + 1
        /\ frames[d].left /\ d < n => frames[d].function \in prog.expr
    BY DEF IInv, Layout
  <2> QED BY <1>3, <1>9, <1>10, <1>12, <2>1, <2>2
<1>14. Pointers'
  <2>1. frames' # <<>>
    BY <1>1, <1>8 DEF Level
  <2>2. frames'[n].left = f.left /\ frames'[n].base = f.base /\ frames'[n].function = f.function
        /\ saved(n)' = saved(n) /\ low(n)' = low(n)
    BY <1>1, <1>9, <1>10
  <2> QED BY <1>1, <1>5, <1>8, <2>1, <2>2 DEF IInv, Pointers, Current
<1>15. Registers'
  <2>1. \A d \in 1 .. n : After(d)' = After(d)
    <3> SUFFICES ASSUME NEW d \in 1 .. n PROVE After(d)' = After(d)
      OBVIOUS
    <3>1. d # n => d + 1 \in 1 .. n
      BY <1>1
    <3> QED BY <1>5, <1>8, <1>9, <3>1 DEF After
  <2> QED BY <1>8, <1>9, <1>10, <2>1 DEF IInv, Registers
<1>16. Contents'
  <2> SUFFICES ASSUME NEW d \in 1 .. n PROVE SavedPart(d)' /\ VariablePart(d)' /\ FormalPart(d)'
    BY <1>8 DEF Contents
  <2>1. SavedPart(d) /\ VariablePart(d) /\ FormalPart(d)
    BY DEF IInv, Contents
  <2>2. \A b \in Int : b \in Stack => mem'[b] = IF b = a THEN Word(n, "variable", offset) ELSE mem[b]
    BY <1>5 DEF IInv, TypeOK
  <2>3. CASE d # n
    <3>1. \A b \in Int : low(d) <= b /\ b < top(d) => b # a /\ b \in Stack
      BY <1>2, <1>4, <2>3, Cells DEF IInv
    <3>2. \A b \in Int : low(d) <= b /\ b < top(d) => mem'[b] = mem[b]
      BY <2>2, <3>1
    <3> QED BY <1>5, <1>9, <1>12, <2>1, <2>3, <3>2, Kept DEF IInv
  <2>4. CASE d = n
    <3>1. \A b \in Int : low(n) <= b /\ b < top(n) /\ b # a => mem'[b] = mem[b]
      BY <1>1, <2>2, Cells DEF IInv
    <3>2. /\ \A r \in 1 .. saved(n) : f.base + r - 1 # a
          /\ f.base + saved(n) # a /\ f.base + saved(n) + 1 # a
      <4>1. \A k, m \in Nat, o \in Int :
              (m > 0 => k = 0) /\ (o < 0 \/ (2 <= o /\ o <= m + 1))
                => (\A r \in 1 .. k : r - 1 # o) /\ k # o /\ k + 1 # o
        OBVIOUS
      <4>2. offset < 0 \/ (2 <= offset /\ offset <= num_formals(n) + 1)
        BY <1>2, <1>3
      <4>3. \A b, o, x \in Int : b + x = b + o => x = o
        OBVIOUS
      <4>4. a = f.base + offset /\ offset \in Int /\ f.base \in Int
        BY <1>1, <1>2
      <4>5. (\A r \in 1 .. saved(n) : r - 1 # offset) /\ saved(n) # offset /\ saved(n) + 1 # offset
        BY <1>2, <4>1, <4>2
      <4>6. \A r \in 1 .. saved(n) : r - 1 \in Int /\ f.base + r - 1 = f.base + (r - 1)
        BY <1>2
      <4>7. f.base + saved(n) + 1 = f.base + (saved(n) + 1) /\ saved(n) \in Int /\ saved(n) + 1 \in Int
        BY <1>2
      <4> QED BY <4>3, <4>4, <4>5, <4>6, <4>7
    <3>3. /\ \A r \in 1 .. saved(n) : mem'[f.base + r - 1] = mem[f.base + r - 1]
          /\ mem'[f.base + saved(n)] = mem[f.base + saved(n)]
          /\ mem'[f.base + saved(n) + 1] = mem[f.base + saved(n) + 1]
      BY <1>1, <3>1, <3>2, Parts DEF IInv
    <3>4. (IF n = 1 THEN 0 ELSE frames'[n - 1].base) = IF n = 1 THEN 0 ELSE frames[n - 1].base
      BY <1>1, <1>9, <1>12
    <3>5. SavedPart(n)'
      BY <1>1, <1>9, <1>10, <2>1, <2>4, <3>3, <3>4 DEF SavedPart
    <3>6. ASSUME NEW o \in f.written \cup {offset} PROVE mem'[f.base + o] = Word(n, "variable", o)
      <4>1. CASE o = offset
        BY <1>1, <1>4, <2>2, <4>1
      <4>2. CASE o \in f.written /\ o # offset
        <5>1. f.base + o \in Int /\ low(n) <= f.base + o /\ f.base + o < top(n) /\ f.base + o # a
          <6>1. f.base + o \in Int /\ low(n) <= f.base + o /\ f.base + o < top(n)
            BY <1>1, <4>2, Parts DEF IInv
          <6>2. o \in Int
            BY <1>1, <4>2, FrameType DEF IInv
          <6>3. \A x, y, z \in Int : y # z => x + y # x + z
            OBVIOUS
          <6>4. a = f.base + offset /\ f.base \in Int /\ offset \in Int /\ o # offset
            BY <1>1, <1>2, <4>2
          <6>5. f.base + o # a
            BY <6>2, <6>3, <6>4
          <6> QED BY <6>1, <6>5
        <5>2. mem[f.base + o] = Word(n, "variable", o)
          BY <2>1, <2>4, <4>2 DEF VariablePart
        <5> QED BY <3>1, <5>1, <5>2
      <4> QED BY <4>1, <4>2
    <3>7. VariablePart(n)'
      BY <1>1, <1>9, <3>6 DEF VariablePart
    <3>8. ASSUME NEW i \in 1 .. num_formals(n), i + 1 \notin f.written \cup {offset}
          PROVE  mem'[f.base + i + 1] = Word(n - 1, "argument", i)
      <4>1. mem[f.base + i + 1] = Word(n - 1, "argument", i)
        BY <2>1, <2>4, <3>8 DEF FormalPart
      <4>2. f.base + i + 1 \in Int /\ low(n) <= f.base + i + 1 /\ f.base + i + 1 < top(n)
        BY <1>1, Parts DEF IInv
      <4>3. f.base + i + 1 # a
        <5>1. i + 1 # offset /\ i \in Int
          BY <3>8
        <5>2. \A b, o, x \in Int : x + 1 # o => b + x + 1 # b + o
          OBVIOUS
        <5>3. a = f.base + offset /\ offset \in Int /\ f.base \in Int
          BY <1>1, <1>2
        <5> QED BY <5>1, <5>2, <5>3
      <4> QED BY <3>1, <4>1, <4>2, <4>3
    <3>9. FormalPart(n)'
      BY <1>1, <1>9, <1>10, <3>8 DEF FormalPart
    <3> QED BY <2>4, <3>5, <3>7, <3>9
  <2> QED BY <2>3, <2>4
<1>17. Arguments'
  <2>1. pushed' = 0
    BY <1>1, <1>5 DEF IInv, Pointers
  <2> QED BY <2>1 DEF Arguments
<1> QED BY <1>8, <1>11, <1>13, <1>14, <1>15, <1>16, <1>17 DEF IInv

LEMMA WriteRegisterInv ==
  ASSUME Parameters, IInv, NEW r \in SRegs, WriteRegister(r)
  PROVE  IInv'
<1>1. /\ UNCHANGED <<prog, mem, sp, fp, calling, pushed, frames>> /\ r \in 1 .. saved(Level)
      /\ Level \in 1 .. Level /\ Level \in Nat
      /\ sreg' = [sreg EXCEPT ![r] = Word(Level, "reg", r)]
      /\ Current.left => Current.function \in prog.expr
  BY DepthType DEF IInv, WriteRegister, FrameComputes
<1>2. \A d \in 1 .. Level : saved(d)' = saved(d) /\ num_formals(d)' = num_formals(d)
        /\ words(d)' = words(d) /\ low(d)' = low(d) /\ top(d)' = top(d)
  BY <1>1, SameLayout
<1>3. Level' = Level
  BY <1>1 DEF Level
<1>4. TypeOK'
  <2>1. sreg' \in [SRegs -> Words]
    <3>1. r \in Int
      BY DEF SRegs
    <3> QED BY <1>1, <3>1, WordType DEF IInv, TypeOK
  <2> QED BY <1>1, <2>1 DEF IInv, TypeOK
<1>5. Layout'
  <2>1. \A d \in 1 .. Level : \A e \in 1 .. d - 1 : e \in 1 .. Level
    BY <1>1
  <2>2. \A d \in 1 .. Level : d > 1 => d - 1 \in 1 .. Level
    BY <1>1
  <2> QED BY <1>1, <1>2, <1>3, <2>1, <2>2 DEF IInv, Layout
<1>6. Pointers'
  BY <1>1, <1>2, <1>3 DEF IInv, Pointers, Current
<1>7. Registers'
  <2> SUFFICES ASSUME NEW d \in 1 .. Level, NEW q \in SRegs, q > saved(d) \/ frames[d].left
               PROVE  After(d)'[q] = frames[d].entry[q]
    BY <1>1, <1>2, <1>3 DEF Registers
  <2>1. After(d)[q] = frames[d].entry[q]
    BY DEF IInv, Registers
  <2>2. CASE d # Level
    BY <1>1, <1>3, <2>1, <2>2 DEF After
  <2>3. CASE d = Level
    <3>1. saved(d) \in Nat /\ (frames[d].left => saved(d) = 0)
      BY <1>1, <2>3, FrameType DEF IInv, Current
    <3>2. q # r
      BY <1>1, <2>3, <3>1 DEF SRegs
    <3>3. sreg'[q] = sreg[q]
      BY <1>1, <3>2 DEF IInv, TypeOK
    <3> QED BY <1>1, <1>3, <2>1, <2>3, <3>3 DEF After
  <2> QED BY <2>2, <2>3
<1>8. Contents' /\ Arguments'
  BY <1>1, <1>2, <1>3 DEF IInv, Contents, SavedPart, VariablePart, FormalPart, Arguments
<1> QED BY <1>4, <1>5, <1>6, <1>7, <1>8 DEF IInv

\* Arguments go below the frame of the running activation.
LEMMA ParamInv ==
  ASSUME Parameters, IInv, NEW h \in Procedures, OP_Param(h)
  PROVE  IInv'
<1> PICK n : n = Level
  OBVIOUS
<1>1. /\ calling' = h /\ pushed' = pushed + 1 /\ sp' = sp - 1 /\ sp' \in Stack
      /\ mem' = [mem EXCEPT ![sp'] = Word(n, "argument", prog.num_formals[h] - pushed)]
      /\ UNCHANGED <<prog, fp, sreg, frames>>
      /\ pushed < prog.num_formals[h] /\ (FrameComputes \/ calling = h)
  BY DEF OP_Param
<1>2. /\ pushed \in Nat /\ h \in Nat \ {0} /\ h \in 0 .. NumProcedures /\ sp \in Int
      /\ prog.num_formals[h] \in Nat
  BY DEF IInv, TypeOK, Parameters, Bare, Procedures
<1>3. frames # <<>> /\ (Current.left => Current.function \in prog.expr)
  BY <1>1, <1>2 DEF FrameComputes, IInv, Pointers
<1>4. n \in 1 .. n /\ n \in Nat /\ fp = frames[n].base /\ sp = low(n) - pushed
  BY <1>3, InPlace
<1>5. Level' = n
  BY <1>1 DEF Level
<1>6. calling # h => calling = 0 /\ pushed = 0
  BY <1>1 DEF FrameComputes, IInv, Pointers
<1>7. \A d \in 1 .. n : saved(d)' = saved(d) /\ num_formals(d)' = num_formals(d)
        /\ words(d)' = words(d) /\ low(d)' = low(d) /\ top(d)' = top(d)
  BY <1>1, SameLayout
<1>8. \A b \in Int : b \in Stack =>
        mem'[b] = IF b = sp' THEN Word(n, "argument", prog.num_formals[h] - pushed) ELSE mem[b]
  BY <1>1 DEF IInv, TypeOK
<1>9. TypeOK'
  <2>1. mem' \in [Stack -> Words] /\ sp' \in Int /\ pushed' \in Nat
    <3>1. prog.num_formals[h] - pushed \in Int /\ n \in Int
      BY <1>2, <1>4
    <3>2. Word(n, "argument", prog.num_formals[h] - pushed) \in Words
      BY <3>1, WordType
    <3> QED BY <1>1, <1>2, <3>2 DEF IInv, TypeOK
  <2> QED BY <1>1, <1>2, <2>1 DEF IInv, TypeOK
<1>10. Layout'
  <2>1. \A d \in 1 .. n : \A e \in 1 .. d - 1 : e \in 1 .. n
    BY <1>4
  <2>2. \A d \in 1 .. n : d > 1 => d - 1 \in 1 .. n
    BY <1>4
  <2> QED BY <1>1, <1>5, <1>7, <2>1, <2>2 DEF IInv, Layout
<1>11. Pointers'
  <2>1. /\ fp' = frames[n].base + IF frames[n].left THEN saved(n) ELSE 0
    BY <1>1, <1>3 DEF IInv, Pointers
  <2>2. sp' = low(n) - pushed' /\ pushed' <= prog.num_formals[h]
    <3>1. low(n) \in Int
      BY <1>4, FrameType DEF IInv
    <3> QED BY <1>1, <1>2, <1>4, <3>1
  <2> QED BY <1>1, <1>2, <1>3, <1>5, <1>7, <1>4, <2>1, <2>2 DEF Pointers, Current
<1>12. Registers'
  BY <1>1, <1>5, <1>7 DEF IInv, Registers, After
<1>13. Contents'
  <2> SUFFICES ASSUME NEW d \in 1 .. n PROVE SavedPart(d)' /\ VariablePart(d)' /\ FormalPart(d)'
    BY <1>5 DEF Contents
  <2>1. low(n) \in Int
    BY <1>4, FrameType DEF IInv
  <2>2. \A b \in Int : low(d) <= b /\ b < top(d) => b \in Stack /\ low(n) <= b
    BY Cells DEF IInv
  <2>3. \A b \in Int : low(n) <= b => b # sp'
    BY <1>1, <1>2, <1>4, <2>1
  <2>4. \A b \in Int : low(d) <= b /\ b < top(d) => mem'[b] = mem[b]
    BY <1>8, <2>2, <2>3
  <2> QED BY <1>1, <2>4, Kept DEF IInv, Contents
<1>14. Arguments'
  <2> SUFFICES ASSUME NEW i \in 1 .. pushed + 1
               PROVE  mem'[sp' + (pushed + 1) - i] = Word(n, "argument", prog.num_formals[h] - i + 1)
    BY <1>1, <1>5 DEF Arguments
  <2>1. CASE i = pushed + 1
    <3>1. sp' + (pushed + 1) - i = sp' /\ prog.num_formals[h] - i + 1 = prog.num_formals[h] - pushed
      BY <1>1, <1>2, <2>1
    <3>2. sp' \in Int
      BY <1>1, <1>2
    <3> QED BY <1>1, <1>8, <3>1, <3>2
  <2>2. CASE i \in 1 .. pushed
    <3>1. calling = h
      BY <1>2, <1>6, <2>2
    <3>2. sp' + (pushed + 1) - i = sp + pushed - i /\ sp + pushed - i \in Int /\ sp + pushed - i # sp'
      BY <1>1, <1>2, <2>2
    <3>3. mem[sp + pushed - i] = Word(n, "argument", prog.num_formals[h] - i + 1)
      BY <2>2, <3>1 DEF IInv, Arguments
    <3>4. sp + pushed - i \in Stack
      <4>1. low(n) \in Int /\ low(n) <= top(n) /\ top(n) <= 0 /\ top(n) \in Int
        BY <1>4, FrameType DEF IInv, Layout, low, top
      <4>2. StackWords \in Nat /\ -StackWords <= sp' /\ sp' <= -1
        BY <1>1 DEF Stack, Parameters
      <4> QED BY <1>1, <1>2, <1>4, <2>2, <4>1, <4>2 DEF Stack
    <3> QED BY <1>8, <3>2, <3>3, <3>4
  <2> QED BY <1>2, <2>1, <2>2
<1> QED BY <1>9, <1>10, <1>11, <1>12, <1>13, <1>14 DEF IInv

\* The k + 2 words from b that a call saves end where the p arguments begin.
Window(b, k, p) ==
  /\ b + k + 2 \in Int
  /\ \A r \in 1 .. k : /\ b + r - 1 \in b .. b + k + 1 /\ b + r - 1 < b + k
                      /\ (b + r - 1) - b + 1 = r
  /\ b + k \in b .. b + k + 1 /\ ~(b + k < b + k)
  /\ b + k + 1 \in b .. b + k + 1 /\ ~(b + k + 1 < b + k) /\ b + k + 1 # b + k
  /\ \A a \in b .. b + k + 1 : /\ a < b + k => a - b + 1 \in 1 .. k
                             /\ a \in b .. b + k + 1 + p
  /\ \A a \in Int : b + k + 2 + p <= a => a \notin b .. b + k + 1
  /\ k = 0 => \A i \in 1 .. p :
       /\ b + i + 1 \in b .. b + k + 1 + p /\ b + i + 1 \notin b .. b + k + 1
       /\ p - i + 1 \in 1 .. p /\ (b + k + 2) + p - (p - i + 1) = b + i + 1
       /\ p - (p - i + 1) + 1 = i
  /\ \A w, m \in Nat : -w <= b - m /\ b + k + 2 + p <= 0 =>
       \A a \in b .. b + k + 1 + p : a \in -w .. -1

LEMMA WindowIs ==
  ASSUME NEW b \in Int, NEW k \in Nat, NEW p \in Nat
  PROVE  Window(b, k, p)
BY DEF Window

\* A new activation finds its arguments where its formals are, and saves
\* the rest below them.
LEMMA EnterInv ==
  ASSUME Parameters, IInv, NEW h \in Procedures, OP_Enter(h), prog' = prog, sreg' = sreg,
         calling' = 0, pushed' = 0, pushed = prog.num_formals[h], calling # 0 => calling = h,
         frames # <<>> => (Current.left => Current.function \in prog.expr)
  PROVE  IInv' /\ Level' = Level + 1
<1> PICK n, k, b, m : n = Level /\ k = prog.saved[h] /\ b = sp - k - 2 /\ m = prog.words[h]
  OBVIOUS
<1> PICK f : f = [function |-> h, base |-> b, entry |-> sreg, written |-> {}, left |-> FALSE]
  OBVIOUS
<1>1. /\ pushed \in Nat /\ k \in Nat /\ k \in 0 .. MaxSaved /\ MaxSaved \in Nat /\ m \in Nat /\ sp \in Int
      /\ (pushed > 0 => k = 0) /\ n \in Nat /\ StackWords \in Nat /\ b \in Int
  <2>1. Bare(prog) /\ MaxSaved \in Nat /\ StackWords \in Nat /\ sp \in Int /\ n \in Nat
    BY DepthType DEF IInv, TypeOK, Parameters
  <2>2. /\ pushed \in Nat /\ k \in 0 .. MaxSaved /\ m \in Nat /\ (pushed > 0 => k = 0)
    BY <2>1 DEF Bare
  <2> QED BY <2>1, <2>2
<1>w. Window(b, k, pushed) /\ sp = b + k + 2
  <2>1. \A y, z \in Int : y = (y - z - 2) + z + 2
    OBVIOUS
  <2>2. sp \in Int /\ k \in Int
    BY <1>1
  <2>3. sp = (sp - k - 2) + k + 2
    BY <2>1, <2>2
  <2>4. Window(b, k, pushed)
    BY <1>1, WindowIs
  <2> QED BY <2>3, <2>4
<1>2. /\ fp' = b /\ sp' = b - m /\ b - m \in Stack /\ frames' = Append(frames, f)
      /\ mem' = [a \in Stack |->
                   IF a \in b .. b + k + 1
                     THEN IF a < b + k THEN sreg[a - b + 1]
                          ELSE IF a = b + k THEN Word(n, "ra", 0) ELSE Word(n, "fp", fp)
                     ELSE mem[a]]
  <2> DEFINE stored == save_registers_at_function_enter(h, fp, sreg, b)
  <2>1. stored = [a \in b .. b + k + 1 |->
                   IF a < b + k THEN sreg[a - b + 1]
                   ELSE IF a = b + k THEN Word(n, "ra", 0) ELSE Word(n, "fp", fp)]
    BY DEF save_registers_at_function_enter
  <2>2. /\ fp' = b /\ sp' = b - m /\ b - m \in Stack /\ frames' = Append(frames, f)
        /\ mem' = [a \in Stack |-> IF a \in DOMAIN stored THEN stored[a] ELSE mem[a]]
    BY DEF OP_Enter
  <2> QED BY <2>1, <2>2
<1>3. f \in Frames
  BY <1>1 DEF Frames, IInv, TypeOK
<1>4. /\ frames' \in Seq(Frames) /\ Level' = n + 1
      /\ \A d \in 1 .. n : frames'[d] = frames[d]
      /\ \A d : d = n + 1 => frames'[d] = f
  <2>1. frames \in Seq(Frames) /\ n = Len(frames)
    BY DEF IInv, TypeOK, Level
  <2>2. /\ Append(frames, f) \in Seq(Frames)
        /\ Len(Append(frames, f)) = n + 1
        /\ \A d \in 1 .. n : Append(frames, f)[d] = frames[d]
        /\ Append(frames, f)[n + 1] = f
    BY <1>3, <2>1, AppendProperties
  <2>3. \A d : d = n + 1 => frames'[d] = f
    BY <1>2, <2>2
  <2> QED BY <1>2, <2>2, <2>3 DEF Level
<1>5. \A d \in 1 .. n : /\ saved(d)' = saved(d) /\ num_formals(d)' = num_formals(d)
                       /\ words(d)' = words(d) /\ low(d)' = low(d) /\ top(d)' = top(d)
  BY <1>4, SameLayout
<1>6. \A d : d = n + 1 => /\ saved(d)' = k /\ num_formals(d)' = pushed /\ words(d)' = m
                          /\ low(d)' = b - m /\ top(d)' = b + k + 2 + pushed
  <2> SUFFICES ASSUME NEW d, d = n + 1
               PROVE  /\ saved(d)' = k /\ num_formals(d)' = pushed /\ words(d)' = m
                      /\ low(d)' = b - m /\ top(d)' = b + k + 2 + pushed
    OBVIOUS
  <2>1. frames'[d].function = h /\ frames'[d].base = b
    BY <1>4
  <2>2. saved(d)' = k /\ num_formals(d)' = pushed /\ words(d)' = m
    BY <2>1 DEF saved, num_formals, words
  <2> QED BY <2>1, <2>2 DEF low, top
\* The stack pointer was below every frame.
<1>7. /\ frames = <<>> => n = 0 /\ sp = 0 /\ fp = 0 /\ pushed = 0
      /\ frames # <<>> => /\ n \in 1 .. n /\ sp = low(n) - pushed /\ low(n) \in Int
                         /\ fp = frames[n].base /\ low(n) <= top(n) /\ top(n) <= 0 /\ top(n) \in Int
  <2>1. CASE frames = <<>>
    BY <2>1, DepthType DEF IInv, Pointers
  <2>2. CASE frames # <<>>
    <3>1. n \in 1 .. n /\ n \in 1 .. Level /\ sp = low(n) - pushed /\ fp = frames[n].base
      BY <2>2, InPlace
    <3>2. top(n) <= 0
      BY <3>1 DEF IInv, Layout
    <3>3. low(n) \in Int /\ top(n) \in Int /\ low(n) <= top(n)
      <4>1. /\ low(n) \in Int /\ top(n) \in Int /\ frames[n].base \in Int
            /\ words(n) \in Nat /\ saved(n) \in Nat /\ num_formals(n) \in Nat
        BY <3>1, FrameType DEF IInv
      <4>2. \A x \in Int, y, z, q \in Nat : x - y <= x + z + 2 + q
        OBVIOUS
      <4> QED BY <4>1, <4>2 DEF low, top
    <3> QED BY <2>2, <3>1, <3>2, <3>3
  <2> QED BY <2>1, <2>2
<1>8. sp + pushed <= 0 /\ sp + pushed = b + k + 2 + pushed /\ fp \in Int
  <2>1. \A x, y, z, q \in Int : x = y - q /\ y <= z /\ z <= 0 => x + q <= 0
    OBVIOUS
  <2>2. frames = <<>> => sp + pushed <= 0
    BY <1>7
  <2>3. frames # <<>> => sp + pushed <= 0
    <3> SUFFICES ASSUME frames # <<>> PROVE sp + pushed <= 0
      OBVIOUS
    <3>1. sp = low(n) - pushed /\ low(n) <= top(n) /\ top(n) <= 0
      BY <1>7
    <3>2. sp \in Int /\ low(n) \in Int /\ top(n) \in Int /\ pushed \in Int
      BY <1>1, <1>7
    <3> HIDE <1>1, <1>7
    <3> QED BY <2>1, <3>1, <3>2
  <2> QED BY <1>w, <2>2, <2>3 DEF IInv, TypeOK
<1>9. \A d \in 1 .. n : low(d) \in Int /\ sp + pushed <= low(d)
  <2> SUFFICES ASSUME NEW d \in 1 .. n PROVE low(d) \in Int /\ sp + pushed <= low(d)
    OBVIOUS
  <2>1. frames # <<>> /\ sp + pushed = low(n)
    BY <1>1, <1>7
  <2>2. d # n => d \in 1 .. n - 1 /\ top(n) <= low(d)
    BY <1>1, <1>7, <2>1 DEF IInv, Layout
  <2>3. low(d) \in Int
    BY FrameType DEF IInv
  <2> QED BY <1>7, <2>1, <2>2, <2>3
<1>10. TypeOK'
  <2>1. ASSUME NEW a \in b .. b + k + 1, a < b + k PROVE sreg[a - b + 1] \in Words
    <3>1. a - b + 1 \in 1 .. k
      BY <1>w, <2>1 DEF Window
    <3>2. a - b + 1 \in SRegs
      <4>1. \A x, y \in Int : y \in 0 .. x => \A z \in 1 .. y : z \in 1 .. x
        OBVIOUS
      <4>2. \A z \in 1 .. k : z \in 1 .. MaxSaved
        BY <1>1, <4>1
      <4> QED BY <3>1, <4>2 DEF SRegs
    <3> QED BY <3>2 DEF IInv, TypeOK
  <2>2. Word(n, "ra", 0) \in Words /\ Word(n, "fp", fp) \in Words
    <3>1. n \in Int /\ fp \in Int /\ 0 \in Int
      BY <1>1, <1>8
    <3> QED BY <3>1, WordType
  <2>3. mem' \in [Stack -> Words]
    BY <1>2, <2>1, <2>2 DEF IInv, TypeOK
  <2>4. fp' \in Int /\ sp' \in Int /\ 0 \in 0 .. NumProcedures
    BY <1>1, <1>2 DEF Parameters
  <2> QED BY <1>4, <2>3, <2>4 DEF IInv, TypeOK
<1>11. \A d \in 1 .. n + 1 : d \in 1 .. n \/ d = n + 1
  BY <1>1
<1>12. Layout'
  <2> SUFFICES ASSUME NEW d \in 1 .. n + 1
               PROVE  /\ top(d)' <= 0 /\ -StackWords <= low(d)'
                      /\ \A e \in 1 .. d - 1 : top(d)' <= low(e)'
                      /\ d > 1 => top(d)' = low(d - 1)'
                      /\ frames'[d].written \subseteq -words(d)' .. -1 \cup 2 .. num_formals(d)' + 1
                      /\ frames'[d].left /\ d < n + 1 => frames'[d].function \in prog.expr
    BY <1>4 DEF Layout
  <2>1. CASE d = n + 1
    <3>1. -StackWords <= b - m
      BY <1>2 DEF Stack
    <3>2. \A e \in 1 .. d - 1 : e \in 1 .. n
      BY <1>1, <2>1
    <3>3. d > 1 => d - 1 = n /\ frames # <<>> /\ low(n) = sp + pushed /\ n \in 1 .. n
      BY <1>1, <1>7, <2>1
    <3>4. ~(d < n + 1)
      BY <1>1, <2>1
    <3>5. frames'[d].written = {}
      BY <1>4, <2>1
    <3> QED BY <1>5, <1>6, <1>8, <1>9, <2>1, <3>1, <3>2, <3>3, <3>4, <3>5
  <2>2. CASE d \in 1 .. n
    <3>1. \A e \in 1 .. d - 1 : e \in 1 .. n
      BY <1>1, <2>2
    <3>2. d > 1 => d - 1 \in 1 .. n
      BY <1>1, <2>2
    <3>3. /\ top(d) <= 0 /\ -StackWords <= low(d)
          /\ \A e \in 1 .. d - 1 : top(d) <= low(e)
          /\ d > 1 => top(d) = low(d - 1)
          /\ frames[d].written \subseteq -words(d) .. -1 \cup 2 .. num_formals(d) + 1
      BY <2>2 DEF IInv, Layout
    <3>4. frames[d].left => frames[d].function \in prog.expr
      <4>1. CASE d = n
        <5>1. frames # <<>>
          BY <1>7, <2>2
        <5> QED BY <4>1, <5>1 DEF Current
      <4>2. CASE d # n
        <5>1. d < n /\ d \in 1 .. Level
          BY <1>1, <2>2, <4>2
        <5> QED BY <5>1 DEF IInv, Layout
      <4> QED BY <4>1, <4>2
    <3> QED BY <1>4, <1>5, <2>2, <3>1, <3>2, <3>3, <3>4
  <2> QED BY <1>11, <2>1, <2>2
<1>13. Pointers'
  <2>1. frames' # <<>>
    BY <1>1, <1>4 DEF Level
  <2>2. frames'[n + 1].left = FALSE /\ frames'[n + 1].base = b /\ low(n + 1)' = b - m
    BY <1>4, <1>6
  <2>3. sp' = low(n + 1)' - pushed'
    <3>1. low(n + 1)' \in Int /\ sp' = low(n + 1)'
      BY <1>1, <1>2, <2>2
    <3> QED BY <3>1
  <2>4. fp' = frames'[n + 1].base + IF frames'[n + 1].left THEN saved(n + 1)' ELSE 0
    <3>1. b + 0 = b
      BY <1>1
    <3> QED BY <1>2, <2>2, <3>1
  <2> QED BY <1>4, <2>1, <2>2, <2>3, <2>4 DEF Pointers, Current
<1>14. Registers'
  <2> SUFFICES ASSUME NEW d \in 1 .. n + 1, NEW r \in SRegs, r > saved(d)' \/ frames'[d].left
               PROVE  After(d)'[r] = frames'[d].entry[r]
    BY <1>4 DEF Registers
  <2>1. CASE d = n + 1
    BY <1>4, <2>1 DEF After
  <2>2. CASE d \in 1 .. n
    <3>1. After(d)[r] = frames[d].entry[r]
      BY <1>4, <1>5, <2>2 DEF IInv, Registers
    <3>2. After(d)' = After(d)
      <4>1. CASE d = n
        BY <1>1, <1>4, <2>2, <4>1 DEF After
      <4>2. CASE d # n
        <5>1. d + 1 \in 1 .. n /\ d # n + 1
          BY <1>1, <2>2, <4>2
        <5> QED BY <1>4, <4>2, <5>1 DEF After
      <4> QED BY <4>1, <4>2
    <3> QED BY <1>4, <2>2, <3>1, <3>2
  <2> QED BY <1>11, <2>1, <2>2
<1>15. Contents'
  <2> SUFFICES ASSUME NEW d \in 1 .. n + 1 PROVE SavedPart(d)' /\ VariablePart(d)' /\ FormalPart(d)'
    BY <1>4 DEF Contents
  <2>1. CASE d \in 1 .. n
    <3>1. \A a \in Int : low(d) <= a /\ a < top(d) => a \in Stack /\ a \notin b .. b + k + 1
      <4> SUFFICES ASSUME NEW a \in Int, low(d) <= a, a < top(d)
                   PROVE  a \in Stack /\ a \notin b .. b + k + 1
        OBVIOUS
      <4>1. a \in Stack
        BY <2>1, Cells DEF IInv
      <4>2. sp + pushed <= a
        <5>1. low(d) \in Int /\ sp + pushed <= low(d)
          BY <1>9, <2>1
        <5>3. sp + pushed \in Int
          BY <1>1, SMTT(30)
        <5>2. \A x, y, z \in Int : x <= y /\ y <= z => x <= z
          OBVIOUS
        <5> QED BY <5>1, <5>2, <5>3
      <4> QED BY <1>8, <1>w, <4>1, <4>2 DEF Window
    <3>2. \A a \in Int : low(d) <= a /\ a < top(d) => mem'[a] = mem[a]
      BY <1>2, <3>1
    <3>3. d > 1 => d - 1 \in 1 .. n
      BY <1>1, <2>1
    <3> QED BY <1>4, <2>1, <3>2, <3>3, Kept DEF IInv, Contents
  <2>2. CASE d = n + 1
    <3>1. \A a \in b .. b + k + 1 + pushed : a \in Stack
      <4>1. -StackWords <= b - m /\ b + k + 2 + pushed <= 0
        BY <1>2, <1>8 DEF Stack
      <4>2. StackWords \in Nat /\ m \in Nat
        BY <1>1
      <4> QED BY <1>w, <4>1, <4>2 DEF Stack, Window
    <3>2. frames'[d] = f /\ f.base = b /\ f.entry = sreg /\ f.written = {} /\ d - 1 = n
      <4>1. frames'[d] = f
        BY <1>4, <2>2
      <4>2. f.base = b /\ f.entry = sreg /\ f.written = {}
        OBVIOUS
      <4>3. d - 1 = n
        BY <1>1, <2>2
      <4> QED BY <4>1, <4>2, <4>3
    <3>3. saved(d)' = k /\ num_formals(d)' = pushed
      BY <1>6, <2>2
    <3>4. ASSUME NEW r \in 1 .. k PROVE mem'[b + r - 1] = sreg[r]
      <4>1. b + r - 1 \in b .. b + k + 1 /\ b + r - 1 < b + k /\ (b + r - 1) - b + 1 = r
        BY <1>w DEF Window
      <4>2. b + r - 1 \in Stack
        BY <1>w, <3>1, <4>1 DEF Window
      <4>3. \A a \in Stack : a \in b .. b + k + 1 /\ a < b + k => mem'[a] = sreg[a - b + 1]
        BY <1>2
      <4>4. mem'[b + r - 1] = sreg[(b + r - 1) - b + 1]
        BY <4>1, <4>2, <4>3
      <4> QED BY <4>1, <4>4
    <3>5. mem'[b + k] = Word(n, "ra", 0)
      <4>1. b + k \in b .. b + k + 1 /\ ~(b + k < b + k) /\ b + k \in Stack
        BY <1>w, <3>1 DEF Window
      <4> QED BY <1>2, <4>1
    <3>6. mem'[b + k + 1] = Word(n, "fp", fp)
      <4>1. b + k + 1 \in b .. b + k + 1 /\ ~(b + k + 1 < b + k) /\ b + k + 1 # b + k /\ b + k + 1 \in Stack
        BY <1>w, <3>1 DEF Window
      <4> QED BY <1>2, <4>1
    <3>7. fp = IF d = 1 THEN 0 ELSE frames'[d - 1].base
      <4>1. CASE frames = <<>>
        BY <1>7, <2>2, <4>1
      <4>2. CASE frames # <<>>
        <5>1. d # 1 /\ n \in 1 .. n
          BY <1>1, <1>7, <2>2, <4>2
        <5>2. frames'[d - 1] = frames[n]
          BY <1>4, <3>2, <5>1
        <5> QED BY <1>7, <4>2, <5>1, <5>2
      <4> QED BY <4>1, <4>2
    <3>8. SavedPart(d)'
      BY <3>2, <3>3, <3>4, <3>5, <3>6, <3>7 DEF SavedPart
    <3>9. VariablePart(d)'
      BY <3>2 DEF VariablePart
    <3>10. ASSUME NEW i \in 1 .. pushed PROVE mem'[b + i + 1] = Word(n, "argument", i)
      <4>1. pushed > 0 /\ k = 0
        BY <1>1
      <4>2. calling = h
        BY <4>1 DEF IInv, Pointers
      <4> PICK j : j = pushed - i + 1
        OBVIOUS
      <4>3. /\ j \in 1 .. pushed /\ sp + pushed - j = b + i + 1
            /\ prog.num_formals[calling] - j + 1 = i
        BY <1>w, <4>1, <4>2 DEF Window
      <4>4. mem[b + i + 1] = Word(n, "argument", i)
        BY <4>3 DEF IInv, Arguments
      <4>5. b + i + 1 \in Stack /\ b + i + 1 \notin b .. b + k + 1
        BY <1>w, <3>1, <4>1 DEF Window
      <4> QED BY <1>2, <4>4, <4>5
    <3>11. FormalPart(d)'
      BY <3>2, <3>3, <3>10 DEF FormalPart
    <3> QED BY <3>8, <3>9, <3>11
  <2> QED BY <1>11, <2>1, <2>2
<1>16. Arguments'
  BY DEF Arguments
<1> QED BY <1>4, <1>10, <1>12, <1>13, <1>14, <1>15, <1>16 DEF IInv

LEMMA StartInv == ASSUME Parameters, IInv, StartMain PROVE IInv' /\ Level' = Level + 1
<1>1. /\ frames = <<>> /\ calling = 0 /\ pushed = 0 /\ 1 \in Procedures
      /\ prog.num_formals[1] = 0 /\ UNCHANGED <<prog, sreg, calling, pushed>> /\ OP_Enter(1)
  BY DEF StartMain, IInv, TypeOK, Pointers, Parameters, Bare, Procedures
<1> QED BY <1>1, EnterInv

LEMMA CallInv ==
  ASSUME Parameters, IInv, NEW h \in Procedures, OP_Call(h)
  PROVE  IInv' /\ Level' = Level + 1
<1>1. /\ calling' = 0 /\ pushed' = 0 /\ prog' = prog /\ sreg' = sreg /\ OP_Enter(h)
      /\ pushed = prog.num_formals[h]
  BY DEF OP_Call
<1>2. calling # 0 => calling = h
  BY DEF OP_Call, FrameComputes
<1>3. Current.left /\ frames # <<>> => Current.function \in prog.expr
  <2>1. h # 0
    BY DEF Parameters, Procedures
  <2> QED BY <2>1 DEF OP_Call, FrameComputes, IInv, Pointers
<1> QED BY <1>1, <1>2, <1>3, EnterInv

\* OP_Leave restores what the activation saved; the others it never wrote.
LEMMA LeaveInv == ASSUME Parameters, IInv, OP_Leave PROVE IInv' /\ Level' = Level
<1> PICK n, k, f : n = Level /\ k = saved(n) /\ f = frames[n]
  OBVIOUS
<1>1. /\ frames # <<>> /\ calling = 0 /\ pushed = 0 /\ ~f.left
      /\ sp' = (IF k > 0 THEN fp ELSE sp)
      /\ sreg' = [r \in SRegs |-> IF r <= k THEN mem[fp + r - 1] ELSE sreg[r]]
      /\ fp' = fp + k /\ frames' = [frames EXCEPT ![n].left = TRUE]
      /\ UNCHANGED <<prog, mem, calling, pushed>>
  BY DEF OP_Leave, Current, IInv, Pointers
<1>2. n \in Nat /\ n \in 1 .. n /\ fp = f.base /\ sp = low(n) - pushed
  BY <1>1, InPlace DEF Current
<1>3. /\ f \in Frames /\ f.base \in Int /\ k \in Nat /\ low(n) \in Int
      /\ f.entry \in [SRegs -> Words] /\ (f.function \in prog.expr => k = 0)
  BY <1>2, FrameType DEF IInv
<1>4. [f EXCEPT !.left = TRUE] \in Frames
  BY <1>3 DEF Frames
<1>5. frames' \in Seq(Frames) /\ Level' = n
  <2>1. frames' = [frames EXCEPT ![n] = [f EXCEPT !.left = TRUE]]
    BY <1>1
  <2> QED BY <1>2, <1>4, <2>1, ExceptSeq DEF IInv, TypeOK, Level
<1>6. \A d \in 1 .. n :
        /\ frames'[d].function = frames[d].function /\ frames'[d].base = frames[d].base
        /\ frames'[d].entry = frames[d].entry /\ frames'[d].written = frames[d].written
        /\ d # n => frames'[d].left = frames[d].left
        /\ d = n => frames'[d].left = TRUE
  <2> SUFFICES ASSUME NEW d \in 1 .. n
               PROVE  /\ frames'[d].function = frames[d].function /\ frames'[d].base = frames[d].base
                      /\ frames'[d].entry = frames[d].entry /\ frames'[d].written = frames[d].written
                      /\ d # n => frames'[d].left = frames[d].left
                      /\ d = n => frames'[d].left = TRUE
    OBVIOUS
  <2>1. d \in DOMAIN frames
    BY LenProperties DEF IInv, TypeOK, Level
  <2>2. frames'[d] = IF d = n THEN [f EXCEPT !.left = TRUE] ELSE frames[d]
    BY <1>1, <2>1
  <2> QED BY <1>3, <2>2, ZenonT(60) DEF Frames
<1>7. \A d \in 1 .. n : /\ saved(d)' = saved(d) /\ num_formals(d)' = num_formals(d)
                       /\ words(d)' = words(d) /\ low(d)' = low(d) /\ top(d)' = top(d)
  BY <1>1, <1>6, SameLayout
<1>8. \A d \in 1 .. n : \A e \in 1 .. d - 1 : e \in 1 .. n
  BY <1>2
<1>9. \A d \in 1 .. n : d > 1 => d - 1 \in 1 .. n
  BY <1>2
\* All $s registers are as the caller left them.
<1>10. sreg' \in [SRegs -> Words] /\ \A r \in SRegs : sreg'[r] = f.entry[r]
  <2> SUFFICES ASSUME NEW r \in SRegs
               PROVE  (IF r <= k THEN mem[fp + r - 1] ELSE sreg[r]) = f.entry[r]
    BY <1>1, <1>3
  <2>1. CASE r <= k
    <3>1. r \in 1 .. k
      BY <2>1 DEF SRegs
    <3> QED BY <1>2, <2>1, <3>1 DEF IInv, Contents, SavedPart
  <2>2. CASE ~(r <= k)
    <3>1. r > k
      BY <1>3, <2>2 DEF SRegs
    <3> QED BY <1>2, <2>2, <3>1 DEF IInv, Registers, After
  <2> QED BY <2>1, <2>2
<1>11. TypeOK'
  <2>1. sp' \in Int /\ fp' \in Int
    BY <1>1, <1>2, <1>3 DEF IInv, TypeOK
  <2> QED BY <1>1, <1>5, <1>10, <2>1 DEF IInv, TypeOK
<1>12. Layout'
  <2> SUFFICES ASSUME NEW d \in 1 .. n
               PROVE  /\ top(d) <= 0 /\ -StackWords <= low(d)
                      /\ \A e \in 1 .. d - 1 : top(d) <= low(e)'
                      /\ d > 1 => top(d) = low(d - 1)'
                      /\ frames'[d].written \subseteq -words(d) .. -1 \cup 2 .. num_formals(d) + 1
                      /\ frames'[d].left /\ d < n => frames'[d].function \in prog.expr
    BY <1>1, <1>5, <1>7 DEF Layout
  <2>1. /\ top(d) <= 0 /\ -StackWords <= low(d)
        /\ \A e \in 1 .. d - 1 : top(d) <= low(e)
        /\ d > 1 => top(d) = low(d - 1)
        /\ frames[d].written \subseteq -words(d) .. -1 \cup 2 .. num_formals(d) + 1
        /\ frames[d].left /\ d < n => frames[d].function \in prog.expr
    BY DEF IInv, Layout
  <2>2. d < n => d # n
    BY <1>2
  <2> QED BY <1>6, <1>7, <1>8, <1>9, <2>1, <2>2
<1>13. Pointers'
  <2>1. frames' # <<>>
    BY <1>2, <1>5 DEF Level
  <2>2. /\ frames'[n].left = TRUE /\ frames'[n].base = f.base /\ frames'[n].function = f.function
        /\ saved(n)' = k /\ low(n)' = low(n)
    BY <1>2, <1>6, <1>7
  <2>3. f.function \in prog.expr => sp' = sp
    BY <1>1, <1>3
  <2> QED BY <1>1, <1>2, <1>5, <2>1, <2>2, <2>3 DEF Pointers, Current
<1>14. Registers'
  <2> SUFFICES ASSUME NEW d \in 1 .. n, NEW r \in SRegs, r > saved(d) \/ frames'[d].left
               PROVE  After(d)'[r] = frames'[d].entry[r]
    BY <1>5, <1>7 DEF Registers
  <2>1. CASE d = n
    BY <1>2, <1>5, <1>6, <1>10, <2>1 DEF After
  <2>2. CASE d # n
    <3>1. d + 1 \in 1 .. n
      BY <1>2, <2>2
    <3>2. After(d)' = After(d)
      BY <1>5, <1>6, <2>2, <3>1 DEF After
    <3> QED BY <1>6, <2>2, <3>2 DEF IInv, Registers
  <2> QED BY <2>1, <2>2
<1>15. Contents'
  <2> SUFFICES ASSUME NEW d \in 1 .. n PROVE SavedPart(d)' /\ VariablePart(d)' /\ FormalPart(d)'
    BY <1>5 DEF Contents
  <2> QED BY <1>1, <1>6, <1>9, Kept DEF IInv, Contents
<1>16. Arguments'
  <2>1. pushed' = 0
    BY <1>1
  <2> QED BY <2>1 DEF Arguments
<1> QED BY <1>5, <1>11, <1>12, <1>13, <1>14, <1>15, <1>16 DEF IInv

\* OP_Return and the caller's pop put back the caller's $fp and $sp.
LEMMA ReturnEffect ==
  ASSUME Parameters, IInv, OP_Return
  PROVE  /\ Level \in Nat /\ Level - 1 \in 1 .. Level /\ Level' = Level - 1
         /\ frames' \in Seq(Frames) /\ \A d \in 1 .. Level - 1 : frames'[d] = frames[d]
         /\ mem[fp] = Word(Level - 1, "ra", 0)
         /\ fp' = frames[Level - 1].base /\ sp' = low(Level - 1)
         /\ \A r \in SRegs : sreg'[r] = frames[Level].entry[r]
         /\ frames[Level - 1].left => frames[Level - 1].function \in prog.expr
<1> PICK n, f : n = Level /\ f = frames[n]
  OBVIOUS
<1>1. /\ n > 1 /\ calling = 0 /\ f.left
      /\ fp' = mem[fp + 1].n /\ sp' = fp + 2 + num_formals(n)
      /\ frames' = Front(frames) /\ UNCHANGED <<prog, mem, sreg, calling, pushed>>
  BY DEF OP_Return, Current
<1>2. n \in Nat /\ n \in 1 .. Level /\ n - 1 \in 1 .. Level /\ n - 1 \in Int /\ frames # <<>>
  BY <1>1, DepthType DEF IInv
<1>3. /\ frames' \in Seq(Frames) /\ Level' = n - 1
      /\ \A d \in 1 .. n - 1 : frames'[d] = frames[d]
  BY <1>1, <1>2, FrontOf DEF IInv, TypeOK, Level
<1>4. f.base \in Int /\ saved(n) \in Nat /\ num_formals(n) \in Nat
  BY <1>2, FrameType DEF IInv
<1>5. fp = f.base + saved(n)
  BY <1>1, <1>2 DEF IInv, Pointers
<1>6. mem[fp] = Word(n - 1, "ra", 0) /\ mem[fp + 1] = Word(n - 1, "fp", frames[n - 1].base)
  <2>1. n # 1
    BY <1>1
  <2> QED BY <1>2, <1>5, <2>1 DEF IInv, Contents, SavedPart
<1>7. fp' = frames[n - 1].base
  <2>1. frames[n - 1].base \in Int
    BY <1>2, FrameType DEF IInv
  <2> QED BY <1>1, <1>2, <1>6, <2>1, WordType
<1>8. sp' = low(n - 1)
  <2>1. top(n) = low(n - 1)
    BY <1>1, <1>2 DEF IInv, Layout
  <2> QED BY <1>1, <1>4, <1>5, <2>1 DEF top
<1>9. \A r \in SRegs : sreg'[r] = f.entry[r]
  BY <1>1, <1>2 DEF IInv, Registers, After
<1>10. frames[n - 1].left => frames[n - 1].function \in prog.expr
  <2>1. n - 1 < n
    BY <1>2
  <2> QED BY <1>2, <2>1 DEF IInv, Layout
<1> QED BY <1>2, <1>3, <1>6, <1>7, <1>8, <1>9, <1>10

LEMMA ReturnInv == ASSUME Parameters, IInv, OP_Return PROVE IInv'
<1> PICK n : n = Level - 1
  OBVIOUS
<1>1. /\ Level \in Nat /\ n \in 1 .. Level /\ n \in 1 .. n /\ n \in Nat /\ Level = n + 1 /\ Level' = n
      /\ frames' \in Seq(Frames) /\ \A d \in 1 .. n : frames'[d] = frames[d]
      /\ fp' = frames[n].base /\ sp' = low(n)
      /\ \A r \in SRegs : sreg'[r] = frames[n + 1].entry[r]
      /\ (frames[n].left => frames[n].function \in prog.expr)
  BY ReturnEffect
<1>2. /\ calling = 0 /\ pushed = 0 /\ UNCHANGED <<prog, mem, sreg, calling, pushed>>
  BY DEF OP_Return, IInv, Pointers
<1>3. \A d \in 1 .. n : d \in 1 .. Level /\ d # Level
  BY <1>1
<1>4. \A d \in 1 .. n : /\ saved(d)' = saved(d) /\ num_formals(d)' = num_formals(d)
                       /\ words(d)' = words(d) /\ low(d)' = low(d) /\ top(d)' = top(d)
  BY <1>1, <1>2, SameLayout
<1>5. \A d \in 1 .. n : \A e \in 1 .. d - 1 : e \in 1 .. n
  BY <1>1
<1>6. \A d \in 1 .. n : d > 1 => d - 1 \in 1 .. n
  BY <1>1
<1>7. /\ frames[n].base \in Int /\ low(n) \in Int
      /\ (frames[n].function \in prog.expr => saved(n) = 0)
  BY <1>1, FrameType DEF IInv
<1>8. TypeOK'
  BY <1>1, <1>2, <1>7 DEF IInv, TypeOK
<1>9. Layout'
  <2> SUFFICES ASSUME NEW d \in 1 .. n
               PROVE  /\ top(d) <= 0 /\ -StackWords <= low(d)
                      /\ \A e \in 1 .. d - 1 : top(d) <= low(e)'
                      /\ d > 1 => top(d) = low(d - 1)'
                      /\ frames[d].written \subseteq -words(d) .. -1 \cup 2 .. num_formals(d) + 1
                      /\ frames[d].left /\ d < n => frames[d].function \in prog.expr
    BY <1>1, <1>2, <1>4 DEF Layout
  <2>1. d < n => d < Level
    BY <1>1
  <2> QED BY <1>3, <1>4, <1>5, <1>6, <2>1 DEF IInv, Layout
<1>10. Pointers'
  <2>1. frames' # <<>> /\ frames'[n] = frames[n]
    BY <1>1 DEF Level
  <2>2. frames[n].base = frames[n].base + IF frames[n].left THEN saved(n) ELSE 0
    BY <1>1, <1>7
  <2>3. low(n) = low(n) - 0
    BY <1>7
  <2>4. saved(n)' = saved(n) /\ low(n)' = low(n)
    BY <1>1, <1>4
  <2> QED BY <1>1, <1>2, <2>1, <2>2, <2>3, <2>4 DEF Pointers, Current
<1>11. Registers'
  <2> SUFFICES ASSUME NEW d \in 1 .. n, NEW r \in SRegs, r > saved(d)' \/ frames'[d].left
               PROVE  After(d)'[r] = frames'[d].entry[r]
    BY <1>1 DEF Registers
  <2>0. frames'[d] = frames[d] /\ (r > saved(d) \/ frames[d].left)
    BY <1>1, <1>4
  <2>1. After(d)[r] = frames[d].entry[r] /\ After(d) = frames[d + 1].entry
    BY <1>3, <2>0 DEF IInv, Registers, After
  <2>2. CASE d = n
    BY <1>1, <2>0, <2>1, <2>2 DEF After
  <2>3. CASE d # n
    <3>1. d + 1 \in 1 .. n
      BY <1>1, <2>3
    <3> QED BY <1>1, <2>0, <2>1, <2>3, <3>1 DEF After
  <2> QED BY <2>2, <2>3
<1>12. Contents'
  <2> SUFFICES ASSUME NEW d \in 1 .. n PROVE SavedPart(d)' /\ VariablePart(d)' /\ FormalPart(d)'
    BY <1>1 DEF Contents
  <2>1. d \in 1 .. Level /\ (d > 1 => frames'[d - 1] = frames[d - 1])
    BY <1>1, <1>3, <1>6
  <2> QED BY <1>1, <1>2, <2>1, Kept DEF IInv, Contents
<1>13. Arguments'
  BY <1>2 DEF Arguments
<1> QED BY <1>8, <1>9, <1>10, <1>11, <1>12, <1>13 DEF IInv

\* The invariant is inductive, and only OP_Return ends an activation.
LEMMA StepInv ==
  ASSUME Parameters, IInv, [NextFrames]_frame_vars
  PROVE  IInv' /\ (Level' < Level => OP_Return)
<1>0. Level \in Nat
  BY DepthType DEF IInv
<1>1. CASE UNCHANGED frame_vars
  <2>1. Level' = Level
    BY <1>1 DEF frame_vars, Level
  <2>2. \A d : /\ saved(d)' = saved(d) /\ num_formals(d)' = num_formals(d)
               /\ words(d)' = words(d) /\ low(d)' = low(d) /\ top(d)' = top(d)
    BY <1>1 DEF frame_vars, saved, num_formals, words, low, top
  <2>3. TypeOK' /\ Arguments'
    BY <1>1, <2>1 DEF frame_vars, IInv, TypeOK, Arguments
  <2>4. Layout'
    BY <1>1, <2>1, <2>2 DEF frame_vars, IInv, Layout
  <2>5. Pointers'
    BY <1>1, <2>1, <2>2 DEF frame_vars, IInv, Pointers, Current
  <2>6. Registers'
    BY <1>1, <2>1, <2>2 DEF frame_vars, IInv, Registers, After
  <2>7. Contents'
    BY <1>1, <2>1, <2>2 DEF frame_vars, IInv, Contents, SavedPart, VariablePart, FormalPart
  <2> QED BY <1>0, <2>1, <2>3, <2>4, <2>5, <2>6, <2>7 DEF IInv
<1>2. CASE StartMain
  BY <1>0, <1>2, StartInv
<1>3. ASSUME NEW offset \in -StackWords .. StackWords, WriteVariable(offset)
      PROVE  IInv' /\ Level' = Level
  <2>1. offset \in Int
    BY DEF Parameters
  <2> QED BY <1>3, <2>1, WriteVariableInv
<1>4. ASSUME NEW r \in SRegs, WriteRegister(r) PROVE IInv' /\ Level' = Level
  BY <1>4, WriteRegisterInv DEF WriteRegister, Level
<1>5. ASSUME NEW h \in Procedures, OP_Param(h) PROVE IInv' /\ Level' = Level
  BY <1>5, ParamInv DEF OP_Param, Level
<1>6. ASSUME NEW h \in Procedures, OP_Call(h) PROVE IInv' /\ Level' = Level + 1
  BY <1>6, CallInv
<1>7. CASE OP_Leave
  BY <1>0, <1>7, LeaveInv
<1>8. CASE OP_Return
  BY <1>8, ReturnInv
<1>9. (Level' = Level \/ Level' = Level + 1) => ~(Level' < Level)
  BY <1>0
<1> QED BY <1>1, <1>2, <1>3, <1>4, <1>5, <1>6, <1>7, <1>8, <1>9 DEF NextFrames

LEMMA ReturnRestores ==
  ASSUME Parameters, IInv, OP_Return
  PROVE  /\ mem[fp] = Word(Level - 1, "ra", 0)
         /\ sreg' = Current.entry
         /\ fp' = frames[Level - 1].base
         /\ sp' = frames[Level - 1].base - words(Level - 1)
<1>1. sreg' = Current.entry
  <2>1. frames # <<>> /\ sreg' = sreg
    BY DepthType DEF OP_Return, IInv
  <2>2. Current.entry \in [SRegs -> Words]
    BY <2>1, DepthType, FrameType DEF IInv, Current
  <2>3. sreg \in [SRegs -> Words] /\ \A r \in SRegs : sreg'[r] = Current.entry[r]
    BY ReturnEffect DEF IInv, TypeOK, Current
  <2> QED BY <2>1, <2>2, <2>3
<1> QED BY <1>1, ReturnEffect DEF low

-----------------------------------------------------------------------------
\* Whatever the programs, as long as Bare, the frames hold what FramesIntact
\* and FormalsReach say at any depth.
THEOREM FramesHold == ASSUME Parameters PROVE FramesSpec => []IInv
<1>1. InitFrames => IInv
  BY InitInv
<1>2. IInv /\ [NextFrames]_frame_vars => IInv'
  BY StepInv
<1> QED BY <1>1, <1>2, PTL DEF FramesSpec

\* Calls and returns, at any depth and however they nest, leave every live
\* activation its variables, its caller's registers, the way back and the
\* caller's $fp (OP_Enter, OP_Leave, OP_Return).
THEOREM FramesNeverDisturbed == ASSUME Parameters PROVE FramesSpec => []FramesIntact
<1>1. IInv => FramesIntact
  BY ContentsIs DEF IInv
<1> QED BY <1>1, FramesHold, PTL

\* Formals are the arguments OP_Param pushed until they are assigned.
THEOREM FormalsAreArguments == ASSUME Parameters PROVE FramesSpec => []FormalsReach
<1>1. IInv => FormalsReach
  BY ContentsIs DEF IInv
<1> QED BY <1>1, FramesHold, PTL

\* Every call comes back to its caller, with $fp, $sp and the $s registers
\* as they were.
THEOREM CallsComeBack == ASSUME Parameters PROVE FramesSpec => CallsRestore
<1>1. IInv /\ [NextFrames]_frame_vars =>
        [Level > 1 /\ Len(frames') < Level =>
           /\ mem[fp] = Word(Level - 1, "ra", 0)
           /\ sreg' = Current.entry
           /\ fp' = frames[Level - 1].base
           /\ sp' = frames[Level - 1].base - words(Level - 1)]_frame_vars
  BY StepInv, ReturnRestores DEF Level
<1> QED BY <1>1, FramesHold, PTL DEF FramesSpec, CallsRestore

-----------------------------------------------------------------------------
(***************************************************************************)
(* The frame an activation has: sound for every symbol table and every     *)
(* order in which allocate comes to its entries.                           *)
(***************************************************************************)
LEMMA MultiplesOfFour ==
  ASSUME NEW x \in Int, NEW n \in Int, x % 4 = 0
  PROVE  (x + 4 * n) % 4 = 0 /\ (-(x + 4 * n)) % 4 = 0
  OBVIOUS

\* What Align does to an offset.
LEMMA AlignedRoundsUp ==
  ASSUME NEW x \in Nat
  PROVE  Aligned(x) \in Nat /\ Aligned(x) >= x /\ Aligned(x) % 4 = 0
  BY DEF Aligned

LEMMA ByteSizeNat ==
  ASSUME NEW v \in Entries
  PROVE  byte_size(v) \in Nat
  BY EntriesAssumption DEF byte_size

-----------------------------------------------------------------------------
\* The slots already given out: within the frame so far, apart from each
\* other, words aligned, formals above the frame.
SlotsApart == \A v, w \in allocated : v # w => Apart(v, w)
FormalsAbove == \A v \in Formals : fp_offset[v] >= 0
BytesFirst == pass = "t_1B" => allocated \subseteq Bytes
LayoutInv ==
  /\ LayoutTypeOK /\ FormalsAbove /\ BytesFirst
  /\ SlotsApart /\ SlotsInFrame /\ WordsAligned

LEMMA InitLayoutInv == InitLayout => LayoutInv
  <1> SUFFICES ASSUME InitLayout PROVE LayoutInv
    OBVIOUS
  <1>1. LayoutTypeOK
    BY EntriesAssumption DEF InitLayout, LayoutTypeOK
  <1>2. FormalsAbove
    BY EntriesAssumption DEF InitLayout, FormalsAbove
  <1>3. BytesFirst /\ SlotsApart /\ SlotsInFrame /\ WordsAligned
    BY DEF InitLayout, BytesFirst, SlotsApart, SlotsInFrame, WordsAligned
  <1> QED
    BY <1>1, <1>2, <1>3 DEF LayoutInv

LEMMA AlignInv == ASSUME LayoutInv, Align PROVE LayoutInv'
  <1>1. curr_fp_offset' \in Nat /\ curr_fp_offset' >= curr_fp_offset /\ curr_fp_offset' % 4 = 0
    BY AlignedRoundsUp DEF LayoutInv, LayoutTypeOK, Align
  <1>2. LayoutTypeOK'
    BY <1>1 DEF LayoutInv, LayoutTypeOK, Align
  <1>3. FormalsAbove' /\ BytesFirst'
    BY DEF LayoutInv, Align, FormalsAbove, BytesFirst
  <1>4. SlotsApart'
    BY DEF LayoutInv, Align, SlotsApart, Apart
  <1>5. SlotsInFrame'
    <2> SUFFICES ASSUME NEW v \in allocated'
                 PROVE  -curr_fp_offset' <= fp_offset'[v] /\ fp_offset'[v] + byte_size(v) <= 0
      BY DEF SlotsInFrame
    <2>1. -curr_fp_offset <= fp_offset[v] /\ fp_offset[v] + byte_size(v) <= 0
      BY DEF LayoutInv, SlotsInFrame, Align
    <2>2. fp_offset' = fp_offset /\ fp_offset[v] \in Int /\ curr_fp_offset \in Nat
      BY DEF LayoutInv, LayoutTypeOK, Align, Locals
    <2> QED
      BY <1>1, <2>1, <2>2
  <1>6. WordsAligned'
    BY <1>1 DEF LayoutInv, Align, WordsAligned
  <1> QED
    BY <1>2, <1>3, <1>4, <1>5, <1>6 DEF LayoutInv

LEMMA AllocateInv == ASSUME LayoutInv, NEW v \in Entries, allocate(v) PROVE LayoutInv'
  <1> USE DEF LayoutInv
  <1>1. /\ v \in Locals /\ v \notin allocated /\ v \notin Formals
        /\ byte_size(v) \in Nat /\ curr_fp_offset \in Nat
        /\ fp_offset \in [Entries -> Int] /\ allocated \subseteq Entries
    BY ByteSizeNat DEF allocate, OfSize, Locals, LayoutTypeOK
  <1>2. /\ curr_fp_offset' = curr_fp_offset + byte_size(v)
        /\ curr_fp_offset' \in Nat
        /\ fp_offset'[v] = -curr_fp_offset' /\ fp_offset'[v] \in Int
        /\ \A w \in Entries : w # v => fp_offset'[w] = fp_offset[w]
        /\ fp_offset' \in [Entries -> Int]
    BY <1>1 DEF allocate
  <1>3. LayoutTypeOK'
    BY <1>1, <1>2 DEF LayoutTypeOK, allocate
  <1>4. FormalsAbove'
    BY <1>1, <1>2, EntriesAssumption DEF FormalsAbove
  <1>5. BytesFirst'
    BY DEF BytesFirst, allocate, OfSize
  <1>6. ASSUME NEW w \in allocated
        PROVE  /\ fp_offset'[w] = fp_offset[w] /\ fp_offset[w] \in Int
               /\ byte_size(w) \in Nat
               /\ -curr_fp_offset <= fp_offset[w] /\ fp_offset[w] + byte_size(w) <= 0
    <2>1. w \in Entries /\ w # v
      BY <1>1
    <2> QED
      BY <1>1, <1>2, <2>1, ByteSizeNat DEF SlotsInFrame
  <1>7. SlotsInFrame'
    <2> SUFFICES ASSUME NEW w \in allocated'
                 PROVE  -curr_fp_offset' <= fp_offset'[w] /\ fp_offset'[w] + byte_size(w) <= 0
      BY DEF SlotsInFrame
    <2>1. CASE w = v
      BY <1>1, <1>2, <2>1
    <2>2. CASE w # v
      <3>1. w \in allocated
        BY <2>2 DEF allocate
      <3> QED
        BY <1>1, <1>2, <1>6, <3>1
    <2> QED
      BY <2>1, <2>2
  <1>8. SlotsApart'
    <2> SUFFICES ASSUME NEW w \in allocated', NEW u \in allocated', w # u
                 PROVE  Apart(w, u)'
      BY DEF SlotsApart
    <2>1. allocated' = allocated \cup {v}
      BY DEF allocate
    <2>2. ASSUME NEW x \in allocated
          PROVE  fp_offset'[v] + byte_size(v) <= fp_offset'[x]
      BY <1>1, <1>2, <1>6
    <2>3. CASE w = v
      BY <2>1, <2>2, <2>3 DEF Apart
    <2>4. CASE u = v
      BY <2>1, <2>2, <2>4 DEF Apart
    <2>5. CASE w # v /\ u # v
      <3>1. w \in allocated /\ u \in allocated
        BY <2>1, <2>5
      <3>2. Apart(w, u)
        BY <3>1 DEF SlotsApart
      <3> QED
        BY <1>6, <3>1, <3>2 DEF Apart
    <2> QED
      BY <2>3, <2>4, <2>5
  <1>9. WordsAligned'
    <2>1. CASE pass = "t_1B"
      BY <2>1 DEF WordsAligned, BytesFirst, allocate, OfSize
    <2>2. CASE pass = "t_4B"
      <3>1. v \notin Bytes /\ byte_size(v) = 4 * num_elts[v] /\ num_elts[v] \in Nat
        BY <2>2, EntriesAssumption DEF allocate, OfSize, byte_size
      <3>2. curr_fp_offset' % 4 = 0 /\ (-curr_fp_offset') % 4 = 0
        BY <1>1, <1>2, <2>2, <3>1, MultiplesOfFour DEF WordsAligned
      <3>3. ASSUME NEW w \in allocated', w \notin Bytes
            PROVE  fp_offset'[w] % 4 = 0
        <4>1. CASE w = v
          BY <1>2, <3>2, <4>1
        <4>2. CASE w # v
          <5>1. w \in allocated
            BY <4>2 DEF allocate
          <5> QED
            BY <1>6, <3>3, <5>1 DEF WordsAligned
        <4> QED
          BY <4>1, <4>2
      <3> QED
        BY <3>2, <3>3 DEF WordsAligned
    <2> QED
      BY <2>1, <2>2 DEF LayoutTypeOK
  <1> QED
    BY <1>3, <1>4, <1>5, <1>7, <1>8, <1>9

LEMMA NextLayoutInv == LayoutInv /\ [NextLayout]_layout_vars => LayoutInv'
  <1> SUFFICES ASSUME LayoutInv, [NextLayout]_layout_vars PROVE LayoutInv'
    OBVIOUS
  <1>1. CASE Align
    BY <1>1, AlignInv
  <1>2. ASSUME NEW v \in Entries, allocate(v) PROVE LayoutInv'
    BY <1>2, AllocateInv
  <1>3. CASE UNCHANGED layout_vars
    BY <1>3 DEF LayoutInv, layout_vars, LayoutTypeOK, FormalsAbove, BytesFirst, SlotsApart,
                SlotsInFrame, WordsAligned, Apart
  <1> QED
    BY <1>1, <1>2, <1>3 DEF NextLayout

LEMMA InvImpliesSound == LayoutInv => FrameSound
  <1> SUFFICES ASSUME LayoutInv PROVE SlotsDisjoint
    BY DEF LayoutInv, FrameSound
  <1> SUFFICES ASSUME NEW v \in allocated \cup Formals, NEW w \in allocated \cup Formals, v # w,
                      ~(v \in Formals /\ w \in Formals)
               PROVE  Apart(v, w)
    BY DEF SlotsDisjoint
  <1>1. ASSUME NEW x \in allocated, NEW y \in Formals
        PROVE  fp_offset[x] + byte_size(x) <= fp_offset[y]
    <2>1. x \in Entries /\ y \in Entries
      BY EntriesAssumption DEF LayoutInv, LayoutTypeOK, Locals
    <2>2. fp_offset[x] \in Int /\ fp_offset[y] \in Int /\ byte_size(x) \in Nat
      BY <2>1, ByteSizeNat DEF LayoutInv, LayoutTypeOK
    <2>3. fp_offset[x] + byte_size(x) <= 0 /\ fp_offset[y] >= 0
      BY DEF LayoutInv, SlotsInFrame, FormalsAbove
    <2> QED
      BY <2>2, <2>3
  <1>2. CASE v \in allocated /\ w \in allocated
    BY <1>2 DEF LayoutInv, SlotsApart
  <1>3. CASE v \in allocated /\ w \in Formals
    BY <1>1, <1>3 DEF Apart
  <1>4. CASE v \in Formals /\ w \in allocated
    BY <1>1, <1>4 DEF Apart
  <1> QED
    BY <1>2, <1>3, <1>4

\* fill_local_allocations: in every frame the variables and the formals share
\* no byte, the variables lie in the byte_size bytes below $fp, and words are
\* at multiples of four.
THEOREM FrameIsSound == LayoutSpec => []FrameSound
  <1> QED
    BY InitLayoutInv, NextLayoutInv, InvImpliesSound, PTL DEF LayoutSpec
=============================================================================
