----------------------------- MODULE ProgramProofs -----------------------------
(******************************************************************************)
(* Theorems about three programs that share nothing: exceptions in C          *)
(* (CExcept), the queues of the cooperative threads (CoopThread) and the      *)
(* triggers that keep the branch statistics (BranchStats).                    *)
(******************************************************************************)
EXTENDS CExcept, CoopThread, BranchStats, Loops, SequenceTheorems, FiniteSetTheorems

-----------------------------------------------------------------------------
(******************************************************************************)
(* CExcept: for every set of exception types, every depth of nesting and      *)
(* every order of throws, handlers and rethrows.                              *)
(******************************************************************************)

Frame == [mode : {"trying", "caught", "handling"},
          catches : SUBSET Catchable,
          exception : Catchable \cup {NO_EXCEPTION}]

ExceptTypeOK ==
    /\ frames \in Seq(Frame)
    /\ env_stack \in Seq(Nat)
    /\ aborted \in BOOLEAN

Trying == {f \in DOMAIN frames : frames[f].mode = "trying"}

(* The exception on its way, if there is one, has reached the last frame.   *)
Caught(f) == frames[f].mode = "caught"
OnlyLastCaught == \A f \in DOMAIN frames : Caught(f) => f = Len(frames)

(* A frame that has caught an exception or handles one knows which.         *)
ExceptionsKnown ==
    \A f \in DOMAIN frames :
        frames[f].mode # "trying" => frames[f].exception # NO_EXCEPTION

(* An exception on its way is going to its target: the frame it has reached *)
(* if that one catches it, otherwise the innermost able one still trying.   *)
OnItsWay ==
    /\ frames # <<>> /\ Caught(Len(frames)) =>
          LET f == frames[Len(frames)]
          IN  target = IF f.exception \in f.catches THEN Len(frames)
                                                    ELSE Handler(f.exception)
    /\ aborted => target = 0

ExceptInv ==
    /\ ExceptTypeOK /\ StackMatchesTries
    /\ OnlyLastCaught /\ ExceptionsKnown /\ OnItsWay

-----------------------------------------------------------------------------
(* Frames and buffers as sequences. *)

(* The facts about a sequence that the proofs look at. *)
LEMMA SequenceFacts ==
    ASSUME NEW S, NEW s \in Seq(S)
    PROVE  /\ Len(s) \in Nat /\ DOMAIN s = 1 .. Len(s)
           /\ s = <<>> <=> Len(s) = 0
           /\ \A k \in 1 .. Len(s) : s[k] \in S
BY LenProperties, EmptySeq, ElementOfSeq

(* Front drops the last element. *)
LEMMA FrontFacts ==
    ASSUME NEW S, NEW s \in Seq(S), s # <<>>
    PROVE  /\ Front(s) \in Seq(S)
           /\ Len(Front(s)) = Len(s) - 1
           /\ \A k \in 1 .. Len(s) - 1 : Front(s)[k] = s[k]
           /\ Last(s) = s[Len(s)]
<1>1. /\ Len(s) \in Nat \ {0}
      /\ \A k \in 1 .. Len(s) : s[k] \in S
  BY SequenceFacts
<1>2. \A k \in 1 .. Len(s) - 1 : s[k] \in S
  BY <1>1
<1> DEFINE m == Len(s) - 1
           front == SubSeq(s, 1, m)
<1>3. /\ front \in Seq(S)
      /\ Len(front) = IF 1 <= m THEN m - 1 + 1 ELSE 0
      /\ \A i \in 1 .. m - 1 + 1 : front[i] = s[1 + i - 1]
  BY <1>1, <1>2, SubSeqProperties
<1>4. m \in Nat
  BY <1>1
<1>5. Front(s) = front /\ Last(s) = s[Len(s)]
  BY DEF Front, Last
<1> HIDE DEF m, front
<1>6. Len(front) = m /\ \A i \in 1 .. m : front[i] = s[i]
  <2>1. m - 1 + 1 = m
    BY <1>4
  <2>2. ASSUME NEW i \in 1 .. m PROVE front[i] = s[i]
    <3>1. 1 + i - 1 = i /\ i \in 1 .. m - 1 + 1
      BY <1>4
    <3>2. QED
      BY <1>3, <3>1
  <2>3. QED
    BY <1>3, <1>4, <2>1, <2>2
<1>7. QED
  BY <1>3, <1>5, <1>6 DEF m

(* The buffers are those of the trying frames, so the last one on the stack *)
(* is the innermost of them, and the stack is empty only if there is none.  *)
LEMMA LastBuffer ==
    ASSUME ExceptTypeOK, StackMatchesTries
    PROVE  /\ env_stack = <<>> <=> Trying = {}
           /\ env_stack # <<>> =>
                /\ Last(env_stack) \in Trying
                /\ \A f \in Trying : f <= Last(env_stack)
<1> DEFINE n == Len(env_stack)
<1>1. /\ n \in Nat /\ DOMAIN env_stack = 1 .. n /\ (env_stack = <<>> <=> n = 0)
      /\ \A k \in 1 .. n : env_stack[k] \in Nat
  BY SequenceFacts DEF ExceptTypeOK
<1>2. /\ Trying = {env_stack[k] : k \in 1 .. n}
      /\ \A i, j \in 1 .. n : i < j => env_stack[i] < env_stack[j]
  BY <1>1 DEF StackMatchesTries, Trying, Range
<1>3. Last(env_stack) = env_stack[n]
  BY DEF Last
<1> HIDE DEF n
<1>4. CASE n = 0
  BY <1>1, <1>2, <1>4
<1>5. CASE n # 0
  <2>1. n \in 1 .. n
    BY <1>1, <1>5
  <2>2. ASSUME NEW k \in 1 .. n PROVE env_stack[k] <= env_stack[n]
    BY <1>1, <1>2, <2>1
  <2>3. QED
    BY <1>1, <1>2, <1>3, <1>5, <2>1, <2>2
<1>6. QED
  BY <1>4, <1>5

(* What Trying is when the frames are typed. *)
LEMMA TryingFacts ==
    ASSUME ExceptTypeOK
    PROVE  /\ Len(frames) \in Nat /\ DOMAIN frames = 1 .. Len(frames)
           /\ frames = <<>> <=> Len(frames) = 0
           /\ \A f \in DOMAIN frames : frames[f] \in Frame
           /\ Trying \subseteq 1 .. Len(frames)
BY SequenceFacts DEF ExceptTypeOK, Trying

-----------------------------------------------------------------------------
(* Throwing. *)

(* Only trying frames can be a handler, so the innermost trying frame is    *)
(* the handler if it has a clause.                                          *)
LEMMA HandlerIsInnermost ==
    ASSUME ExceptTypeOK, NEW type, NEW f \in Trying, type \in frames[f].catches,
           \A g \in Trying : g <= f
    PROVE  Handler(type) = f
<1> DEFINE able == {g \in DOMAIN frames : /\ frames[g].mode = "trying"
                                          /\ type \in frames[g].catches}
<1>1. f \in able /\ able \subseteq Trying
  BY DEF Trying
<1>2. \A g \in able : g <= f /\ g \in Nat
  BY <1>1, TryingFacts
<1>3. Handler(type) = Max(able)
  BY <1>1 DEF Handler
<1> HIDE DEF able
<1>4. Max(able) = f
  <2>1. f \in able /\ \A g \in able : f >= g
    BY <1>1, <1>2
  <2>2. \A x \in able : (\A g \in able : x >= g) => x = f
    BY <1>1, <1>2
  <2>3. QED
    BY <2>1, <2>2 DEF Max
<1>5. QED
  BY <1>3, <1>4

(* With no frame trying there is no handler. *)
LEMMA NoHandler == ASSUME Trying = {}, NEW type PROVE Handler(type) = 0
BY DEF Handler, Trying

(* Popping the last buffer leaves those of the other trying frames.         *)
LEMMA PopBuffer ==
    ASSUME ExceptTypeOK, StackMatchesTries, env_stack # <<>>
    PROVE  /\ Front(env_stack) \in Seq(Nat)
           /\ Range(Front(env_stack)) = Trying \ {Last(env_stack)}
           /\ \A i, j \in DOMAIN Front(env_stack) :
                 i < j => Front(env_stack)[i] < Front(env_stack)[j]
<1> DEFINE n == Len(env_stack)
           front == Front(env_stack)
<1>1. /\ n \in Nat \ {0} /\ DOMAIN env_stack = 1 .. n
      /\ \A k \in 1 .. n : env_stack[k] \in Nat
  BY SequenceFacts DEF ExceptTypeOK
<1>2. /\ Trying = {env_stack[k] : k \in 1 .. n}
      /\ \A i, j \in 1 .. n : i < j => env_stack[i] < env_stack[j]
  BY <1>1 DEF StackMatchesTries, Trying, Range
<1>3. /\ front \in Seq(Nat) /\ Len(front) = n - 1
      /\ \A k \in 1 .. n - 1 : front[k] = env_stack[k]
      /\ Last(env_stack) = env_stack[n]
  BY FrontFacts DEF ExceptTypeOK
<1>4. DOMAIN front = 1 .. n - 1
  BY <1>3, SequenceFacts
<1> HIDE DEF n, front
<1>5. Range(front) = {env_stack[k] : k \in 1 .. n - 1}
  BY <1>3, <1>4 DEF Range
<1>6. 1 .. n = (1 .. n - 1) \cup {n} /\ n \notin 1 .. n - 1
  BY <1>1
<1>7. \A k \in 1 .. n - 1 : env_stack[k] # env_stack[n]
  <2> SUFFICES ASSUME NEW k \in 1 .. n - 1 PROVE env_stack[k] # env_stack[n]
    OBVIOUS
  <2>1. k \in 1 .. n /\ n \in 1 .. n /\ k < n
    BY <1>1
  <2>2. env_stack[k] < env_stack[n] /\ env_stack[k] \in Nat
    BY <1>1, <1>2, <2>1
  <2>3. QED
    BY <2>2
<1>8. Range(front) = Trying \ {env_stack[n]}
  BY <1>2, <1>5, <1>6, <1>7
<1>9. QED
  BY <1>2, <1>3, <1>4, <1>6, <1>8 DEF front

(* The frames once a throw has reached frame f, whose record is now new.    *)
LEMMA UnwindFacts ==
    ASSUME NEW fs \in Seq(Frame), NEW f \in 1 .. Len(fs), NEW new \in Frame
    PROVE  LET after == Append(SubSeq(fs, 1, f - 1), new)
           IN  /\ after \in Seq(Frame) /\ Len(after) = f
               /\ \A k \in 1 .. f - 1 : after[k] = fs[k]
               /\ after[f] = new
<1> DEFINE m == f - 1
           head == SubSeq(fs, 1, m)
<1>1. /\ Len(fs) \in Nat /\ m \in Nat /\ m + 1 = f
      /\ \A k \in 1 .. Len(fs) : fs[k] \in Frame
  BY SequenceFacts
<1>2. \A k \in 1 .. m : fs[k] \in Frame
  BY <1>1
<1>3. /\ head \in Seq(Frame)
      /\ Len(head) = IF 1 <= m THEN m - 1 + 1 ELSE 0
      /\ \A k \in 1 .. m - 1 + 1 : head[k] = fs[1 + k - 1]
  BY <1>1, <1>2, SubSeqProperties
<1> HIDE DEF m, head
<1>4. Len(head) = m /\ \A k \in 1 .. m : head[k] = fs[k]
  <2>1. m - 1 + 1 = m
    BY <1>1
  <2>2. ASSUME NEW k \in 1 .. m PROVE head[k] = fs[k]
    <3>1. 1 + k - 1 = k /\ k \in 1 .. m - 1 + 1
      BY <1>1
    <3>2. QED
      BY <1>3, <3>1
  <2>3. QED
    BY <1>1, <1>3, <2>1, <2>2
<1>5. /\ Append(head, new) \in Seq(Frame) /\ Len(Append(head, new)) = m + 1
      /\ \A k \in 1 .. m : Append(head, new)[k] = head[k]
      /\ Append(head, new)[m + 1] = new
  BY <1>3, <1>4, AppendProperties
<1>6. QED
  BY <1>1, <1>4, <1>5 DEF m, head

(* A throw of an exception on its way to its target takes it one frame      *)
(* further, to the innermost frame still trying, and pops that one's buffer.*)
LEMMA ThrowStep ==
    ASSUME ExceptTypeOK, StackMatchesTries, OnlyLastCaught, ExceptionsKnown,
           NEW type, longjmp(type) \in Catchable,
           throw_exception(type), aborted = FALSE,
           target' = Handler(longjmp(type)),
           frames # <<>> /\ Caught(Len(frames)) =>
              /\ frames[Len(frames)].exception = longjmp(type)
              /\ longjmp(type) \notin frames[Len(frames)].catches
    PROVE  ExceptInv'
<1> DEFINE e == longjmp(type)
<1>1. e \in Catchable /\ e # NO_EXCEPTION
  BY DEF Catchable, NO_EXCEPTION, UNSPECIFIED_EXCEPTION
<1>2. CASE env_stack = <<>>
  <2>1. aborted' = TRUE /\ UNCHANGED <<frames, env_stack>>
    BY <1>2 DEF throw_exception
  <2>2. Trying = {}
    BY <1>2, LastBuffer
  <2>3. target' = 0
    BY <2>2, NoHandler
  <2>4. ExceptTypeOK' /\ StackMatchesTries' /\ OnlyLastCaught' /\ ExceptionsKnown'
    BY <2>1 DEF ExceptTypeOK, StackMatchesTries, OnlyLastCaught, ExceptionsKnown, Caught
  <2>5. OnItsWay'
    BY <2>1, <2>3 DEF OnItsWay, Handler, Caught
  <2>6. QED
    BY <2>4, <2>5 DEF ExceptInv
<1>3. CASE env_stack # <<>>
  <2> DEFINE f == Last(env_stack)
             new == [frames[f] EXCEPT !.mode = "caught", !.exception = e]
  <2>1. f \in Trying /\ \A g \in Trying : g <= f
    BY <1>3, LastBuffer
  <2>2. /\ f \in 1 .. Len(frames) /\ f \in Nat /\ Len(frames) \in Nat
        /\ DOMAIN frames = 1 .. Len(frames)
        /\ frames[f] \in Frame /\ Trying \subseteq 1 .. Len(frames)
    BY <2>1, TryingFacts
  <2>3. /\ frames' = Append(SubSeq(frames, 1, f - 1), new)
        /\ env_stack' = Front(env_stack) /\ aborted' = FALSE
    BY <1>1, <1>3 DEF throw_exception
  <2>4. /\ new \in Frame /\ new.mode = "caught"
        /\ new.exception = e /\ new.catches = frames[f].catches
    BY <1>1, <2>2 DEF Frame
  <2> HIDE DEF new, f, e
  <2>5. /\ frames' \in Seq(Frame) /\ Len(frames') = f
        /\ \A k \in 1 .. f - 1 : frames'[k] = frames[k]
        /\ frames'[f] = new
    BY <2>2, <2>3, <2>4, UnwindFacts DEF ExceptTypeOK
  <2>6. DOMAIN frames' = 1 .. f
    BY <2>5, SequenceFacts
  <2>7. /\ env_stack' \in Seq(Nat) /\ Range(env_stack') = Trying \ {f}
        /\ \A i, j \in DOMAIN env_stack' : i < j => env_stack'[i] < env_stack'[j]
    BY <1>3, <2>3, PopBuffer DEF f
  <2>8. ASSUME NEW k \in 1 .. f
        PROVE  k = f \/ (k \in 1 .. f - 1 /\ k \in 1 .. Len(frames) /\ k < Len(frames))
    BY <2>2
  <2>9. {k \in DOMAIN frames' : frames'[k].mode = "trying"} = Trying \ {f}
    <3>1. ASSUME NEW k \in Trying \ {f} PROVE k \in 1 .. f - 1 /\ k \in 1 .. f
      BY <2>1, <2>2
    <3>2. \A k \in 1 .. f : frames'[k].mode = "trying" => k \in Trying \ {f}
      BY <2>2, <2>4, <2>5, <2>8 DEF Trying
    <3>3. \A k \in Trying \ {f} : frames'[k].mode = "trying"
      BY <2>5, <3>1 DEF Trying
    <3>4. QED
      BY <2>6, <3>1, <3>2, <3>3
  <2>10. ExceptTypeOK' /\ StackMatchesTries'
    BY <2>3, <2>5, <2>7, <2>9 DEF ExceptTypeOK, StackMatchesTries
  <2>11. OnlyLastCaught'
    <3>1. \A k \in 1 .. f : frames'[k].mode = "caught" => k = f
      BY <2>2, <2>5, <2>8 DEF OnlyLastCaught, Caught
    <3>2. QED
      BY <2>5, <2>6, <3>1 DEF OnlyLastCaught, Caught
  <2>12. ExceptionsKnown'
    <3>1. \A k \in 1 .. f :
            frames'[k].mode # "trying" => frames'[k].exception # NO_EXCEPTION
      BY <1>1, <2>2, <2>4, <2>5, <2>8 DEF ExceptionsKnown
    <3>2. QED
      BY <2>6, <3>1 DEF ExceptionsKnown
  <2>13. target' = IF e \in frames[f].catches THEN f ELSE Handler(e)'
    <3>1. CASE e \in frames[f].catches
      BY <2>1, <3>1, HandlerIsInnermost DEF e
    <3>2. CASE e \notin frames[f].catches
      <4>1. Handler(e) = LET able == {g \in Trying : e \in frames[g].catches}
                         IN  IF able = {} THEN 0 ELSE Max(able)
        BY DEF Handler, Trying
      <4>2. Handler(e)' = LET able == {g \in Trying \ {f} : e \in frames'[g].catches}
                          IN  IF able = {} THEN 0 ELSE Max(able)
        <5>1. {g \in DOMAIN frames' : /\ frames'[g].mode = "trying"
                                      /\ e \in frames'[g].catches}
                = {g \in Trying \ {f} : e \in frames'[g].catches}
          BY <2>9
        <5>2. QED
          BY <5>1 DEF Handler, e, longjmp
      <4>3. {g \in Trying : e \in frames[g].catches}
              = {g \in Trying \ {f} : e \in frames'[g].catches}
        <5>1. \A g \in Trying \ {f} : g \in 1 .. f - 1
          BY <2>1, <2>2
        <5>2. QED
          BY <2>5, <3>2, <5>1
      <4>4. QED
        BY <3>2, <4>1, <4>2, <4>3 DEF e
    <3>3. QED
      BY <3>1, <3>2
  <2>14. OnItsWay'
    BY <2>3, <2>4, <2>5, <2>13 DEF OnItsWay, Caught
  <2>15. QED
    BY <2>10, <2>11, <2>12, <2>14 DEF ExceptInv
<1>4. QED
  BY <1>2, <1>3

-----------------------------------------------------------------------------
(* The invariant. *)

(* The type of a thrown exception, known in a handler or normalised by      *)
(* longjmp, is one that clauses may name.                                   *)
LEMMA ThrownType ==
    /\ \A type \in Types :
         /\ longjmp(type) \in Catchable
         /\ longjmp(type) = IF type = NO_EXCEPTION THEN UNSPECIFIED_EXCEPTION ELSE type
    /\ \A type \in Catchable : longjmp(type) = type
BY DEF longjmp, Catchable, NO_EXCEPTION, UNSPECIFIED_EXCEPTION

(* In code, no exception is on its way. *)
LEMMA InCodeNotCaught == InCode /\ frames # <<>> => ~Caught(Len(frames))
BY DEF InCode, Caught, Last

(* At first there are no frames and no buffers. *)
LEMMA InitExcept == ExceptInit => ExceptInv
<1> SUFFICES ASSUME ExceptInit PROVE ExceptInv
  OBVIOUS
<1>1. /\ frames = <<>> /\ env_stack = <<>> /\ aborted = FALSE /\ target = 0
  BY DEF ExceptInit
<1>2. /\ <<>> \in Seq(Frame) /\ <<>> \in Seq(Nat) /\ DOMAIN <<>> = {}
  BY EmptySeq, LenProperties
<1>3. QED
  BY <1>1, <1>2 DEF ExceptInv, ExceptTypeOK, StackMatchesTries, OnlyLastCaught,
                    ExceptionsKnown, OnItsWay, Range

(* TRY adds a frame and its buffer. *)
LEMMA StartKeeps ==
    ASSUME ExceptInv, NEW catches \in SUBSET Catchable, start_try(catches)
    PROVE  ExceptInv'
<1> DEFINE n == Len(frames)
           m == Len(env_stack)
           new == [mode |-> "trying", catches |-> catches, exception |-> NO_EXCEPTION]
<1>1. /\ ExceptTypeOK /\ StackMatchesTries /\ OnlyLastCaught /\ ExceptionsKnown
      /\ OnItsWay
  BY DEF ExceptInv
<1>2. /\ n \in Nat /\ DOMAIN frames = 1 .. n /\ (frames = <<>> <=> n = 0)
      /\ \A f \in 1 .. n : frames[f] \in Frame
      /\ Trying \subseteq 1 .. n
  BY <1>1, TryingFacts
<1>3. new \in Frame /\ new.mode = "trying"
  BY DEF Frame
<1>4. /\ frames' = Append(frames, new) /\ env_stack' = Append(env_stack, n + 1)
      /\ UNCHANGED <<aborted, target>>
      /\ frames # <<>> => ~Caught(n)
  BY InCodeNotCaught DEF start_try
<1> HIDE DEF new
<1>5. /\ frames' \in Seq(Frame) /\ Len(frames') = n + 1
      /\ \A f \in 1 .. n : frames'[f] = frames[f]
      /\ frames'[n + 1] = new
  BY <1>1, <1>3, <1>4, AppendProperties DEF ExceptTypeOK
<1>6. DOMAIN frames' = 1 .. n + 1
  BY <1>5, SequenceFacts
<1>7. /\ m \in Nat /\ DOMAIN env_stack = 1 .. m /\ \A k \in 1 .. m : env_stack[k] \in Nat
  BY <1>1, SequenceFacts DEF ExceptTypeOK
<1>8. /\ Trying = {env_stack[k] : k \in 1 .. m}
      /\ \A i, j \in 1 .. m : i < j => env_stack[i] < env_stack[j]
  BY <1>1, <1>7 DEF StackMatchesTries, Trying, Range
<1>9. /\ env_stack' \in Seq(Nat) /\ Len(env_stack') = m + 1
      /\ \A k \in 1 .. m : env_stack'[k] = env_stack[k]
      /\ env_stack'[m + 1] = n + 1
  <2>1. n + 1 \in Nat /\ env_stack \in Seq(Nat)
    BY <1>1, <1>2 DEF ExceptTypeOK
  <2>2. QED
    BY <1>4, <2>1, AppendProperties
<1>10. DOMAIN env_stack' = 1 .. m + 1
  BY <1>9, SequenceFacts
<1> HIDE DEF n, m
<1>11. /\ 1 .. n + 1 = (1 .. n) \cup {n + 1} /\ n + 1 \notin 1 .. n
       /\ 1 .. m + 1 = (1 .. m) \cup {m + 1} /\ m + 1 \notin 1 .. m
  BY <1>2, <1>7
<1>12. StackMatchesTries'
  <2>1. Range(env_stack') = Trying \cup {n + 1}
    <3>1. Range(env_stack') = {env_stack'[k] : k \in 1 .. m + 1}
      BY <1>10 DEF Range
    <3>2. QED
      BY <1>8, <1>9, <1>11, <3>1
  <2>2. {f \in DOMAIN frames' : frames'[f].mode = "trying"} = Trying \cup {n + 1}
    BY <1>2, <1>3, <1>5, <1>6, <1>11 DEF Trying
  <2>3. ASSUME NEW i \in 1 .. m + 1, NEW j \in 1 .. m + 1, i < j
        PROVE  env_stack'[i] < env_stack'[j]
    <3>1. i \in 1 .. m /\ (j \in 1 .. m \/ j = m + 1)
      BY <1>7, <2>3
    <3>2. env_stack[i] \in 1 .. n
      BY <1>2, <1>8, <3>1
    <3>3. QED
      BY <1>2, <1>8, <1>9, <2>3, <3>1, <3>2
  <2>4. QED
    BY <1>10, <2>1, <2>2, <2>3 DEF StackMatchesTries
<1>13. \A f \in 1 .. n + 1 : frames'[f].mode # "caught"
  <2>1. \A f \in 1 .. n : ~Caught(f)
    BY <1>1, <1>2, <1>4 DEF OnlyLastCaught, n
  <2>2. QED
    BY <1>3, <1>5, <1>11, <2>1 DEF Caught
<1>14. OnlyLastCaught'
  BY <1>6, <1>11, <1>13 DEF OnlyLastCaught, Caught
<1>15. ExceptionsKnown'
  BY <1>1, <1>2, <1>3, <1>5, <1>6, <1>11 DEF ExceptionsKnown
<1>16. OnItsWay'
  <2>1. Len(frames') \in 1 .. n + 1
    BY <1>2, <1>5
  <2>2. QED
    BY <1>1, <1>4, <1>13, <2>1 DEF OnItsWay, Caught
<1>17. ExceptTypeOK'
  BY <1>1, <1>4, <1>5, <1>9 DEF ExceptTypeOK
<1>18. QED
  BY <1>12, <1>14, <1>15, <1>16, <1>17 DEF ExceptInv

(* Leaving the last frame, when no exception is on its way.                 *)
LEMMA LeaveFacts ==
    ASSUME ExceptInv, frames # <<>>, ~Caught(Len(frames)), frames' = Front(frames),
           UNCHANGED <<aborted, target>>
    PROVE  /\ frames' \in Seq(Frame) /\ aborted' \in BOOLEAN
           /\ OnlyLastCaught' /\ ExceptionsKnown' /\ OnItsWay'
           /\ Len(frames) \in Nat \ {0}
           /\ {f \in DOMAIN frames' : frames'[f].mode = "trying"}
                = Trying \ {Len(frames)}
<1> DEFINE n == Len(frames)
<1>1. /\ ExceptTypeOK /\ StackMatchesTries /\ OnlyLastCaught /\ ExceptionsKnown
      /\ OnItsWay
  BY DEF ExceptInv
<1>2. /\ n \in Nat \ {0} /\ DOMAIN frames = 1 .. n
      /\ Trying \subseteq 1 .. n
  BY <1>1, TryingFacts
<1>3. /\ frames' \in Seq(Frame) /\ Len(frames') = n - 1
      /\ \A f \in 1 .. n - 1 : frames'[f] = frames[f]
  BY <1>1, FrontFacts DEF ExceptTypeOK
<1>4. DOMAIN frames' = 1 .. n - 1
  BY <1>3, SequenceFacts
<1>5. \A f \in 1 .. n : ~Caught(f)
  BY <1>1, <1>2 DEF OnlyLastCaught
<1> HIDE DEF n
<1>6. 1 .. n = (1 .. n - 1) \cup {n} /\ n \notin 1 .. n - 1
  BY <1>2
<1>7. \A f \in 1 .. n - 1 : ~Caught(f)'
  BY <1>3, <1>5, <1>6 DEF Caught
<1>8. OnlyLastCaught'
  BY <1>4, <1>7 DEF OnlyLastCaught, Caught
<1>9. ExceptionsKnown'
  BY <1>1, <1>2, <1>3, <1>4, <1>6 DEF ExceptionsKnown
<1>10. OnItsWay'
  <2>1. frames' # <<>> => Len(frames') \in 1 .. n - 1
    BY <1>2, <1>3, SequenceFacts
  <2>2. frames' # <<>> => ~Caught(Len(frames))'
    BY <1>7, <2>1 DEF Caught
  <2>3. QED
    BY <1>1, <2>2 DEF OnItsWay, Caught
<1>11. {f \in DOMAIN frames' : frames'[f].mode = "trying"} = Trying \ {n}
  BY <1>2, <1>3, <1>4, <1>6 DEF Trying
<1>12. QED
  BY <1>1, <1>2, <1>3, <1>8, <1>9, <1>10, <1>11 DEF ExceptTypeOK, n

(* A TRY block that ends pops its own buffer. *)
LEMMA FinishKeeps == ExceptInv /\ finish_try => ExceptInv'
<1> SUFFICES ASSUME ExceptInv, finish_try PROVE ExceptInv'
  OBVIOUS
<1>1. /\ frames # <<>> /\ frames[Len(frames)].mode = "trying"
      /\ frames' = Front(frames) /\ env_stack' = Front(env_stack)
      /\ UNCHANGED <<aborted, target>>
  BY DEF finish_try, Last
<1>2. /\ frames' \in Seq(Frame) /\ aborted' \in BOOLEAN
      /\ OnlyLastCaught' /\ ExceptionsKnown' /\ OnItsWay'
      /\ Len(frames) \in Nat \ {0}
      /\ {f \in DOMAIN frames' : frames'[f].mode = "trying"} = Trying \ {Len(frames)}
  BY <1>1, LeaveFacts DEF Caught
<1>3. /\ ExceptTypeOK /\ StackMatchesTries
  BY DEF ExceptInv
<1>4. Len(frames) \in Trying /\ \A f \in Trying : f \in Nat /\ f <= Len(frames)
  BY <1>1, <1>2, <1>3, TryingFacts DEF Trying
<1>5. env_stack # <<>> /\ Last(env_stack) = Len(frames)
  <2>1. env_stack # <<>>
    BY <1>3, <1>4, LastBuffer
  <2>2. Last(env_stack) \in Trying /\ Len(frames) <= Last(env_stack)
    BY <1>3, <1>4, <2>1, LastBuffer
  <2>3. QED
    BY <1>2, <1>4, <2>1, <2>2
<1>6. /\ env_stack' \in Seq(Nat)
      /\ Range(env_stack') = Trying \ {Len(frames)}
      /\ \A i, j \in DOMAIN env_stack' : i < j => env_stack'[i] < env_stack'[j]
  BY <1>1, <1>3, <1>5, PopBuffer
<1>7. QED
  BY <1>2, <1>6 DEF ExceptInv, ExceptTypeOK, StackMatchesTries

(* A handler that ends has no buffer to pop. *)
LEMMA EndHandlerKeeps == ExceptInv /\ EndHandler => ExceptInv'
<1> SUFFICES ASSUME ExceptInv, EndHandler PROVE ExceptInv'
  OBVIOUS
<1>1. /\ frames # <<>> /\ frames[Len(frames)].mode = "handling"
      /\ frames' = Front(frames) /\ UNCHANGED <<env_stack, aborted, target>>
  BY DEF EndHandler, Last
<1>2. /\ frames' \in Seq(Frame) /\ aborted' \in BOOLEAN
      /\ OnlyLastCaught' /\ ExceptionsKnown' /\ OnItsWay'
      /\ {f \in DOMAIN frames' : frames'[f].mode = "trying"} = Trying \ {Len(frames)}
  BY <1>1, LeaveFacts DEF Caught
<1>3. Trying \ {Len(frames)} = Trying
  BY <1>1 DEF Trying
<1>4. QED
  BY <1>1, <1>2, <1>3 DEF ExceptInv, ExceptTypeOK, StackMatchesTries, Trying

(* THROW and RETHROW in code set out for the handler. *)
LEMMA ThrowKeeps ==
    ASSUME ExceptInv, NEW type \in Types, THROW(type)
    PROVE  ExceptInv'
<1>1. longjmp(type) \in Catchable /\ target' = Handler(longjmp(type))
  BY ThrownType DEF THROW
<1>2. throw_exception(type) /\ aborted = FALSE
  BY DEF THROW, InCode, ExceptInv, ExceptTypeOK
<1>3. frames # <<>> => ~Caught(Len(frames))
  BY InCodeNotCaught DEF THROW
<1>4. QED
  BY <1>1, <1>2, <1>3, ThrowStep DEF ExceptInv

(* RETHROW: the handling frame throws what it caught. *)
LEMMA RethrowKeeps == ExceptInv /\ RETHROW => ExceptInv'
<1> SUFFICES ASSUME ExceptInv, RETHROW PROVE ExceptInv'
  OBVIOUS
<1>1. PICK type : type = Last(frames).exception
  OBVIOUS
<1>2. /\ frames # <<>> /\ frames[Len(frames)].mode = "handling"
      /\ type = frames[Len(frames)].exception
      /\ target' = Handler(type) /\ throw_exception(type) /\ aborted = FALSE
  BY <1>1 DEF RETHROW, Last, InCode, ExceptInv, ExceptTypeOK
<1>3. type \in Catchable
  <2>1. /\ Len(frames) \in DOMAIN frames /\ frames[Len(frames)] \in Frame
    BY <1>2, TryingFacts DEF ExceptInv
  <2>2. type # NO_EXCEPTION
    BY <1>2, <2>1 DEF ExceptInv, ExceptionsKnown
  <2>3. QED
    BY <1>2, <2>1, <2>2 DEF Frame
<1>4. longjmp(type) = type
  BY <1>3, ThrownType
<1>5. frames # <<>> => ~Caught(Len(frames))
  BY <1>2 DEF Caught
<1>6. QED
  BY <1>2, <1>3, <1>4, <1>5, ThrowStep DEF ExceptInv

(* END_TRY without a matching clause sends the exception on, to the same    *)
(* handler.                                                                 *)
LEMMA EndTryKeeps == ExceptInv /\ END_TRY => ExceptInv'
<1> SUFFICES ASSUME ExceptInv, END_TRY PROVE ExceptInv'
  OBVIOUS
<1>1. PICK type : type = Last(frames).exception
  OBVIOUS
<1>2. /\ frames # <<>> /\ Caught(Len(frames))
      /\ type = frames[Len(frames)].exception
      /\ type \notin frames[Len(frames)].catches
      /\ target' = target /\ throw_exception(type) /\ aborted = FALSE
  BY <1>1 DEF END_TRY, Last, Caught, ExceptInv, ExceptTypeOK
<1>3. type \in Catchable
  <2>1. /\ Len(frames) \in DOMAIN frames /\ frames[Len(frames)] \in Frame
    BY <1>2, TryingFacts DEF ExceptInv
  <2>2. type # NO_EXCEPTION
    BY <1>2, <2>1 DEF ExceptInv, ExceptionsKnown, Caught
  <2>3. QED
    BY <1>2, <2>1, <2>2 DEF Frame
<1>4. longjmp(type) = type
  BY <1>3, ThrownType
<1>5. target' = Handler(type)
  BY <1>2 DEF ExceptInv, OnItsWay
<1>6. QED
  BY <1>2, <1>3, <1>4, <1>5, ThrowStep DEF ExceptInv

(* A clause that matches starts its handler. *)
LEMMA CatchKeeps == ExceptInv /\ CATCH => ExceptInv'
<1> SUFFICES ASSUME ExceptInv, CATCH PROVE ExceptInv'
  OBVIOUS
<1> DEFINE n == Len(frames)
<1>1. /\ ExceptTypeOK /\ StackMatchesTries /\ OnlyLastCaught /\ ExceptionsKnown
      /\ OnItsWay
  BY DEF ExceptInv
<1>2. /\ frames # <<>> /\ frames[n].mode = "caught"
      /\ frames' = [frames EXCEPT ![n].mode = "handling"]
      /\ UNCHANGED <<env_stack, aborted, target>>
  BY DEF CATCH, Last
<1>3. /\ n \in Nat \ {0} /\ DOMAIN frames = 1 .. n /\ n \in 1 .. n
      /\ \A f \in 1 .. n : frames[f] \in Frame
  BY <1>1, <1>2, TryingFacts
<1> DEFINE new == [frames[n] EXCEPT !.mode = "handling"]
<1>4. new \in Frame /\ new.mode = "handling" /\ new.exception = frames[n].exception
  BY <1>3 DEF Frame
<1>5. frames' = [frames EXCEPT ![n] = new]
  BY <1>2, <1>3
<1> HIDE DEF new
<1>6. /\ frames' \in Seq(Frame) /\ Len(frames') = n
      /\ \A f \in 1 .. n : frames'[f] = IF f = n THEN new ELSE frames[f]
  BY <1>1, <1>3, <1>4, <1>5, ExceptSeq DEF ExceptTypeOK
<1>7. DOMAIN frames' = 1 .. n
  BY <1>6, SequenceFacts
<1> HIDE DEF n
<1>8. \A f \in 1 .. n : frames'[f].mode # "caught"
  BY <1>1, <1>3, <1>4, <1>6 DEF OnlyLastCaught, Caught, n
<1>9. \A f \in 1 .. n : frames'[f].mode = "trying" <=> frames[f].mode = "trying"
  BY <1>2, <1>4, <1>6
<1>10. StackMatchesTries'
  BY <1>1, <1>2, <1>3, <1>7, <1>9 DEF StackMatchesTries
<1>11. OnlyLastCaught'
  BY <1>7, <1>8 DEF OnlyLastCaught, Caught
<1>12. ExceptionsKnown'
  BY <1>1, <1>2, <1>3, <1>4, <1>6, <1>7 DEF ExceptionsKnown
<1>13. OnItsWay'
  BY <1>1, <1>2, <1>3, <1>6, <1>8 DEF OnItsWay, Caught
<1>14. QED
  BY <1>1, <1>2, <1>6, <1>10, <1>11, <1>12, <1>13 DEF ExceptInv, ExceptTypeOK

(* Every step keeps the invariant. *)
LEMMA NextExcept == ExceptInv /\ [ExceptNext]_exceptVars => ExceptInv'
<1> SUFFICES ASSUME ExceptInv, [ExceptNext]_exceptVars PROVE ExceptInv'
  OBVIOUS
<1>1. CASE UNCHANGED exceptVars
  BY <1>1 DEF exceptVars, ExceptInv, ExceptTypeOK, StackMatchesTries, OnlyLastCaught,
              ExceptionsKnown, OnItsWay, Handler, Caught
<1>2. QED
  BY <1>1, StartKeeps, FinishKeeps, ThrowKeeps, RethrowKeeps, CatchKeeps,
     EndTryKeeps, EndHandlerKeeps DEF ExceptNext

(* What the invariant is for. *)
LEMMA ExceptInvariant == ExceptSpec => []ExceptInv
BY InitExcept, NextExcept, PTL DEF ExceptSpec

(* An exception is handled by the innermost frame that was trying at the    *)
(* throw and catches its type, the program is aborted only if none is, and  *)
(* the stack never holds the buffer of a frame that is gone.                *)
THEOREM AlwaysHandledInnermost == ExceptSpec => []HandledInnermost
<1>1. ExceptInv => GoesToInnermost
  <2> SUFFICES ASSUME ExceptInv PROVE GoesToInnermost
    OBVIOUS
  <2>1. Len(frames) > 0 => frames # <<>>
    BY TryingFacts DEF ExceptInv
  <2>2. QED
    BY <2>1 DEF ExceptInv, OnItsWay, GoesToInnermost, Caught, Last
<1>2. ExceptInv => StackMatchesTries
  BY DEF ExceptInv
<1>3. QED
  BY <1>1, <1>2, ExceptInvariant, PTL DEF HandledInnermost

-----------------------------------------------------------------------------
(******************************************************************************)
(* CoopThread: for every set of threads, the two queues that share one pair   *)
(* of links per thread.                                                       *)
(******************************************************************************)

(* NULL is no thread and no exit code. *)
NullAssumption == NULL \notin Thread \cup {0, 1}

Link == Thread \cup {NULL}

(* The pointers: two links for each thread, two ends for each queue.        *)
Pointers == [prev : [Thread -> Link], next : [Thread -> Link],
             head : [Queues -> Link], tail : [Queues -> Link]]

(* The element at place i of the list o, NULL before and after them.        *)
Nth(o, i) == IF i \in 1 .. Len(o) THEN o[i] ELSE NULL

(* The list o without repetition. *)
IsOrder(o) == o \in Seq(Thread) /\ IsInjective(o)

(* The pointers p make the list o of queue n, in both directions.           *)
Makes(p, n, o) ==
    /\ p.head[n] = Nth(o, 1)
    /\ o # <<>> => p.tail[n] = Nth(o, Len(o))
    /\ \A i \in 1 .. Len(o) : /\ p.next[o[i]] = Nth(o, i + 1)
                              /\ p.prev[o[i]] = Nth(o, i - 1)

-----------------------------------------------------------------------------
(* Lists. *)

(* What the proofs look at in a list. *)
LEMMA OrderFacts ==
    ASSUME NEW o, IsOrder(o)
    PROVE  /\ Len(o) \in Nat /\ DOMAIN o = 1 .. Len(o)
           /\ o = <<>> <=> Len(o) = 0
           /\ Range(o) = {o[i] : i \in 1 .. Len(o)}
           /\ \A i \in 1 .. Len(o) : o[i] \in Thread /\ o[i] \in Range(o)
           /\ \A i, j \in 1 .. Len(o) : o[i] = o[j] => i = j
BY LenProperties, EmptySeq, ElementOfSeq DEF IsOrder, IsInjective, Range

(* What makes a list. *)
LEMMA OrderFromEntries ==
    ASSUME NEW o, NEW n \in Nat, o \in [1 .. n -> Thread],
           \A i, j \in 1 .. n : o[i] = o[j] => i = j
    PROVE  IsOrder(o) /\ Len(o) = n
<1>1. o \in Seq(Thread)
  BY SeqDef
<1>2. DOMAIN o = 1 .. n
  OBVIOUS
<1>3. QED
  BY <1>1, <1>2 DEF IsOrder, IsInjective

(* Appending a thread that is not in the list. *)
LEMMA AppendOrder ==
    ASSUME NEW o, IsOrder(o), NEW t \in Thread \ Range(o)
    PROVE  /\ IsOrder(Append(o, t))
           /\ Range(Append(o, t)) = Range(o) \cup {t}
           /\ Len(Append(o, t)) = Len(o) + 1
           /\ \A i \in 1 .. Len(o) : Append(o, t)[i] = o[i]
           /\ Append(o, t)[Len(o) + 1] = t
<1> DEFINE after == Append(o, t)
           n == Len(o)
<1>1. /\ after \in Seq(Thread) /\ Len(after) = n + 1 /\ n \in Nat
      /\ \A i \in 1 .. n : after[i] = o[i]
      /\ after[n + 1] = t
  BY AppendProperties, LenProperties DEF IsOrder
<1>2. DOMAIN after = 1 .. n + 1
  BY <1>1, LenProperties
<1> HIDE DEF after
<1>3. IsInjective(after)
  BY <1>1, <1>2, OrderFacts DEF IsInjective
<1>4. Range(after) = {after[i] : i \in 1 .. n + 1}
  BY <1>2 DEF Range
<1>5. 1 .. n + 1 = (1 .. n) \cup {n + 1}
  BY <1>1
<1>6. QED
  BY <1>1, <1>3, <1>4, <1>5, OrderFacts DEF IsOrder, after

(* The entries of a list that is o without its entry k.                     *)
LEMMA GapOrder ==
    ASSUME NEW o, IsOrder(o), NEW k \in 1 .. Len(o), NEW r \in Seq(Thread),
           Len(r) = Len(o) - 1,
           \A i \in 1 .. Len(o) - 1 : r[i] = IF i < k THEN o[i] ELSE o[i + 1]
    PROVE  IsOrder(r) /\ Range(r) = Range(o) \ {o[k]}
<1> DEFINE n == Len(o)
           from(i) == IF i < k THEN i ELSE i + 1
<1>1. n \in Nat /\ k \in 1 .. n
  BY OrderFacts
<1>2. DOMAIN r = 1 .. n - 1
  BY LenProperties
<1>3. \A i \in 1 .. n - 1 : r[i] = o[from(i)]
  OBVIOUS
<1>4. \A i \in 1 .. n - 1 : from(i) \in 1 .. n /\ from(i) # k
  BY <1>1
<1>5. \A i, j \in 1 .. n - 1 : from(i) = from(j) => i = j
  BY <1>1
<1>6. \A l \in 1 .. n : l # k => \E i \in 1 .. n - 1 : from(i) = l
  <2> SUFFICES ASSUME NEW l \in 1 .. n, l # k
               PROVE  \E i \in 1 .. n - 1 : from(i) = l
    OBVIOUS
  <2>1. CASE l < k
    <3>1. l \in 1 .. n - 1 /\ from(l) = l
      BY <1>1, <2>1
    <3>2. QED
      BY <3>1
  <2>2. CASE ~(l < k)
    <3>1. l - 1 \in 1 .. n - 1 /\ from(l - 1) = l
      BY <1>1, <2>2
    <3>2. QED
      BY <3>1
  <2>3. QED
    BY <2>1, <2>2
<1>7. /\ Range(o) = {o[i] : i \in 1 .. n}
      /\ \A i, j \in 1 .. n : o[i] = o[j] => i = j
  BY OrderFacts
<1> HIDE DEF n, from
<1>8. Range(r) = {o[from(i)] : i \in 1 .. n - 1}
  BY <1>2, <1>3 DEF Range
<1>9. IsInjective(r)
  BY <1>2, <1>3, <1>4, <1>5, <1>7 DEF IsInjective
<1>10. Range(r) = Range(o) \ {o[k]}
  BY <1>1, <1>4, <1>6, <1>7, <1>8
<1>11. QED
  BY <1>9, <1>10 DEF IsOrder

(* Taking the head. *)
LEMMA TailOrder ==
    ASSUME NEW o, IsOrder(o), o # <<>>
    PROVE  /\ IsOrder(Tail(o)) /\ Range(Tail(o)) = Range(o) \ {o[1]}
           /\ Len(Tail(o)) = Len(o) - 1
           /\ \A i \in 1 .. Len(o) - 1 : Tail(o)[i] = o[i + 1]
<1>1. /\ Tail(o) \in Seq(Thread) /\ Len(Tail(o)) = Len(o) - 1
      /\ \A i \in 1 .. Len(o) - 1 : Tail(o)[i] = o[i + 1]
  BY HeadTailProperties DEF IsOrder
<1>2. Len(o) \in Nat \ {0}
  BY OrderFacts
<1>3. /\ 1 \in 1 .. Len(o)
      /\ \A i \in 1 .. Len(o) - 1 : Tail(o)[i] = IF i < 1 THEN o[i] ELSE o[i + 1]
  BY <1>1, <1>2
<1>4. QED
  BY <1>1, <1>3, GapOrder

(* Removing a thread from anywhere. *)
LEMMA RemoveOrder ==
    ASSUME NEW o, IsOrder(o), NEW k \in 1 .. Len(o)
    PROVE  LET r == RemoveFirst(o, o[k])
           IN  /\ IsOrder(r) /\ Range(r) = Range(o) \ {o[k]}
               /\ Len(r) = Len(o) - 1
               /\ \A i \in 1 .. Len(o) - 1 : r[i] = IF i < k THEN o[i] ELSE o[i + 1]
<1> DEFINE n == Len(o)
           front == SubSeq(o, 1, k - 1)
           rest == SubSeq(o, k + 1, n)
           r == front \o rest
<1>1. n \in Nat /\ k \in 1 .. n /\ \A i \in 1 .. n : o[i] \in Thread
  BY OrderFacts
<1>2. RemoveFirst(o, o[k]) = r
  <2>1. {i \in 1 .. n : o[i] = o[k]} = {k}
    BY OrderFacts
  <2>2. Min({k}) = k
    BY <1>1 DEF Min
  <2>3. QED
    BY <2>1, <2>2 DEF RemoveFirst, SelectInSeq, RemoveAt
<1>3. /\ front \in Seq(Thread) /\ Len(front) = k - 1
      /\ \A i \in 1 .. k - 1 : front[i] = o[i]
  <2>1. /\ 1 \in Int /\ k - 1 \in Int /\ \A i \in 1 .. k - 1 : o[i] \in Thread
    BY <1>1
  <2>2. /\ front \in Seq(Thread)
        /\ Len(front) = IF 1 <= k - 1 THEN k - 1 - 1 + 1 ELSE 0
        /\ \A i \in 1 .. k - 1 - 1 + 1 : front[i] = o[1 + i - 1]
    BY <2>1, SubSeqProperties
  <2> HIDE DEF front
  <2>3. ASSUME NEW i \in 1 .. k - 1 PROVE 1 + i - 1 = i /\ i \in 1 .. k - 1 - 1 + 1
    BY <1>1
  <2>4. QED
    BY <1>1, <2>2, <2>3
<1>4. /\ rest \in Seq(Thread) /\ Len(rest) = n - k
      /\ \A i \in 1 .. n - k : rest[i] = o[k + i]
  <2>1. /\ k + 1 \in Int /\ n \in Int /\ \A i \in k + 1 .. n : o[i] \in Thread
    BY <1>1
  <2>2. /\ rest \in Seq(Thread)
        /\ Len(rest) = IF k + 1 <= n THEN n - (k + 1) + 1 ELSE 0
        /\ \A i \in 1 .. n - (k + 1) + 1 : rest[i] = o[k + 1 + i - 1]
    BY <2>1, SubSeqProperties
  <2> HIDE DEF rest
  <2>3. ASSUME NEW i \in 1 .. n - k
        PROVE  k + 1 + i - 1 = k + i /\ i \in 1 .. n - (k + 1) + 1
    BY <1>1
  <2>4. QED
    BY <1>1, <2>2, <2>3
<1> HIDE DEF front, rest
<1>5. /\ r \in Seq(Thread) /\ Len(r) = (k - 1) + (n - k)
      /\ \A i \in 1 .. (k - 1) + (n - k) :
            r[i] = IF i <= k - 1 THEN front[i] ELSE rest[i - (k - 1)]
  <2>1. /\ r \in Seq(Thread) /\ Len(r) = Len(front) + Len(rest)
        /\ \A i \in 1 .. Len(front) + Len(rest) :
              r[i] = IF i <= Len(front) THEN front[i] ELSE rest[i - Len(front)]
    BY <1>3, <1>4, ConcatProperties
  <2>2. Len(front) = k - 1 /\ Len(rest) = n - k
    BY <1>3, <1>4
  <2> HIDE DEF r
  <2>3. QED
    BY ONLY <2>1, <2>2
<1> HIDE DEF r, n
<1>6. ASSUME NEW i \in 1 .. n - 1
      PROVE  r[i] = IF i < k THEN o[i] ELSE o[i + 1]
  <2>1. i \in 1 .. (k - 1) + (n - k)
    BY <1>1
  <2>2. CASE i < k
    <3>1. i <= k - 1 /\ i \in 1 .. k - 1
      BY <1>1, <2>2
    <3>2. QED
      BY <1>3, <1>5, <2>1, <2>2, <3>1
  <2>3. CASE ~(i < k)
    <3>1. ~(i <= k - 1) /\ i - (k - 1) \in 1 .. n - k /\ k + (i - (k - 1)) = i + 1
      BY <1>1, <2>3
    <3>2. QED
      BY <1>4, <1>5, <2>1, <2>3, <3>1
  <2>4. QED
    BY <2>2, <2>3
<1>7. Len(r) = n - 1
  BY <1>1, <1>5
<1>8. IsOrder(r) /\ Range(r) = Range(o) \ {o[k]}
  BY <1>5, <1>6, <1>7, GapOrder DEF n
<1>9. QED
  BY <1>2, <1>6, <1>7, <1>8 DEF n

-----------------------------------------------------------------------------
(* The queue operations on the pointers. *)

(* What r keeps of p outside queue n: the ends of the other queues and the  *)
(* links of every thread outside S.                                         *)
Elsewhere(p, r, n, S) ==
    /\ \A m \in Queues \ {n} : r.head[m] = p.head[m] /\ r.tail[m] = p.tail[m]
    /\ \A s \in Thread \ S : r.next[s] = p.next[s] /\ r.prev[s] = p.prev[s]

(* A queue none of whose threads is touched stays what it was.              *)
LEMMA OtherQueueKept ==
    ASSUME NEW p, NEW r, NEW n, NEW S, Elsewhere(p, r, n, S),
           NEW m \in Queues \ {n}, NEW o, IsOrder(o), Range(o) \cap S = {},
           Makes(p, m, o)
    PROVE  Makes(r, m, o)
<1>1. \A i \in 1 .. Len(o) : o[i] \in Thread \ S
  BY OrderFacts
<1>2. QED
  BY <1>1 DEF Makes, Elsewhere

(* The ends of a list that a queue makes. *)
LEMMA EndsOfQueue ==
    ASSUME NullAssumption, NEW p, NEW n, NEW o, IsOrder(o), Makes(p, n, o)
    PROVE  /\ p.head[n] = NULL <=> o = <<>>
           /\ o # <<>> => /\ p.head[n] = o[1] /\ p.tail[n] = o[Len(o)]
                          /\ Len(o) \in Nat \ {0}
<1>1. CASE o = <<>>
  <2>1. Len(o) = 0
    BY <1>1, OrderFacts
  <2>2. QED
    BY <1>1, <2>1 DEF Makes, Nth
<1>2. CASE o # <<>>
  <2>1. Len(o) \in Nat \ {0}
    BY <1>2, OrderFacts
  <2>2. 1 \in 1 .. Len(o) /\ Len(o) \in 1 .. Len(o)
    BY <2>1
  <2>3. o[1] \in Thread
    BY <2>2, OrderFacts
  <2>4. QED
    BY <1>2, <2>1, <2>2, <2>3 DEF Makes, Nth, NullAssumption
<1>3. QED
  BY <1>1, <1>2

(* Pointers as a record of four functions. *)
LEMMA PointerFields ==
    ASSUME NEW p \in Pointers
    PROVE  /\ p = [prev |-> p.prev, next |-> p.next, head |-> p.head, tail |-> p.tail]
           /\ p.prev \in [Thread -> Link] /\ p.next \in [Thread -> Link]
           /\ p.head \in [Queues -> Link] /\ p.tail \in [Queues -> Link]
BY DEF Pointers

(* Pointers from four functions. *)
LEMMA PointersOf ==
    ASSUME NEW r,
           r = [prev |-> r.prev, next |-> r.next, head |-> r.head, tail |-> r.tail],
           r.prev \in [Thread -> Link], r.next \in [Thread -> Link],
           r.head \in [Queues -> Link], r.tail \in [Queues -> Link]
    PROVE  r \in Pointers
BY DEF Pointers

(* queue_append puts a thread of neither end behind the last one.           *)
LEMMA AppendMakes ==
    ASSUME NullAssumption, NEW p \in Pointers, NEW n \in Queues,
           NEW o, IsOrder(o), Makes(p, n, o), NEW t \in Thread \ Range(o)
    PROVE  /\ queue_append(p, n, t) \in Pointers
           /\ Makes(queue_append(p, n, t), n, Append(o, t))
           /\ Elsewhere(p, queue_append(p, n, t), n, Range(o) \cup {t})
<1> DEFINE r == queue_append(p, n, t)
           a == Append(o, t)
           l == Len(o)
<1>1. /\ l \in Nat /\ Len(a) = l + 1
      /\ \A i \in 1 .. l : a[i] = o[i] /\ o[i] \in Thread /\ o[i] # t
      /\ a[l + 1] = t
      /\ \A i, j \in 1 .. l : o[i] = o[j] => i = j
      /\ o = <<>> <=> l = 0
  BY OrderFacts, AppendOrder
<1>2. a # <<>> /\ l + 1 \in 1 .. l + 1
  <2>1. IsOrder(a)
    BY AppendOrder
  <2> HIDE DEF a
  <2>2. Len(a) # 0 /\ l + 1 \in 1 .. l + 1
    BY <1>1
  <2>3. QED
    BY <2>1, <2>2, OrderFacts
<1>3. t # NULL
  BY DEF NullAssumption
<1>4. CASE o = <<>>
  <2>1. r = [p EXCEPT !.prev[t] = NULL, !.next[t] = NULL,
                      !.head[n] = t, !.tail[n] = t]
    BY <1>4, EndsOfQueue DEF queue_append
  <2>2. /\ r \in Pointers
        /\ r.prev = [p.prev EXCEPT ![t] = NULL]
        /\ r.next = [p.next EXCEPT ![t] = NULL]
        /\ r.head = [p.head EXCEPT ![n] = t]
        /\ r.tail = [p.tail EXCEPT ![n] = t]
    <3>1. /\ r.prev = [p.prev EXCEPT ![t] = NULL]
          /\ r.next = [p.next EXCEPT ![t] = NULL]
          /\ r.head = [p.head EXCEPT ![n] = t]
          /\ r.tail = [p.tail EXCEPT ![n] = t]
      BY <2>1 DEF Pointers
    <3>2. r = [prev |-> r.prev, next |-> r.next, head |-> r.head, tail |-> r.tail]
      BY <2>1 DEF Pointers
    <3>3. /\ [p.prev EXCEPT ![t] = NULL] \in [Thread -> Link]
          /\ [p.next EXCEPT ![t] = NULL] \in [Thread -> Link]
          /\ [p.head EXCEPT ![n] = t] \in [Queues -> Link]
          /\ [p.tail EXCEPT ![n] = t] \in [Queues -> Link]
      BY PointerFields DEF Link
    <3> HIDE DEF r
    <3>4. r \in Pointers
      BY <3>1, <3>2, <3>3, PointerFields, PointersOf
    <3>5. QED
      BY <3>1, <3>4
  <2>3. /\ r.prev[t] = NULL /\ r.next[t] = NULL /\ r.head[n] = t /\ r.tail[n] = t
    BY <2>2 DEF Pointers
  <2>4. Elsewhere(p, r, n, Range(o) \cup {t})
    BY <2>2 DEF Elsewhere, Pointers
  <2> HIDE DEF r, a
  <2>5. Len(a) = 1 /\ a[1] = t
    BY <1>1, <1>4
  <2>6. Makes(r, n, a)
    <3>1. Nth(a, 1) = t /\ Nth(a, 2) = NULL /\ Nth(a, 0) = NULL
      BY <2>5 DEF Nth
    <3>2. \A i \in 1 .. 1 : i = 1
      OBVIOUS
    <3>3. QED
      BY <2>3, <2>5, <3>1, <3>2 DEF Makes
  <2>7. QED
    BY <2>2, <2>4, <2>6 DEF r, a
<1>5. CASE o # <<>>
  <2> DEFINE last == o[l]
  <2>1. l \in 1 .. l /\ l # 0
    BY <1>1, <1>5
  <2>2. p.head[n] = o[1] /\ p.tail[n] = last /\ p.head[n] # NULL
    BY <1>5, EndsOfQueue
  <2>3. last \in Thread /\ last # t /\ last \in Range(o)
    BY <1>1, <2>1, OrderFacts
  <2> HIDE DEF last
  <2>4. r = [p EXCEPT !.next = [@ EXCEPT ![last] = t, ![t] = NULL],
                      !.prev[t] = last, !.tail[n] = t]
    BY <2>2 DEF queue_append
  <2>5. /\ r \in Pointers
        /\ r.prev = [p.prev EXCEPT ![t] = last]
        /\ r.next = [p.next EXCEPT ![last] = t, ![t] = NULL]
        /\ r.head = p.head
        /\ r.tail = [p.tail EXCEPT ![n] = t]
    <3>1. /\ r.prev = [p.prev EXCEPT ![t] = last]
          /\ r.next = [p.next EXCEPT ![last] = t, ![t] = NULL]
          /\ r.head = p.head
          /\ r.tail = [p.tail EXCEPT ![n] = t]
      BY <2>4 DEF Pointers
    <3>2. r = [prev |-> r.prev, next |-> r.next, head |-> r.head, tail |-> r.tail]
      BY <2>4 DEF Pointers
    <3>3. /\ [p.prev EXCEPT ![t] = last] \in [Thread -> Link]
          /\ [p.next EXCEPT ![last] = t, ![t] = NULL] \in [Thread -> Link]
          /\ p.head \in [Queues -> Link]
          /\ [p.tail EXCEPT ![n] = t] \in [Queues -> Link]
      BY <2>3, PointerFields DEF Link
    <3> HIDE DEF r
    <3>4. r \in Pointers
      BY <3>1, <3>2, <3>3, PointerFields, PointersOf
    <3>5. QED
      BY <3>1, <3>4
  <2>6. /\ r.prev[t] = last /\ r.next[t] = NULL /\ r.next[last] = t
        /\ r.head[n] = o[1] /\ r.tail[n] = t
        /\ \A s \in Thread : s # t => r.prev[s] = p.prev[s]
        /\ \A s \in Thread : s # t /\ s # last => r.next[s] = p.next[s]
    BY <2>2, <2>3, <2>5 DEF Pointers
  <2>7. Elsewhere(p, r, n, Range(o) \cup {t})
    BY <2>3, <2>5, <2>6 DEF Elsewhere, Pointers
  <2> HIDE DEF r
  <2>8. /\ r.head[n] = Nth(a, 1)
        /\ r.tail[n] = Nth(a, Len(a))
    BY <1>1, <1>2, <2>1, <2>6 DEF Nth
  <2>9. ASSUME NEW i \in 1 .. Len(a)
        PROVE  r.next[a[i]] = Nth(a, i + 1) /\ r.prev[a[i]] = Nth(a, i - 1)
    <3> HIDE DEF a
    <3>1. CASE i = l + 1
      BY <1>1, <2>1, <2>6, <3>1 DEF Nth, last
    <3>2. CASE i = l
      <4>1. /\ a[i] = last /\ Nth(a, i + 1) = t /\ Nth(a, i - 1) = Nth(o, i - 1)
        BY <1>1, <2>1, <3>2 DEF Nth, last
      <4>2. p.prev[o[i]] = Nth(o, i - 1)
        BY <2>1, <3>2 DEF Makes
      <4>3. QED
        BY <2>3, <2>6, <3>2, <4>1, <4>2 DEF last
    <3>3. CASE i \in 1 .. l - 1
      <4>1. /\ i \in 1 .. l /\ a[i] = o[i] /\ i # l
            /\ Nth(a, i + 1) = Nth(o, i + 1) /\ Nth(a, i - 1) = Nth(o, i - 1)
        BY <1>1, <3>3 DEF Nth
      <4>2. o[i] # last /\ o[i] # t /\ o[i] \in Thread
        BY <1>1, <2>1, <4>1 DEF last
      <4>3. p.next[o[i]] = Nth(o, i + 1) /\ p.prev[o[i]] = Nth(o, i - 1)
        BY <4>1 DEF Makes
      <4>4. QED
        BY <2>6, <4>1, <4>2, <4>3
    <3>4. QED
      BY <1>1, <3>1, <3>2, <3>3
  <2>10. QED
    BY <2>5, <2>7, <2>8, <2>9 DEF Makes, r
<1>6. QED
  BY <1>4, <1>5

(* queue_take leaves the list without its head. *)
LEMMA TakeMakes ==
    ASSUME NullAssumption, NEW p \in Pointers, NEW n \in Queues,
           NEW o, IsOrder(o), Makes(p, n, o), o # <<>>
    PROVE  /\ queue_take(p, n) \in Pointers
           /\ Makes(queue_take(p, n), n, Tail(o))
           /\ Elsewhere(p, queue_take(p, n), n, Range(o))
<1> DEFINE r == queue_take(p, n)
           b == Tail(o)
           l == Len(o)
<1>1. /\ l \in Nat \ {0} /\ p.head[n] = o[1] /\ p.tail[n] = o[l]
      /\ Len(b) = l - 1
      /\ \A i \in 1 .. l - 1 : b[i] = o[i + 1]
      /\ \A i \in 1 .. l : o[i] \in Thread /\ o[i] \in Range(o)
      /\ \A i, j \in 1 .. l : o[i] = o[j] => i = j
      /\ b = <<>> <=> Len(b) = 0
  <2>1. /\ l \in Nat \ {0} /\ p.head[n] = o[1] /\ p.tail[n] = o[l]
    BY EndsOfQueue
  <2>2. /\ IsOrder(b) /\ Len(b) = l - 1
        /\ \A i \in 1 .. l - 1 : b[i] = o[i + 1]
    BY TailOrder
  <2>3. b = <<>> <=> Len(b) = 0
    <3> HIDE DEF b
    <3>1. QED
      BY <2>2, OrderFacts
  <2>4. QED
    BY <2>1, <2>2, <2>3, OrderFacts
<1>2. 1 \in 1 .. l /\ l \in 1 .. l
  BY <1>1
<1>3. CASE l = 1
  <2>1. r = [p EXCEPT !.head[n] = NULL, !.tail[n] = NULL]
    BY <1>1, <1>3 DEF queue_take
  <2>2. /\ r \in Pointers /\ r.head[n] = NULL
        /\ Elsewhere(p, r, n, Range(o))
    <3>1. /\ r.prev = p.prev
          /\ r.next = p.next
          /\ r.head = [p.head EXCEPT ![n] = NULL]
          /\ r.tail = [p.tail EXCEPT ![n] = NULL]
      BY <2>1 DEF Pointers
    <3>2. r = [prev |-> r.prev, next |-> r.next, head |-> r.head, tail |-> r.tail]
      BY <2>1 DEF Pointers
    <3>3. /\ [p.head EXCEPT ![n] = NULL] \in [Queues -> Link]
          /\ [p.tail EXCEPT ![n] = NULL] \in [Queues -> Link]
      BY PointerFields DEF Link
    <3> HIDE DEF r
    <3>4. r \in Pointers
      BY <3>1, <3>2, <3>3, PointerFields, PointersOf
    <3>5. QED
      BY <3>1, <3>4, PointerFields DEF Elsewhere
  <2>3. Len(b) = 0 /\ b = <<>>
    BY <1>1, <1>3
  <2> HIDE DEF r, b
  <2>4. Makes(r, n, b)
    BY <2>2, <2>3 DEF Makes, Nth
  <2>5. QED
    BY <2>2, <2>4 DEF r, b
<1>4. CASE l # 1
  <2>1. 2 \in 1 .. l /\ o[2] \in Thread /\ o[1] # o[l] /\ o[1] \in Thread
    BY <1>1, <1>2, <1>4
  <2>2. p.next[o[1]] = o[2]
    BY <1>2, <2>1 DEF Makes, Nth
  <2>3. r = [p EXCEPT !.prev[o[2]] = NULL, !.head[n] = o[2]]
    BY <1>1, <2>1, <2>2 DEF queue_take
  <2>4. /\ r \in Pointers
        /\ r.next = p.next /\ r.prev = [p.prev EXCEPT ![o[2]] = NULL]
        /\ r.head = [p.head EXCEPT ![n] = o[2]] /\ r.tail = p.tail
    <3>1. /\ r.prev = [p.prev EXCEPT ![o[2]] = NULL]
          /\ r.next = p.next
          /\ r.head = [p.head EXCEPT ![n] = o[2]]
          /\ r.tail = p.tail
      BY <2>3 DEF Pointers
    <3>2. r = [prev |-> r.prev, next |-> r.next, head |-> r.head, tail |-> r.tail]
      BY <2>3 DEF Pointers
    <3>3. /\ [p.prev EXCEPT ![o[2]] = NULL] \in [Thread -> Link]
          /\ [p.head EXCEPT ![n] = o[2]] \in [Queues -> Link]
      BY <2>1, PointerFields DEF Link
    <3> HIDE DEF r
    <3>4. r \in Pointers
      BY <3>1, <3>2, <3>3, PointerFields, PointersOf
    <3>5. QED
      BY <3>1, <3>4
  <2>5. /\ r.head[n] = o[2] /\ r.tail[n] = o[l] /\ r.next = p.next
        /\ r.prev[o[2]] = NULL
        /\ \A s \in Thread : s # o[2] => r.prev[s] = p.prev[s]
    BY <1>1, <2>1, <2>4 DEF Pointers
  <2>6. Elsewhere(p, r, n, Range(o))
    BY <1>1, <2>1, <2>4, <2>5 DEF Elsewhere, Pointers
  <2> HIDE DEF r
  <2>7. r.head[n] = Nth(b, 1) /\ r.tail[n] = Nth(b, Len(b))
    <3>1. 1 \in 1 .. l - 1 /\ l - 1 \in 1 .. l - 1 /\ 1 + 1 = 2 /\ (l - 1) + 1 = l
      BY <1>1, <1>4
    <3> HIDE DEF b, l
    <3>2. b[1] = o[2] /\ b[l - 1] = o[l]
      BY <1>1, <3>1
    <3>3. QED
      BY <1>1, <2>5, <3>1, <3>2 DEF Nth
  <2>8. ASSUME NEW i \in 1 .. Len(b)
        PROVE  r.next[b[i]] = Nth(b, i + 1) /\ r.prev[b[i]] = Nth(b, i - 1)
    <3> HIDE DEF b
    <3>1. i \in 1 .. l - 1 /\ i + 1 \in 1 .. l /\ b[i] = o[i + 1]
      BY <1>1
    <3>2. Nth(b, i + 1) = Nth(o, (i + 1) + 1)
      BY <1>1, <3>1 DEF Nth
    <3>3. p.next[o[i + 1]] = Nth(o, (i + 1) + 1) /\ p.prev[o[i + 1]] = Nth(o, (i + 1) - 1)
      BY <3>1 DEF Makes
    <3>4. CASE i = 1
      <4>1. Nth(b, i - 1) = NULL /\ b[i] = o[2]
        BY <1>1, <3>1, <3>4 DEF Nth
      <4>2. QED
        BY <2>5, <3>1, <3>2, <3>3, <4>1
    <3>5. CASE i # 1
      <4>1. i - 1 \in 1 .. l - 1 /\ (i - 1) + 1 = i /\ (i + 1) - 1 = i /\ i \in 1 .. l
        BY <1>1, <3>1, <3>5
      <4>2. Nth(b, i - 1) = o[i] /\ Nth(o, (i + 1) - 1) = o[i]
        BY <1>1, <4>1 DEF Nth
      <4>3. i + 1 # 2
        BY <3>1, <3>5
      <4>4. o[i + 1] # o[2] /\ o[i + 1] \in Thread
        BY <1>1, <2>1, <3>1, <4>3
      <4>5. QED
        BY <2>5, <3>1, <3>2, <3>3, <4>2, <4>4
    <3>6. QED
      BY <3>4, <3>5
  <2>9. QED
    BY <2>4, <2>6, <2>7, <2>8 DEF Makes, r
<1>5. QED
  BY <1>3, <1>4

(* The places of a list are told apart by their elements. *)
LEMMA AtIsInjective ==
    ASSUME NullAssumption, NEW o, IsOrder(o), NEW j \in 1 .. Len(o), NEW m \in Int
    PROVE  o[j] = Nth(o, m) <=> j = m
BY OrderFacts DEF Nth, NullAssumption

(* queue_remove leaves the list without the removed thread. *)
LEMMA RemoveMakes ==
    ASSUME NullAssumption, NEW p \in Pointers, NEW n \in Queues,
           NEW o, IsOrder(o), Makes(p, n, o), NEW k \in 1 .. Len(o)
    PROVE  /\ queue_remove(p, n, o[k]) \in Pointers
           /\ Makes(queue_remove(p, n, o[k]), n, RemoveFirst(o, o[k]))
           /\ Elsewhere(p, queue_remove(p, n, o[k]), n, Range(o))
<1> DEFINE t == o[k]
           r == queue_remove(p, n, t)
           b == RemoveFirst(o, t)
           l == Len(o)
           before == Nth(o, k - 1)
           after == Nth(o, k + 1)
<1>1. /\ l \in Nat /\ k \in 1 .. l /\ l # 0
      /\ \A i \in 1 .. l : o[i] \in Thread /\ o[i] \in Range(o)
      /\ \A i, j \in 1 .. l : o[i] = o[j] => i = j
      /\ o # <<>>
  BY OrderFacts
<1>2. /\ Len(b) = l - 1 /\ IsOrder(b)
      /\ \A i \in 1 .. l - 1 : b[i] = IF i < k THEN o[i] ELSE o[i + 1]
  BY RemoveOrder
<1>3. /\ p.next[t] = after /\ p.prev[t] = before
      /\ p.head[n] = o[1] /\ p.tail[n] = o[l] /\ t \in Thread
      /\ 1 \in 1 .. l /\ l \in 1 .. l
  <2>1. p.next[t] = after /\ p.prev[t] = before
    BY <1>1 DEF Makes
  <2>2. p.head[n] = o[1] /\ p.tail[n] = o[l]
    BY <1>1, EndsOfQueue
  <2>3. QED
    BY <1>1, <2>1, <2>2
<1>4. /\ before \in (Range(o) \cap Thread) \cup {NULL}
      /\ after \in (Range(o) \cap Thread) \cup {NULL}
  BY <1>1 DEF Nth
<1>5. NULL \notin Thread
  BY DEF NullAssumption
<1> HIDE DEF before, after
<1>6. /\ r \in Pointers
      /\ \A s \in Thread : /\ r.next[s] = IF s = before THEN after ELSE p.next[s]
                           /\ r.prev[s] = IF s = after THEN before ELSE p.prev[s]
      /\ r.head[n] = (IF o[1] = t THEN after ELSE o[1])
      /\ r.tail[n] = (IF o[l] = t THEN before ELSE o[l])
      /\ \A m \in Queues \ {n} : r.head[m] = p.head[m] /\ r.tail[m] = p.tail[m]
  <2> DEFINE nx == Relink(p.next, before, after)
             pv == Relink(p.prev, after, before)
             hd == [p.head EXCEPT ![n] = IF @ = t THEN after ELSE @]
             tl == [p.tail EXCEPT ![n] = IF @ = t THEN before ELSE @]
  <2> HIDE DEF t
  <2>1. r = [p EXCEPT !.next = nx, !.prev = pv,
                      !.head[n] = IF @ = t THEN after ELSE @,
                      !.tail[n] = IF @ = t THEN before ELSE @]
    BY <1>3 DEF queue_remove
  <2>2. /\ nx \in [Thread -> Link] /\ pv \in [Thread -> Link]
        /\ \A s \in Thread : /\ nx[s] = IF s = before THEN after ELSE p.next[s]
                             /\ pv[s] = IF s = after THEN before ELSE p.prev[s]
    BY <1>4, <1>5, PointerFields DEF Relink, Link
  <2>3. /\ hd \in [Queues -> Link] /\ tl \in [Queues -> Link]
        /\ hd[n] = (IF o[1] = t THEN after ELSE o[1])
        /\ tl[n] = (IF o[l] = t THEN before ELSE o[l])
        /\ \A m \in Queues \ {n} : hd[m] = p.head[m] /\ tl[m] = p.tail[m]
    BY <1>1, <1>3, <1>4, PointerFields DEF Link
  <2> HIDE DEF nx, pv
  <2>4. r.next = nx /\ r.prev = pv /\ r.head = hd /\ r.tail = tl
    BY <2>1 DEF Pointers
  <2>5. r = [prev |-> r.prev, next |-> r.next, head |-> r.head, tail |-> r.tail]
    BY <2>1 DEF Pointers
  <2> HIDE DEF r, hd, tl
  <2>6. r \in Pointers
    BY <2>2, <2>3, <2>4, <2>5, PointersOf
  <2>7. QED
    BY <2>2, <2>3, <2>4, <2>6
<1>7. Elsewhere(p, r, n, Range(o))
  <2>1. ASSUME NEW s \in Thread \ Range(o) PROVE s # before /\ s # after
    BY <1>4, <1>5
  <2> HIDE DEF r
  <2>2. QED
    BY <1>6, <2>1 DEF Elsewhere
<1> HIDE DEF r, b
<1>8. ASSUME NEW i \in Int
      PROVE  Nth(b, i) = IF i < k THEN Nth(o, i) ELSE Nth(o, i + 1)
  <2>1. CASE i \in 1 .. l - 1
    BY <1>1, <1>2, <2>1 DEF Nth
  <2>2. CASE i \notin 1 .. l - 1
    <3>1. IF i < k THEN i \notin 1 .. l ELSE i + 1 \notin 1 .. l
      BY <1>1, <2>2
    <3>2. QED
      BY <1>2, <2>2, <3>1 DEF Nth
  <2>3. QED
    BY <2>1, <2>2
<1>9. r.head[n] = Nth(b, 1)
  <2>1. o[1] = t <=> 1 = k
    BY <1>1, <1>3
  <2>2. Nth(o, 1) = o[1] /\ 1 \in Int /\ 1 + 1 = 2
    BY <1>3 DEF Nth
  <2>3. CASE k = 1
    <3>1. Nth(b, 1) = Nth(o, 2)
      BY <1>8, <2>2, <2>3
    <3>2. r.head[n] = after
      BY <1>6, <2>1, <2>3
    <3>3. QED
      BY <2>3, <3>1, <3>2 DEF after
  <2>4. CASE k # 1
    <3>1. 1 < k
      BY <1>1, <2>4
    <3>2. Nth(b, 1) = o[1]
      BY <1>8, <2>2, <3>1
    <3>3. r.head[n] = o[1]
      BY <1>6, <2>1, <2>4
    <3>4. QED
      BY <3>2, <3>3
  <2>5. QED
    BY <2>3, <2>4
<1>10. b # <<>> => r.tail[n] = Nth(b, Len(b))
  <2>1. o[l] = t <=> l = k
    BY <1>1, <1>3
  <2>2. Nth(o, l) = o[l] /\ l - 1 \in Int /\ (l - 1) + 1 = l
    BY <1>1, <1>3 DEF Nth
  <2>3. CASE k = l
    <3>1. l - 1 < k /\ k - 1 = l - 1
      BY <1>1, <2>3
    <3>2. Nth(b, l - 1) = Nth(o, k - 1)
      BY <1>8, <2>2, <3>1
    <3>3. r.tail[n] = before
      BY <1>6, <2>1, <2>3
    <3>4. QED
      BY <1>2, <3>2, <3>3 DEF before
  <2>4. CASE k # l
    <3>1. ~(l - 1 < k)
      BY <1>1, <2>4
    <3>2. Nth(b, l - 1) = o[l]
      BY <1>8, <2>2, <3>1
    <3>3. r.tail[n] = o[l]
      BY <1>6, <2>1, <2>4
    <3>4. QED
      BY <1>2, <3>2, <3>3
  <2>5. QED
    BY <2>3, <2>4
<1>11. ASSUME NEW i \in 1 .. Len(b)
       PROVE  r.next[b[i]] = Nth(b, i + 1) /\ r.prev[b[i]] = Nth(b, i - 1)
  <2> DEFINE j == IF i < k THEN i ELSE i + 1
  <2>1. /\ i \in 1 .. l - 1 /\ j \in 1 .. l /\ i + 1 \in Int /\ i - 1 \in Int
        /\ k - 1 \in Int /\ k + 1 \in Int
    BY <1>1, <1>2
  <2>2. b[i] = o[j]
    BY <1>2, <2>1
  <2>3. /\ o[j] = before <=> j = k - 1
        /\ o[j] = after <=> j = k + 1
    BY <2>1, AtIsInjective DEF before, after
  <2>4. p.next[o[j]] = Nth(o, j + 1) /\ p.prev[o[j]] = Nth(o, j - 1)
    BY <2>1 DEF Makes
  <2>5. /\ r.next[o[j]] = IF j = k - 1 THEN Nth(o, k + 1) ELSE Nth(o, j + 1)
        /\ r.prev[o[j]] = IF j = k + 1 THEN Nth(o, k - 1) ELSE Nth(o, j - 1)
    BY <1>1, <1>6, <2>1, <2>3, <2>4 DEF before, after
  <2>6. Nth(b, i + 1) = IF j = k - 1 THEN Nth(o, k + 1) ELSE Nth(o, j + 1)
    <3>1. CASE i + 1 < k
      BY <1>8, <2>1, <3>1
    <3>2. CASE i + 1 = k
      <4>1. j = k - 1 /\ (i + 1) + 1 = k + 1 /\ ~(i + 1 < k)
        BY <2>1, <3>2
      <4>2. QED
        BY <1>8, <2>1, <4>1
    <3>3. CASE i + 1 > k
      <4>1. j = i + 1 /\ j # k - 1 /\ ~(i + 1 < k)
        BY <2>1, <3>3
      <4>2. QED
        BY <1>8, <2>1, <4>1
    <3>4. QED
      BY <2>1, <3>1, <3>2, <3>3
  <2>7. Nth(b, i - 1) = IF j = k + 1 THEN Nth(o, k - 1) ELSE Nth(o, j - 1)
    <3>1. CASE i < k
      <4>1. j = i /\ j # k + 1 /\ i - 1 < k
        BY <2>1, <3>1
      <4>2. QED
        BY <1>8, <2>1, <4>1
    <3>2. CASE i = k
      <4>1. j = k + 1 /\ i - 1 = k - 1 /\ i - 1 < k
        BY <2>1, <3>2
      <4>2. QED
        BY <1>8, <2>1, <4>1
    <3>3. CASE i > k
      <4>1. j = i + 1 /\ j # k + 1 /\ ~(i - 1 < k) /\ (i - 1) + 1 = j - 1
        BY <2>1, <3>3
      <4>2. QED
        BY <1>8, <2>1, <4>1
    <3>4. QED
      BY <2>1, <3>1, <3>2, <3>3
  <2>8. QED
    BY <2>2, <2>5, <2>6, <2>7
<1>12. Makes(r, n, b)
  BY <1>9, <1>10, <1>11 DEF Makes
<1>13. QED
  BY <1>6, <1>7, <1>12 DEF r, b

-----------------------------------------------------------------------------
(* The invariant. *)

States == {"New", "Ready", "Blocked", "Finished"}

(* States s, pointers p, orders o and running thread c fit together: each   *)
(* queue makes its list, which holds the threads of its state except the    *)
(* running one, whose state stays Ready.                                    *)
Consistent(s, p, o, c) ==
    /\ s \in [Thread -> States] /\ p \in Pointers /\ c \in Link
    /\ DOMAIN o = Queues /\ o = [n \in Queues |-> o[n]]
    /\ \A n \in Queues : IsOrder(o[n]) /\ Makes(p, n, o[n])
    /\ \A n \in Queues, t \in Thread : t \in Range(o[n]) <=> s[t] = n /\ t # c
    /\ c # NULL => s[c] = Ready

(* Every list is made, every thread is where its state says, and success is *)
(* reported only once no thread is left.                                    *)
CoopInv ==
    /\ Consistent(state, q, order, current)
    /\ exited \in {NULL, 0, 1}
    /\ exited = 0 => \A t \in Thread : state[t] \in {"New", "Finished"}

(* A thread of neither queue that does not run is appended to one.          *)
LEMMA EnqueueConsistent ==
    ASSUME NullAssumption, NEW s, NEW p, NEW o, NEW c, Consistent(s, p, o, c),
           NEW n \in Queues, NEW t \in Thread, s[t] \notin Queues
    PROVE  Consistent([s EXCEPT ![t] = n], queue_append(p, n, t),
                      [o EXCEPT ![n] = Append(@, t)], c)
<1> DEFINE s2 == [s EXCEPT ![t] = n]
           p2 == queue_append(p, n, t)
           o2 == [o EXCEPT ![n] = Append(@, t)]
<1>1. /\ s \in [Thread -> States] /\ p \in Pointers /\ c \in Link
      /\ o2 = [m \in Queues |-> o2[m]] /\ DOMAIN o2 = Queues
      /\ o2[n] = Append(o[n], t) /\ \A m \in Queues \ {n} : o2[m] = o[m]
      /\ \A m \in Queues : IsOrder(o[m]) /\ Makes(p, m, o[m])
      /\ \A m \in Queues, u \in Thread : u \in Range(o[m]) <=> s[u] = m /\ u # c
      /\ c # NULL => s[c] = Ready
  BY DEF Consistent
<1>2. t # c /\ \A m \in Queues : t \notin Range(o[m])
  BY <1>1 DEF Queues, NullAssumption
<1>3. /\ p2 \in Pointers /\ Makes(p2, n, Append(o[n], t))
      /\ Elsewhere(p, p2, n, Range(o[n]) \cup {t})
  BY <1>1, <1>2, AppendMakes
<1>4. IsOrder(Append(o[n], t)) /\ Range(Append(o[n], t)) = Range(o[n]) \cup {t}
  BY <1>1, <1>2, AppendOrder
<1>5. /\ s2 \in [Thread -> States] /\ s2[t] = n
      /\ \A u \in Thread \ {t} : s2[u] = s[u]
  BY <1>1 DEF Queues, Ready, Blocked, States
<1> HIDE DEF s2, p2, o2
<1>6. ASSUME NEW m \in Queues PROVE IsOrder(o2[m]) /\ Makes(p2, m, o2[m])
  <2>1. CASE m = n
    BY <1>1, <1>3, <1>4, <2>1
  <2>2. CASE m # n
    <3>1. \A u \in Range(o[m]) : u \in Thread
      BY <1>1, OrderFacts
    <3>2. Range(o[m]) \cap (Range(o[n]) \cup {t}) = {}
      BY <1>1, <1>2, <2>2, <3>1
    <3>3. QED
      BY <1>1, <1>3, <2>2, <3>2, OtherQueueKept
  <2>3. QED
    BY <2>1, <2>2
<1>7. ASSUME NEW m \in Queues, NEW u \in Thread
      PROVE  u \in Range(o2[m]) <=> s2[u] = m /\ u # c
  <2>1. CASE u = t
    BY <1>1, <1>2, <1>4, <1>5, <2>1
  <2>2. CASE u # t
    <3>1. u \in Range(o2[m]) <=> u \in Range(o[m])
      <4>1. CASE m = n
        BY <1>1, <1>4, <2>2, <4>1
      <4>2. CASE m # n
        BY <1>1, <4>2
      <4>3. QED
        BY <4>1, <4>2
    <3>2. QED
      BY <1>1, <1>5, <2>2, <3>1
  <2>3. QED
    BY <2>1, <2>2
<1>8. c # NULL => s2[c] = Ready
  BY <1>1, <1>2, <1>5 DEF Link
<1>9. QED
  BY <1>1, <1>3, <1>5, <1>6, <1>7, <1>8 DEF Consistent, s2, p2, o2

(* The running thread stops, in a state of no queue. *)
LEMMA StopConsistent ==
    ASSUME NullAssumption, NEW s, NEW p, NEW o, NEW c, Consistent(s, p, o, c),
           c # NULL, NEW w \in States \ Queues
    PROVE  Consistent([s EXCEPT ![c] = w], p, o, NULL)
<1> DEFINE s2 == [s EXCEPT ![c] = w]
<1>1. /\ c \in Thread /\ s2 \in [Thread -> States] /\ s2[c] = w
      /\ \A u \in Thread \ {c} : s2[u] = s[u]
  BY DEF Consistent, Link
<1>2. ASSUME NEW m \in Queues, NEW u \in Thread
      PROVE  u \in Range(o[m]) <=> s2[u] = m /\ u # NULL
  BY <1>1 DEF Consistent, NullAssumption
<1> HIDE DEF s2
<1>3. Consistent(s2, p, o, NULL)
  BY <1>1, <1>2 DEF Consistent, Link
<1>4. QED
  BY <1>3 DEF s2

(* A thread that does not run is taken out of the queue of its state.       *)
LEMMA RemoveConsistent ==
    ASSUME NullAssumption, NEW s, NEW p, NEW o, NEW c, Consistent(s, p, o, c),
           NEW n \in Queues, NEW t \in Thread \ {c}, s[t] = n
    PROVE  Consistent([s EXCEPT ![t] = "New"], queue_remove(p, n, t),
                      [o EXCEPT ![n] = RemoveFirst(@, t)], c)
<1> DEFINE s2 == [s EXCEPT ![t] = "New"]
           p2 == queue_remove(p, n, t)
           o2 == [o EXCEPT ![n] = RemoveFirst(@, t)]
<1>1. /\ s \in [Thread -> States] /\ p \in Pointers /\ c \in Link
      /\ o2 = [m \in Queues |-> o2[m]] /\ DOMAIN o2 = Queues
      /\ o2[n] = RemoveFirst(o[n], t) /\ \A m \in Queues \ {n} : o2[m] = o[m]
      /\ \A m \in Queues : IsOrder(o[m]) /\ Makes(p, m, o[m])
      /\ \A m \in Queues, u \in Thread : u \in Range(o[m]) <=> s[u] = m /\ u # c
      /\ c # NULL => s[c] = Ready
  BY DEF Consistent
<1>2. PICK k \in 1 .. Len(o[n]) : o[n][k] = t
  <2>1. t \in Range(o[n])
    BY <1>1
  <2>2. QED
    BY <1>1, <2>1, OrderFacts
<1>3. /\ p2 \in Pointers /\ Makes(p2, n, RemoveFirst(o[n], t))
      /\ Elsewhere(p, p2, n, Range(o[n]))
  BY <1>1, <1>2, RemoveMakes
<1>4. /\ IsOrder(RemoveFirst(o[n], t))
      /\ Range(RemoveFirst(o[n], t)) = Range(o[n]) \ {t}
  BY <1>1, <1>2, RemoveOrder
<1>5. /\ s2 \in [Thread -> States] /\ s2[t] = "New" /\ "New" \notin Queues
      /\ \A u \in Thread \ {t} : s2[u] = s[u]
  BY <1>1 DEF Queues, Ready, Blocked, States
<1> HIDE DEF s2, p2, o2
<1>6. ASSUME NEW m \in Queues PROVE IsOrder(o2[m]) /\ Makes(p2, m, o2[m])
  <2>1. CASE m = n
    BY <1>1, <1>3, <1>4, <2>1
  <2>2. CASE m # n
    <3>1. \A u \in Range(o[m]) : u \in Thread
      BY <1>1, OrderFacts
    <3>2. Range(o[m]) \cap Range(o[n]) = {}
      BY <1>1, <2>2, <3>1
    <3>3. QED
      BY <1>1, <1>3, <2>2, <3>2, OtherQueueKept
  <2>3. QED
    BY <2>1, <2>2
<1>7. ASSUME NEW m \in Queues, NEW u \in Thread
      PROVE  u \in Range(o2[m]) <=> s2[u] = m /\ u # c
  BY <1>1, <1>4, <1>5
<1>8. c # NULL => s2[c] = Ready
  BY <1>1, <1>5 DEF Link
<1>9. QED
  BY <1>1, <1>3, <1>5, <1>6, <1>7, <1>8 DEF Consistent, s2, p2, o2

(* The head of the ready queue starts to run. *)
LEMMA DispatchConsistent ==
    ASSUME NullAssumption, NEW s, NEW p, NEW o, Consistent(s, p, o, NULL),
           p.head[Ready] # NULL
    PROVE  Consistent(s, queue_take(p, Ready), [o EXCEPT ![Ready] = Tail(@)],
                      p.head[Ready])
<1> DEFINE c == p.head[Ready]
           p2 == queue_take(p, Ready)
           o2 == [o EXCEPT ![Ready] = Tail(@)]
<1>1. /\ s \in [Thread -> States] /\ p \in Pointers /\ Ready \in Queues
      /\ o2 = [m \in Queues |-> o2[m]] /\ DOMAIN o2 = Queues
      /\ o2[Ready] = Tail(o[Ready]) /\ \A m \in Queues \ {Ready} : o2[m] = o[m]
      /\ \A m \in Queues : IsOrder(o[m]) /\ Makes(p, m, o[m])
      /\ \A m \in Queues, u \in Thread : u \in Range(o[m]) <=> s[u] = m
  BY DEF Consistent, Queues, NullAssumption
<1>2. /\ o[Ready] # <<>> /\ c = o[Ready][1] /\ 1 \in 1 .. Len(o[Ready])
  <2>1. o[Ready] # <<>>
    BY <1>1, EndsOfQueue
  <2>2. c = o[Ready][1] /\ Len(o[Ready]) \in Nat \ {0}
    BY <1>1, <2>1, EndsOfQueue
  <2>3. QED
    BY <2>1, <2>2
<1>3. c \in Thread /\ c \in Range(o[Ready]) /\ s[c] = Ready
  BY <1>1, <1>2, OrderFacts
<1>4. /\ p2 \in Pointers /\ Makes(p2, Ready, Tail(o[Ready]))
      /\ Elsewhere(p, p2, Ready, Range(o[Ready]))
  BY <1>1, <1>2, TakeMakes
<1>5. IsOrder(Tail(o[Ready])) /\ Range(Tail(o[Ready])) = Range(o[Ready]) \ {c}
  BY <1>1, <1>2, TailOrder
<1> HIDE DEF c, p2, o2
<1>6. ASSUME NEW m \in Queues PROVE IsOrder(o2[m]) /\ Makes(p2, m, o2[m])
  <2>1. CASE m = Ready
    BY <1>1, <1>4, <1>5, <2>1
  <2>2. CASE m # Ready
    <3>1. \A u \in Range(o[m]) : u \in Thread
      BY <1>1, OrderFacts
    <3>2. Range(o[m]) \cap Range(o[Ready]) = {}
      BY <1>1, <2>2, <3>1
    <3>3. QED
      BY <1>1, <1>4, <2>2, <3>2, OtherQueueKept
  <2>3. QED
    BY <2>1, <2>2
<1>7. ASSUME NEW m \in Queues, NEW u \in Thread
      PROVE  u \in Range(o2[m]) <=> s[u] = m /\ u # c
  <2>1. CASE m = Ready
    BY <1>1, <1>5, <2>1
  <2>2. CASE m # Ready
    BY <1>1, <1>3, <2>2
  <2>3. QED
    BY <2>1, <2>2
<1>8. QED
  BY <1>1, <1>3, <1>4, <1>6, <1>7 DEF Consistent, Link, c, p2, o2

(* The second half of the scheduler, from queues that fit the new states.   *)
LEMMA ScheduleNextKeepsInv ==
    ASSUME NullAssumption, NEW p, NEW o, Consistent(state', p, o, NULL),
           exited = NULL, ScheduleNext(p, o)
    PROVE  CoopInv'
<1>1. CASE p.head[Ready] = NULL
  <2>1. /\ exited' = IF p.head[Blocked] = NULL THEN 0 ELSE 1
        /\ q' = p /\ order' = o /\ current' = NULL
    BY <1>1 DEF ScheduleNext
  <2>2. ASSUME exited' = 0, NEW t \in Thread
        PROVE  state'[t] \in {"New", "Finished"}
    <3>1. p.head[Blocked] = NULL
      BY <2>1, <2>2
    <3>2. \A n \in Queues : IsOrder(o[n]) /\ Makes(p, n, o[n]) /\ p.head[n] = NULL
      BY <1>1, <3>1 DEF Consistent, Queues
    <3>3. \A n \in Queues : o[n] = <<>>
      BY <3>2, EndsOfQueue
    <3>4. \A n \in Queues : Range(o[n]) = {}
      BY <3>3 DEF Range
    <3>5. t # NULL /\ state'[t] \in States
      BY DEF NullAssumption, Consistent
    <3>6. state'[t] \notin Queues
      BY <3>4, <3>5 DEF Consistent
    <3>7. QED
      BY <3>5, <3>6 DEF States, Queues, Ready, Blocked
  <2>3. Consistent(state', q', order', current')
    BY <2>1
  <2>4. QED
    BY <2>1, <2>2, <2>3 DEF CoopInv
<1>2. CASE p.head[Ready] # NULL
  <2>1. /\ q' = queue_take(p, Ready)
        /\ order' = [o EXCEPT ![Ready] = Tail(@)]
        /\ current' = p.head[Ready] /\ exited' = NULL
    BY <1>2 DEF ScheduleNext
  <2>2. Consistent(state', q', order', current')
    BY <1>2, <2>1, DispatchConsistent
  <2>3. exited' # 0
    BY <2>1 DEF NullAssumption
  <2>4. QED
    BY <2>1, <2>2, <2>3 DEF CoopInv
<1>3. QED
  BY <1>1, <1>2

(* The scheduler keeps the invariant. *)
LEMMA ScheduleKeepsInv ==
    ASSUME NullAssumption, CoopInv, exited = NULL, current # NULL,
           NEW w \in States \ {"New"}, Schedule(w)
    PROVE  CoopInv'
<1> DEFINE s == [state EXCEPT ![current] = "New"]
<1>1. Consistent(state, q, order, current) /\ current \in Thread
  BY DEF CoopInv, Consistent, Link
<1>2. state' = [state EXCEPT ![current] = w]
  BY DEF Schedule
<1>3. CASE w \in Queues
  <2> DEFINE p == queue_append(q, w, current)
             o == [order EXCEPT ![w] = Append(@, current)]
  <2>1. Consistent(s, q, order, NULL)
    BY <1>1, StopConsistent DEF NullAssumption, States, Queues, Ready, Blocked
  <2>2. s[current] = "New" /\ "New" \notin Queues
    BY <1>1 DEF Consistent, Queues, Ready, Blocked
  <2>3. state' = [s EXCEPT ![current] = w]
    BY <1>1, <1>2 DEF Consistent
  <2> HIDE DEF s
  <2>4. Consistent(state', p, o, NULL)
    BY <1>1, <1>3, <2>1, <2>2, <2>3, EnqueueConsistent
  <2>5. ScheduleNext(p, o)
    BY <1>3 DEF Schedule
  <2>6. QED
    BY <2>4, <2>5, ScheduleNextKeepsInv
<1>4. CASE w \notin Queues
  <2>1. Consistent(state', q, order, NULL)
    BY <1>1, <1>2, <1>4, StopConsistent
  <2>2. ScheduleNext(q, order)
    BY <1>4 DEF Schedule
  <2>3. QED
    BY <2>1, <2>2, ScheduleNextKeepsInv
<1>5. QED
  BY <1>3, <1>4

(* A new thread enters the ready queue. *)
LEMMA CreateKeepsInv ==
    ASSUME NullAssumption, CoopInv, NEW t \in Thread, sthread_create(t)
    PROVE  CoopInv'
<1>1. Consistent(state, q, order, current)
  BY DEF CoopInv
<1>2. "New" \notin Queues /\ Ready \in Queues
  BY DEF Queues, Ready, Blocked
<1>3. /\ exited = NULL /\ state[t] = "New" /\ state' = [state EXCEPT ![t] = Ready]
      /\ q' = queue_append(q, Ready, t)
      /\ order' = [order EXCEPT ![Ready] = Append(@, t)]
      /\ current' = current /\ exited' = exited
  BY DEF sthread_create
<1>4. Consistent(state', q', order', current')
  BY <1>1, <1>2, <1>3, EnqueueConsistent
<1>5. exited' = NULL /\ exited' # 0
  BY <1>3 DEF NullAssumption
<1>6. QED
  BY <1>4, <1>5 DEF CoopInv

(* A blocked thread moves to the ready queue, through the same links.       *)
LEMMA UnblockKeepsInv ==
    ASSUME NullAssumption, CoopInv, NEW t \in Thread, sthread_unblock(t)
    PROVE  CoopInv'
<1> DEFINE s == [state EXCEPT ![t] = "New"]
           p == queue_remove(q, Blocked, t)
           o == [order EXCEPT ![Blocked] = RemoveFirst(@, t)]
<1>1. /\ Consistent(state, q, order, current) /\ current # NULL
      /\ state \in [Thread -> States] /\ state[current] = Ready
      /\ DOMAIN order = Queues
  BY DEF CoopInv, Consistent, sthread_unblock, Running
<1>2. /\ "New" \notin Queues /\ Ready \in Queues /\ Blocked \in Queues
      /\ Ready # Blocked
  BY DEF Queues, Ready, Blocked
<1>3. /\ exited = NULL /\ state[t] = Blocked
      /\ state' = [state EXCEPT ![t] = Ready]
      /\ q' = queue_append(p, Ready, t)
      /\ order' = [order EXCEPT ![Blocked] = RemoveFirst(@, t),
                                ![Ready] = Append(@, t)]
      /\ current' = current /\ exited' = exited
  BY DEF sthread_unblock, Running
<1>4. t # current
  BY <1>1, <1>2, <1>3
<1>5. Consistent(s, p, o, current)
  BY <1>1, <1>2, <1>3, <1>4, RemoveConsistent
<1>6. s[t] = "New" /\ state' = [s EXCEPT ![t] = Ready]
  BY <1>1, <1>3
<1>7. order' = [o EXCEPT ![Ready] = Append(@, t)]
  BY <1>1, <1>2, <1>3
<1> HIDE DEF s, p, o
<1>8. Consistent(state', q', order', current')
  <2>1. s[t] \notin Queues
    BY <1>2, <1>6
  <2>2. Consistent([s EXCEPT ![t] = Ready], queue_append(p, Ready, t),
                   [o EXCEPT ![Ready] = Append(@, t)], current)
    BY <1>2, <1>5, <2>1, EnqueueConsistent
  <2>3. QED
    BY <1>3, <1>6, <1>7, <2>2
<1>9. exited' = NULL /\ exited' # 0
  BY <1>3 DEF NullAssumption
<1>10. QED
  BY <1>8, <1>9 DEF CoopInv

(* Before the first thread is created, everything is empty. *)
LEMMA InitEstablishesInv ==
    ASSUME NullAssumption, CoopInit
    PROVE  CoopInv
<1>1. /\ state \in [Thread -> States] /\ current = NULL /\ exited = NULL
      /\ \A t \in Thread : state[t] = "New"
      /\ \A n \in Queues : order[n] = <<>> /\ q.head[n] = NULL
      /\ order = [n \in Queues |-> <<>>]
  BY DEF CoopInit, States
<1>2. q \in Pointers
  BY DEF CoopInit, Pointers, Link
<1>3. IsOrder(<<>>) /\ Range(<<>>) = {} /\ Len(<<>>) = 0
  BY DEF IsOrder, IsInjective, Range
<1>4. \A n \in Queues : IsOrder(order[n]) /\ Makes(q, n, order[n])
  BY <1>1, <1>3 DEF Makes, Nth
<1>5. \A n \in Queues, t \in Thread : t \notin Range(order[n]) /\ state[t] # n
  BY <1>1, <1>3 DEF Queues, Ready, Blocked
<1>6. DOMAIN order = Queues /\ order = [n \in Queues |-> order[n]]
  BY <1>1
<1>7. Consistent(state, q, order, current)
  BY <1>1, <1>2, <1>4, <1>5, <1>6 DEF Consistent, Link
<1>8. exited # 0
  BY <1>1 DEF NullAssumption
<1>9. QED
  BY <1>1, <1>7, <1>8 DEF CoopInv

(* Every step keeps the invariant. *)
LEMMA NextKeepsInv ==
    ASSUME NullAssumption, CoopInv, [CoopNext]_coopVars
    PROVE  CoopInv'
<1>1. ASSUME NEW t \in Thread, sthread_create(t) PROVE CoopInv'
  BY <1>1, CreateKeepsInv
<1>2. ASSUME NEW t \in Thread, sthread_unblock(t) PROVE CoopInv'
  BY <1>2, UnblockKeepsInv
<1>3. CASE sthread_start
  <2>1. /\ Consistent(state', q, order, NULL) /\ exited = NULL
        /\ ScheduleNext(q, order)
    BY <1>3 DEF sthread_start, CoopInv
  <2>2. QED
    BY <2>1, ScheduleNextKeepsInv
<1>4. CASE sthread_yield
  <2>1. exited = NULL /\ current # NULL /\ Schedule(Ready) /\ Ready \in States \ {"New"}
    BY <1>4 DEF sthread_yield, Running, States, Ready
  <2>2. QED
    BY <2>1, ScheduleKeepsInv
<1>5. CASE sthread_block
  <2>1. exited = NULL /\ current # NULL /\ Schedule(Blocked) /\ Blocked \in States \ {"New"}
    BY <1>5 DEF sthread_block, Running, States, Blocked
  <2>2. QED
    BY <2>1, ScheduleKeepsInv
<1>6. CASE sthread_finish
  <2>1. exited = NULL /\ current # NULL /\ Schedule("Finished")
        /\ "Finished" \in States \ {"New"}
    BY <1>6 DEF sthread_finish, Running, States
  <2>2. QED
    BY <2>1, ScheduleKeepsInv
<1>7. CASE UNCHANGED coopVars
  BY <1>7 DEF coopVars, CoopInv
<1>8. QED
  BY <1>1, <1>2, <1>3, <1>4, <1>5, <1>6, <1>7 DEF CoopNext

(* The invariant says where each thread is and what its links say.          *)
LEMMA InvGivesPlaces ==
    ASSUME NullAssumption, CoopInv
    PROVE  ThreadsKeepTheirPlaces
<1>1. /\ \A n \in Queues : IsOrder(order[n]) /\ Makes(q, n, order[n])
      /\ \A n \in Queues, t \in Thread :
            t \in Range(order[n]) <=> state[t] = n /\ t # current
      /\ current # NULL => state[current] = Ready
  BY DEF CoopInv, Consistent
<1>2. LinksMatchQueues
  <2> SUFFICES ASSUME NEW n \in Queues
               PROVE  LET o == order[n]
                      IN  IF o = << >> THEN q.head[n] = NULL
                          ELSE /\ q.head[n] = Head(o) /\ q.tail[n] = Last(o)
                               /\ q.prev[Head(o)] = NULL /\ q.next[Last(o)] = NULL
                               /\ \A i \in 1..(Len(o) - 1) :
                                     q.next[o[i]] = o[i + 1] /\ q.prev[o[i + 1]] = o[i]
    BY DEF LinksMatchQueues
  <2> DEFINE o == order[n]
             l == Len(o)
  <2>1. IsOrder(o) /\ Makes(q, n, o)
    BY <1>1
  <2> HIDE DEF o
  <2>2. CASE o = <<>>
    BY <2>1, <2>2, EndsOfQueue DEF o
  <2>3. CASE o # <<>>
    <3>1. /\ q.head[n] = o[1] /\ q.tail[n] = o[l] /\ l \in Nat \ {0}
          /\ 1 \in 1 .. l /\ l \in 1 .. l
      BY <2>1, <2>3, EndsOfQueue
    <3>2. Head(o) = o[1] /\ Last(o) = o[l]
      BY <2>1, <2>3, HeadTailProperties DEF IsOrder, Last
    <3>3. q.prev[o[1]] = NULL /\ q.next[o[l]] = NULL
      BY <2>1, <3>1 DEF Makes, Nth
    <3>4. ASSUME NEW i \in 1 .. l - 1
          PROVE  q.next[o[i]] = o[i + 1] /\ q.prev[o[i + 1]] = o[i]
      <4>1. i \in 1 .. l /\ i + 1 \in 1 .. l /\ (i + 1) - 1 = i
        BY <3>1
      <4>2. Nth(o, i + 1) = o[i + 1] /\ Nth(o, (i + 1) - 1) = o[i]
        BY <4>1 DEF Nth
      <4>3. QED
        BY <2>1, <4>1, <4>2 DEF Makes
    <3>5. QED
      BY <2>3, <3>1, <3>2, <3>3, <3>4 DEF o
  <2>4. QED
    BY <2>2, <2>3 DEF o
<1>3. ASSUME NEW t \in Thread
      PROVE  LET places == {n \in Queues : \E i \in DOMAIN order[n] : order[n][i] = t}
             IN  IF t = current THEN places = {} /\ state[t] = Ready
                 ELSE places = {state[t]} \cap Queues
  <2>1. t # NULL
    BY DEF NullAssumption
  <2>2. \A n \in Queues :
            (\E i \in DOMAIN order[n] : order[n][i] = t) <=> t \in Range(order[n])
    BY DEF Range
  <2>3. QED
    BY <1>1, <2>1, <2>2
<1>4. EveryThreadHasAPlace
  BY <1>3 DEF EveryThreadHasAPlace, CoopInv
<1>5. QED
  BY <1>2, <1>4 DEF ThreadsKeepTheirPlaces

(* However the threads create, yield, block, unblock and finish, the        *)
(* pointers of each queue make the list of its threads in order of arrival, *)
(* every thread is in the one place its state says, and the program reports *)
(* success only when none is left blocked.                                  *)
THEOREM ThreadsAlwaysKeepTheirPlaces ==
    ASSUME NullAssumption
    PROVE  CoopSpec => []ThreadsKeepTheirPlaces
<1>1. CoopInit => CoopInv
  BY InitEstablishesInv
<1>2. CoopInv /\ [CoopNext]_coopVars => CoopInv'
  BY NextKeepsInv
<1>3. CoopInv => ThreadsKeepTheirPlaces
  BY InvGivesPlaces
<1>4. QED
  BY <1>1, <1>2, <1>3, PTL DEF CoopSpec

-----------------------------------------------------------------------------
(******************************************************************************)
(* BranchStats: the triggers keep the materialised rows, for every set of     *)
(* accounts, branches and balances and every sequence of statements.          *)
(******************************************************************************)

(* A finite set of integers that is not empty has a least and a greatest     *)
(* element: take a smallest set without one and remove an element.           *)
LEMMA Extremes ==
    ASSUME NEW S \in SUBSET Int, IsFiniteSet(S), S # {}
    PROVE  /\ \E x \in S : \A y \in S : x <= y
           /\ \E x \in S : \A y \in S : x >= y
<1> DEFINE Has(U) == /\ \E x \in U : \A y \in U : x <= y
                     /\ \E x \in U : \A y \in U : x >= y
           T == {n \in Nat : \E U \in SUBSET Int :
                    IsFiniteSet(U) /\ Cardinality(U) = n /\ U # {} /\ ~Has(U)}
<1>1. ASSUME T # {} PROVE FALSE
  <2>1. PICK n \in T : \A m \in T : n <= m
    BY <1>1, LeastNat
  <2>2. PICK U \in SUBSET Int :
            IsFiniteSet(U) /\ Cardinality(U) = n /\ U # {} /\ ~Has(U)
    BY <2>1
  <2>3. PICK e \in U : TRUE
    BY <2>2
  <2> DEFINE V == U \ {e}
  <2>4. IsFiniteSet(V) /\ Cardinality(V) = n - 1
    BY <2>2, <2>3, FS_RemoveElement
  <2>5. n - 1 \in Nat /\ V \in SUBSET Int
    BY <2>4, FS_CardinalityType
  <2>6. V = {} \/ Has(V)
    BY <2>1, <2>4, <2>5
  <2>7. CASE V = {}
    BY <2>2, <2>3, <2>7
  <2>8. CASE Has(V)
    <3>1. PICK low \in V : \A y \in V : low <= y
      BY <2>8
    <3>2. PICK high \in V : \A y \in V : high >= y
      BY <2>8
    <3>3. low \in Int /\ high \in Int /\ e \in Int
      BY <2>2, <2>3
    <3>4. \E x \in U : \A y \in U : x <= y
      <4>1. CASE low <= e
        BY <4>1, <3>1, <2>3
      <4>2. CASE ~(low <= e)
        BY <4>2, <3>1, <3>3, <2>3
      <4> QED  BY <4>1, <4>2
    <3>5. \E x \in U : \A y \in U : x >= y
      <4>1. CASE high >= e
        BY <4>1, <3>2, <2>3
      <4>2. CASE ~(high >= e)
        BY <4>2, <3>2, <3>3, <2>3
      <4> QED  BY <4>1, <4>2
    <3> QED  BY <3>4, <3>5, <2>2
  <2> QED  BY <2>6, <2>7, <2>8
<1>2. Cardinality(S) \in Nat
  BY FS_CardinalityType
<1> QED  BY <1>1, <1>2

(* Min and Max of a set are what their definitions choose. *)
LEMMA MinMax ==
    ASSUME NEW S \in SUBSET Int, IsFiniteSet(S), S # {}
    PROVE  /\ Min(S) \in S /\ \A y \in S : Min(S) <= y
           /\ Max(S) \in S /\ \A y \in S : Max(S) >= y
BY Extremes DEF Min, Max

(* The extremes of a set with one more element, from those of the set. *)
LEMMA MinMaxAdd ==
    ASSUME NEW S \in SUBSET Int, IsFiniteSet(S), S # {}, NEW x \in Int
    PROVE  /\ Min(S \cup {x}) = Min({Min(S), x})
           /\ Max(S \cup {x}) = Max({Max(S), x})
<1> DEFINE U == S \cup {x}
           L == {Min(S)} \cup {x}
           H == {Max(S)} \cup {x}
<1>1. IsFiniteSet(U) /\ IsFiniteSet(L) /\ IsFiniteSet(H)
  BY FS_AddElement, FS_Singleton
<1>2. /\ Min(S) \in S /\ \A y \in S : Min(S) <= y
      /\ Max(S) \in S /\ \A y \in S : Max(S) >= y
  BY MinMax
<1>3. Min(S) \in Int /\ Max(S) \in Int
  BY <1>2
<1>4. U \subseteq Int /\ L \subseteq Int /\ H \subseteq Int
  BY <1>3
<1>5. /\ Min(U) \in U /\ \A y \in U : Min(U) <= y
      /\ Max(U) \in U /\ \A y \in U : Max(U) >= y
  <2> U # {}  OBVIOUS
  <2> HIDE DEF U
  <2> QED  BY <1>1, <1>4, MinMax
<1>6. Min(L) \in L /\ \A y \in L : Min(L) <= y
  <2> L # {}  OBVIOUS
  <2> HIDE DEF L
  <2> QED  BY <1>1, <1>4, MinMax
<1>7. Max(H) \in H /\ \A y \in H : Max(H) >= y
  <2> H # {}  OBVIOUS
  <2> HIDE DEF H
  <2> QED  BY <1>1, <1>4, MinMax
<1>8. Min(U) = Min(L)
  <2>1. Min(U) \in Int /\ Min(L) \in Int
    BY <1>4, <1>5, <1>6
  <2>2. Min(S) \in L /\ x \in L /\ Min(S) \in U /\ x \in U
    BY <1>2
  <2>3. Min(L) <= Min(U)
    <3>1. CASE Min(U) = x
      BY <3>1, <2>2, <1>6
    <3>2. CASE Min(U) \in S
      BY <3>2, <2>1, <2>2, <1>2, <1>3, <1>6
    <3> QED  BY <3>1, <3>2, <1>5
  <2>4. Min(U) <= Min(L)
    BY <2>2, <1>5, <1>6
  <2> HIDE DEF U, L
  <2> QED  BY <2>1, <2>3, <2>4
<1>9. Max(U) = Max(H)
  <2>1. Max(U) \in Int /\ Max(H) \in Int
    BY <1>4, <1>5, <1>7
  <2>2. Max(S) \in H /\ x \in H /\ Max(S) \in U /\ x \in U
    BY <1>2
  <2>3. Max(H) >= Max(U)
    <3>1. CASE Max(U) = x
      BY <3>1, <2>2, <1>7
    <3>2. CASE Max(U) \in S
      BY <3>2, <2>1, <2>2, <1>2, <1>3, <1>7
    <3> QED  BY <3>1, <3>2, <1>5
  <2>4. Max(U) >= Max(H)
    BY <2>2, <1>5, <1>7
  <2> HIDE DEF U, H
  <2> QED  BY <2>1, <2>3, <2>4
<1>10. L = {Min(S), x} /\ H = {Max(S), x}
  OBVIOUS
<1> QED  BY <1>8, <1>9, <1>10

-----------------------------------------------------------------------------
(* What the triggers keep. *)

Rows == [branch_name : Branch, balance : Balance]

IsAccounts(accounts) ==
    /\ DOMAIN accounts \subseteq Account
    /\ \A m \in DOMAIN accounts : accounts[m] \in Rows

Names(accounts) == {accounts[m].branch_name : m \in DOMAIN accounts}

MinMaxAgree(row, accounts, c) ==
    /\ row.min_balance = Min(Balances(accounts, c))
    /\ row.max_balance = Max(Balances(accounts, c))

(* The table has the rows of the view in all but their averages. *)
Agrees(table, accounts) ==
    /\ DOMAIN table = Names(accounts)
    /\ \A c \in Names(accounts) :
        /\ table[c].total_deposits = Cardinality(At(accounts, c))
        /\ MinMaxAgree(table[c], accounts, c)

(* The table between the statement and delete_bal: it still counts an account *)
(* of branch b that is gone, and the minimum and maximum of b may be old.     *)
Pending(table, accounts, b) ==
    /\ DOMAIN table = Names(accounts) \cup {b}
    /\ \A c \in DOMAIN table :
        /\ table[c].total_deposits =
              Cardinality(At(accounts, c)) + (IF c = b THEN 1 ELSE 0)
        /\ c # b => MinMaxAgree(table[c], accounts, c)

(* The table after add_bal of an amount in branch b. *)
Added(new, table, accounts, b, amount) ==
    /\ DOMAIN new = Names(accounts) \cup {b}
    /\ \A c \in Names(accounts) : c # b => new[c] = table[c]
    /\ new[b].total_deposits = Cardinality(At(accounts, b)) + 1
    /\ new[b].min_balance = Min(Balances(accounts, b) \cup {amount})
    /\ new[b].max_balance = Max(Balances(accounts, b) \cup {amount})

StatsInv == IsAccounts(account) /\ StatsMatchView

(* The accounts "more" are the accounts "fewer" and one more, n. *)
OneMore(more, fewer, n) ==
    /\ IsAccounts(more) /\ IsAccounts(fewer)
    /\ n \notin DOMAIN fewer /\ DOMAIN more = DOMAIN fewer \cup {n}
    /\ \A m \in DOMAIN fewer : more[m] = fewer[m]

(* The accounts of a branch and their balances are finite, and there are     *)
(* some exactly if the branch has a name in the view.                        *)
LEMMA BranchFacts ==
    ASSUME NEW accounts, IsAccounts(accounts), NEW c
    PROVE  /\ IsFiniteSet(At(accounts, c)) /\ IsFiniteSet(Balances(accounts, c))
           /\ Cardinality(At(accounts, c)) \in Nat
           /\ Balances(accounts, c) \subseteq Int
           /\ c \in Names(accounts) <=> Balances(accounts, c) # {}
           /\ c \in Names(accounts) <=> Cardinality(At(accounts, c)) # 0
<1>1. At(accounts, c) \subseteq Account
  BY DEF At, IsAccounts
<1>2. IsFiniteSet(At(accounts, c))
  BY <1>1, StatsAssumption, FS_Subset
<1>3. Cardinality(At(accounts, c)) \in Nat
  BY <1>2, FS_CardinalityType
<1>4. IsFiniteSet(Balances(accounts, c))
  <2> DEFINE f == [m \in At(accounts, c) |-> accounts[m].balance]
  <2>1. f \in Surjection(At(accounts, c), Balances(accounts, c))
    BY DEF Balances, Surjection
  <2> QED  BY <1>2, <2>1, FS_Surjection
<1>5. Balances(accounts, c) \subseteq Int
  BY StatsAssumption DEF Balances, At, IsAccounts, Rows
<1>6. c \in Names(accounts) <=> At(accounts, c) # {}
  BY DEF Names, At
<1>7. At(accounts, c) # {} <=> Balances(accounts, c) # {}
  BY DEF Balances
<1>8. At(accounts, c) # {} <=> Cardinality(At(accounts, c)) # 0
  BY <1>2, FS_EmptySet
<1> QED  BY <1>2, <1>3, <1>4, <1>5, <1>6, <1>7, <1>8

(* One more account changes one branch. *)
LEMMA OneMoreFacts ==
    ASSUME NEW more, NEW fewer, NEW n, OneMore(more, fewer, n)
    PROVE  LET b == more[n].branch_name
               amount == more[n].balance
           IN  /\ Names(more) = Names(fewer) \cup {b}
               /\ amount \in Int
               /\ Balances(more, b) = Balances(fewer, b) \cup {amount}
               /\ Cardinality(At(more, b)) = Cardinality(At(fewer, b)) + 1
               /\ \A c : c # b => /\ Balances(more, c) = Balances(fewer, c)
                                  /\ At(more, c) = At(fewer, c)
<1> DEFINE b == more[n].branch_name
           amount == more[n].balance
<1>1. n \in DOMAIN more /\ n \notin DOMAIN fewer
  BY DEF OneMore
<1>2. Names(more) = Names(fewer) \cup {b}
  BY DEF OneMore, Names
<1>3. amount \in Int
  BY <1>1, StatsAssumption DEF OneMore, IsAccounts, Rows
<1>4. At(more, b) = At(fewer, b) \cup {n} /\ n \notin At(fewer, b)
  BY DEF OneMore, At
<1>5. Balances(more, b) = Balances(fewer, b) \cup {amount}
  <2>1. \A m \in At(fewer, b) : m # n /\ more[m] = fewer[m]
    BY <1>4 DEF OneMore, At
  <2> QED  BY <1>4, <2>1 DEF Balances
<1>6. Cardinality(At(more, b)) = Cardinality(At(fewer, b)) + 1
  <2>1. IsFiniteSet(At(fewer, b))
    BY BranchFacts DEF OneMore
  <2> QED  BY <1>4, <2>1, FS_AddElement
<1>7. ASSUME NEW c, c # b PROVE At(more, c) = At(fewer, c)
  BY <1>7 DEF OneMore, At
<1>8. ASSUME NEW c, c # b PROVE Balances(more, c) = Balances(fewer, c)
  <2>1. \A m \in At(fewer, c) : more[m] = fewer[m]
    BY DEF OneMore, At
  <2> QED  BY <1>7, <1>8, <2>1 DEF Balances
<1> QED  BY <1>2, <1>3, <1>5, <1>6, <1>7, <1>8

-----------------------------------------------------------------------------
(* The triggers. *)

(* add_bal, on a table that agrees with the accounts. *)
LEMMA AddBal ==
    ASSUME NEW table, NEW accounts, IsAccounts(accounts), Agrees(table, accounts),
           NEW b, NEW amount, amount \in Int
    PROVE  Added(add_bal(table, amount, b), table, accounts, b, amount)
<1> DEFINE new == add_bal(table, amount, b)
<1>1. /\ IsFiniteSet(Balances(accounts, b)) /\ Balances(accounts, b) \subseteq Int
      /\ b \in Names(accounts) <=> Balances(accounts, b) # {}
      /\ b \in Names(accounts) <=> Cardinality(At(accounts, b)) # 0
  BY BranchFacts
<1>2. /\ DOMAIN new = Names(accounts) \cup {b}
      /\ \A c \in Names(accounts) : c # b => new[c] = table[c]
  BY DEF add_bal, Agrees, With
<1>3. CASE b \notin Names(accounts)
  <2>1. Balances(accounts, b) \cup {amount} = {amount}
    BY <1>1, <1>3
  <2>2. Min({amount}) = amount /\ Max({amount}) = amount
    <3>1. IsFiniteSet({amount}) /\ {amount} \subseteq Int /\ {amount} # {}
      BY FS_Singleton
    <3>2. Min({amount}) \in {amount} /\ Max({amount}) \in {amount}
      BY <3>1, MinMax
    <3> QED  BY <3>2
  <2>3. new[b] = [total_deposits |-> 1, avg_balance |-> amount,
                  min_balance |-> amount, max_balance |-> amount]
    BY <1>3 DEF add_bal, Agrees, With
  <2>4. Cardinality(At(accounts, b)) = 0
    BY <1>1, <1>3
  <2>5. /\ new[b].total_deposits = 1
        /\ new[b].min_balance = amount /\ new[b].max_balance = amount
    BY <2>3
  <2> QED  BY <2>1, <2>2, <2>4, <2>5, <1>2 DEF Added
<1>4. CASE b \in Names(accounts)
  <2>1. /\ new[b].total_deposits = table[b].total_deposits + 1
        /\ new[b].min_balance = Min({table[b].min_balance, amount})
        /\ new[b].max_balance = Max({table[b].max_balance, amount})
    BY <1>4 DEF add_bal, Agrees, With
  <2>2. /\ Min(Balances(accounts, b) \cup {amount})
              = Min({Min(Balances(accounts, b)), amount})
        /\ Max(Balances(accounts, b) \cup {amount})
              = Max({Max(Balances(accounts, b)), amount})
    BY <1>1, <1>4, MinMaxAdd
  <2> QED  BY <2>1, <2>2, <1>2, <1>4 DEF MinMaxAgree, Agrees, Added
<1> QED  BY <1>3, <1>4 DEF Added

(* delete_bal settles what was pending. *)
LEMMA DeleteBal ==
    ASSUME NEW table, NEW accounts, IsAccounts(accounts), NEW b, NEW amount,
           Pending(table, accounts, b)
    PROVE  Agrees(delete_bal(table, accounts, amount, b), accounts)
<1> DEFINE new == delete_bal(table, accounts, amount, b)
<1>1. /\ Cardinality(At(accounts, b)) \in Nat
      /\ b \in Names(accounts) <=> Cardinality(At(accounts, b)) # 0
  BY BranchFacts
<1>2. b \in DOMAIN table /\ table[b].total_deposits = Cardinality(At(accounts, b)) + 1
  BY DEF Pending
<1>3. CASE b \notin Names(accounts)
  <2>1. new = Restrict(table, DOMAIN table \ {b})
    BY <1>1, <1>2, <1>3 DEF delete_bal
  <2>2. DOMAIN new = Names(accounts) /\ \A c \in Names(accounts) : new[c] = table[c]
    BY <2>1, <1>3 DEF Restrict, Pending
  <2>3. ASSUME NEW c \in Names(accounts)
        PROVE  /\ table[c].total_deposits = Cardinality(At(accounts, c))
               /\ MinMaxAgree(table[c], accounts, c)
    <3>1. Cardinality(At(accounts, c)) \in Nat
      BY BranchFacts
    <3> QED  BY <3>1, <1>3 DEF Pending
  <2> QED  BY <2>2, <2>3 DEF Agrees
<1>4. CASE b \in Names(accounts)
  <2>1. table[b].total_deposits # 1
    BY <1>1, <1>2, <1>4
  <2>2. /\ DOMAIN new = Names(accounts)
        /\ \A c \in Names(accounts) : c # b => new[c] = table[c]
        /\ new[b].total_deposits = table[b].total_deposits - 1
        /\ new[b].min_balance = Min(Balances(accounts, b))
        /\ new[b].max_balance = Max(Balances(accounts, b))
    BY <2>1, <1>2, <1>4 DEF delete_bal, Pending
  <2>3. ASSUME NEW c \in Names(accounts)
        PROVE  /\ new[c].total_deposits = Cardinality(At(accounts, c))
               /\ MinMaxAgree(new[c], accounts, c)
    <3>1. CASE c = b
      BY <3>1, <2>2, <1>1, <1>2 DEF MinMaxAgree
    <3>2. CASE c # b
      <4>1. Cardinality(At(accounts, c)) \in Nat
        BY BranchFacts
      <4> QED  BY <4>1, <3>2, <2>2 DEF Pending
    <3> QED  BY <3>1, <3>2
  <2> QED  BY <2>2, <2>3 DEF Agrees
<1> QED  BY <1>3, <1>4

-----------------------------------------------------------------------------
(* The view is what Agrees says of it. *)
LEMMA ViewAgrees ==
    ASSUME NEW accounts, NEW table
    PROVE  Agrees(table, accounts) <=>
              LET view == Populated(accounts)
              IN  /\ DOMAIN table = DOMAIN view
                  /\ \A b \in DOMAIN view :
                        /\ table[b].total_deposits = view[b].total_deposits
                        /\ table[b].min_balance = view[b].min_balance
                        /\ table[b].max_balance = view[b].max_balance
<1>1. DOMAIN Populated(accounts) = Names(accounts)
  BY DEF Populated, Names
<1>2. ASSUME NEW c \in Names(accounts)
      PROVE  /\ Populated(accounts)[c].total_deposits = Cardinality(At(accounts, c))
             /\ Populated(accounts)[c].min_balance = Min(Balances(accounts, c))
             /\ Populated(accounts)[c].max_balance = Max(Balances(accounts, c))
  BY <1>2 DEF Populated, Names
<1> QED  BY <1>1, <1>2 DEF Agrees, MinMaxAgree

(* INSERT: the new account is one more. *)
LEMMA InsertKeepsInv ==
    ASSUME StatsInv, NEW n \in Account, NEW b \in Branch, NEW amount \in Balance,
           Insert(n, b, amount)
    PROVE  StatsInv'
<1>1. IsAccounts(account) /\ Agrees(mv, account)
  BY ViewAgrees DEF StatsInv, StatsMatchView
<1>2. /\ account' = With(account, n, [branch_name |-> b, balance |-> amount])
      /\ n \notin DOMAIN account
      /\ mv' = add_bal(mv, amount, b)
  BY DEF Insert
<1>3. /\ account'[n].branch_name = b /\ account'[n].balance = amount
      /\ DOMAIN account' = DOMAIN account \cup {n}
      /\ account'[n] \in Rows
      /\ \A m \in DOMAIN account : account'[m] = account[m]
  BY <1>2 DEF With, Rows
<1>4. IsAccounts(account')
  BY <1>1, <1>3 DEF IsAccounts
<1>5. OneMore(account', account, n)
  BY <1>1, <1>2, <1>3, <1>4 DEF OneMore
<1>6. Agrees(mv', account')
  <2>1. /\ Names(account') = Names(account) \cup {b}
        /\ amount \in Int
        /\ Balances(account', b) = Balances(account, b) \cup {amount}
        /\ Cardinality(At(account', b)) = Cardinality(At(account, b)) + 1
        /\ \A c : c # b => /\ Balances(account', c) = Balances(account, c)
                           /\ At(account', c) = At(account, c)
    BY <1>3, <1>5, OneMoreFacts
  <2>2. /\ DOMAIN mv' = Names(account) \cup {b}
        /\ \A c \in Names(account) : c # b => mv'[c] = mv[c]
        /\ mv'[b].total_deposits = Cardinality(At(account, b)) + 1
        /\ mv'[b].min_balance = Min(Balances(account, b) \cup {amount})
        /\ mv'[b].max_balance = Max(Balances(account, b) \cup {amount})
    <3>1. Added(mv', mv, account, b, amount)
      BY <1>1, <1>2, <2>1, AddBal
    <3> QED  BY <3>1 DEF Added
  <2>3. ASSUME NEW c \in Names(account')
        PROVE  /\ mv'[c].total_deposits = Cardinality(At(account', c))
               /\ MinMaxAgree(mv'[c], account', c)
    <3>1. CASE c = b
      BY <3>1, <2>1, <2>2 DEF MinMaxAgree
    <3>2. CASE c # b
      BY <3>2, <2>1, <2>2, <1>1 DEF Agrees, MinMaxAgree
    <3> QED  BY <3>1, <3>2
  <2> QED  BY <2>1, <2>2, <2>3 DEF Agrees
<1>7. StatsMatchView'
  BY <1>6, ViewAgrees DEF StatsMatchView
<1> QED  BY <1>4, <1>7 DEF StatsInv

(* DELETE: the old accounts are one more than the new. *)
LEMMA DeleteKeepsInv ==
    ASSUME StatsInv, NEW n \in Account, Delete(n)
    PROVE  StatsInv'
<1> DEFINE b == account[n].branch_name
<1>1. IsAccounts(account) /\ Agrees(mv, account)
  BY ViewAgrees DEF StatsInv, StatsMatchView
<1>2. /\ n \in DOMAIN account
      /\ account' = Restrict(account, DOMAIN account \ {n})
      /\ mv' = delete_bal(mv, account', account[n].balance, b)
  BY DEF Delete
<1>3. /\ DOMAIN account' = DOMAIN account \ {n}
      /\ \A m \in DOMAIN account' : account'[m] = account[m]
  BY <1>2 DEF Restrict
<1>4. IsAccounts(account')
  BY <1>1, <1>3 DEF IsAccounts
<1>5. OneMore(account, account', n)
  BY <1>1, <1>2, <1>3, <1>4 DEF OneMore
<1>6. Pending(mv, account', b)
  <2>1. /\ Names(account) = Names(account') \cup {b}
        /\ Cardinality(At(account, b)) = Cardinality(At(account', b)) + 1
        /\ \A c : c # b => /\ Balances(account, c) = Balances(account', c)
                           /\ At(account, c) = At(account', c)
    BY <1>5, OneMoreFacts
  <2>2. \A c : Cardinality(At(account', c)) \in Nat
    BY <1>4, BranchFacts
  <2>3. ASSUME NEW c \in DOMAIN mv
        PROVE  /\ mv[c].total_deposits =
                     Cardinality(At(account', c)) + (IF c = b THEN 1 ELSE 0)
               /\ c # b => MinMaxAgree(mv[c], account', c)
    BY <2>1, <2>2, <1>1 DEF Agrees, MinMaxAgree
  <2> QED  BY <2>1, <2>3, <1>1 DEF Pending, Agrees
<1>7. Agrees(mv', account')
  BY <1>2, <1>4, <1>6, DeleteBal
<1>8. StatsMatchView'
  BY <1>7, ViewAgrees DEF StatsMatchView
<1> QED  BY <1>4, <1>8 DEF StatsInv

(* UPDATE: the old accounts and the new are one more than those in common. *)
LEMMA UpdateKeepsInv ==
    ASSUME StatsInv, NEW n \in Account, NEW b \in Branch, NEW amount \in Balance,
           Update(n, b, amount)
    PROVE  StatsInv'
<1> DEFINE ob == account[n].branch_name
           rest == Restrict(account, DOMAIN account \ {n})
           table == add_bal(mv, amount, b)
<1>1. IsAccounts(account) /\ Agrees(mv, account)
  BY ViewAgrees DEF StatsInv, StatsMatchView
<1>2. /\ n \in DOMAIN account
      /\ account' = [account EXCEPT ![n] = [branch_name |-> b, balance |-> amount]]
      /\ mv' = delete_bal(table, account', account[n].balance, ob)
  BY DEF Update
<1>3. /\ account'[n].branch_name = b /\ account'[n].balance = amount
      /\ DOMAIN account' = DOMAIN account
      /\ account'[n] \in Rows
      /\ \A m \in DOMAIN account : m # n => account'[m] = account[m]
  BY <1>2 DEF Rows
<1>4. IsAccounts(account')
  BY <1>1, <1>3 DEF IsAccounts
<1>5. /\ DOMAIN rest = DOMAIN account \ {n}
      /\ \A m \in DOMAIN rest : rest[m] = account[m]
  BY DEF Restrict
<1>6. IsAccounts(rest)
  BY <1>1, <1>5 DEF IsAccounts
<1>7. OneMore(account, rest, n) /\ OneMore(account', rest, n)
  <2> HIDE DEF rest
  <2> QED  BY <1>1, <1>2, <1>3, <1>4, <1>5, <1>6 DEF OneMore
<1>8. Pending(table, account', ob)
  <2> HIDE DEF rest
  <2>1. /\ Names(account) = Names(rest) \cup {ob}
        /\ Cardinality(At(account, ob)) = Cardinality(At(rest, ob)) + 1
        /\ \A c : c # ob => /\ Balances(account, c) = Balances(rest, c)
                            /\ At(account, c) = At(rest, c)
    BY <1>7, OneMoreFacts
  <2>2. /\ Names(account') = Names(rest) \cup {b}
        /\ amount \in Int
        /\ Balances(account', b) = Balances(rest, b) \cup {amount}
        /\ Cardinality(At(account', b)) = Cardinality(At(rest, b)) + 1
        /\ \A c : c # b => /\ Balances(account', c) = Balances(rest, c)
                           /\ At(account', c) = At(rest, c)
    BY <1>3, <1>7, OneMoreFacts
  <2>3. \A c : /\ Cardinality(At(account', c)) \in Nat
               /\ Cardinality(At(rest, c)) \in Nat
    BY <1>4, <1>6, BranchFacts
  <2>4. /\ DOMAIN table = Names(account) \cup {b}
        /\ \A c \in Names(account) : c # b => table[c] = mv[c]
        /\ table[b].total_deposits = Cardinality(At(account, b)) + 1
        /\ table[b].min_balance = Min(Balances(account, b) \cup {amount})
        /\ table[b].max_balance = Max(Balances(account, b) \cup {amount})
    <3>1. Added(table, mv, account, b, amount)
      BY <1>1, <2>2, AddBal
    <3> QED  BY <3>1 DEF Added
  <2> HIDE DEF table
  <2>5. DOMAIN table = Names(account') \cup {ob}
    BY <2>1, <2>2, <2>4
  <2>6. ASSUME NEW c \in DOMAIN table
        PROVE  table[c].total_deposits =
                  Cardinality(At(account', c)) + (IF c = ob THEN 1 ELSE 0)
    <3>1. CASE c = b
      BY <3>1, <2>1, <2>2, <2>3, <2>4
    <3>2. CASE c # b
      BY <3>2, <2>1, <2>2, <2>3, <2>4, <1>1 DEF Agrees
    <3> QED  BY <3>1, <3>2
  <2>7. ASSUME NEW c \in DOMAIN table, c # ob
        PROVE  MinMaxAgree(table[c], account', c)
    <3>1. CASE c = b
      BY <3>1, <2>7, <2>1, <2>2, <2>4 DEF MinMaxAgree
    <3>2. CASE c # b
      BY <3>2, <2>7, <2>1, <2>2, <2>4, <1>1 DEF Agrees, MinMaxAgree
    <3> QED  BY <3>1, <3>2
  <2> QED  BY <2>5, <2>6, <2>7 DEF Pending
<1>9. Agrees(mv', account')
  BY <1>2, <1>4, <1>8, DeleteBal
<1>10. StatsMatchView'
  BY <1>9, ViewAgrees DEF StatsMatchView
<1> QED  BY <1>4, <1>10 DEF StatsInv

(* The table starts as a copy of the view. *)
LEMMA StatsInitInv == StatsInit => StatsInv
<1> SUFFICES ASSUME StatsInit PROVE StatsInv
  OBVIOUS
<1>1. IsAccounts(account)
  BY DEF StatsInit, IsAccounts, Rows
<1>2. StatsMatchView
  BY DEF StatsInit, StatsMatchView
<1> QED  BY <1>1, <1>2 DEF StatsInv

(* Every statement, with the triggers it fires, keeps the table right. *)
LEMMA StatsNextInv == StatsInv /\ [StatsNext]_statsVars => StatsInv'
<1> SUFFICES ASSUME StatsInv, [StatsNext]_statsVars PROVE StatsInv'
  OBVIOUS
<1>1. ASSUME NEW n \in Account, NEW b \in Branch, NEW amount \in Balance,
             Insert(n, b, amount)
      PROVE  StatsInv'
  BY <1>1, InsertKeepsInv
<1>2. ASSUME NEW n \in Account, NEW b \in Branch, NEW amount \in Balance,
             Update(n, b, amount)
      PROVE  StatsInv'
  BY <1>2, UpdateKeepsInv
<1>3. ASSUME NEW n \in Account, Delete(n) PROVE StatsInv'
  BY <1>3, DeleteKeepsInv
<1>4. CASE UNCHANGED statsVars
  <2>1. account' = account /\ mv' = mv
    BY <1>4 DEF statsVars
  <2> QED  BY <2>1 DEF StatsInv, StatsMatchView
<1> QED  BY <1>1, <1>2, <1>3, <1>4 DEF StatsNext

(* The materialised table has a row for exactly the branches of the view,    *)
(* with its count, minimum and maximum, after any statements on account:     *)
(* the triggers of make-branch-stats.sql, whatever the accounts.             *)
THEOREM StatisticsMatch == StatsSpec => []StatsMatchView
<1>1. StatsInv => StatsMatchView
  BY DEF StatsInv
<1> QED  BY StatsInitInv, StatsNextInv, <1>1, PTL DEF StatsSpec
================================================================================
