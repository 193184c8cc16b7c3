--------------------------- MODULE DispatchProofs ---------------------------
(***************************************************************************)
(* Proofs about Dispatch and LocalPool, for any number of threads, calls,  *)
(* workers and retries.  The stacks of the threads are the hard part: what *)
(* is needed of them is stated of a sequence of frames on its own          *)
(* (Stacked), and every action builds its stack from an earlier one by     *)
(* dropping the last frame and appending one or two.                       *)
(***************************************************************************)
EXTENDS Dispatch, FiniteSetTheorems, SequenceTheorems, TLAPS

(***************************************************************************)
(* Sequences.                                                              *)
(***************************************************************************)
\* What Append does, index by index.
LEMMA AppendFacts ==
    ASSUME NEW S, NEW s \in Seq(S), NEW x \in S
    PROVE  /\ Append(s, x) \in Seq(S)
           /\ Len(Append(s, x)) = Len(s) + 1
           /\ \A i \in 1..Len(s) : Append(s, x)[i] = s[i]
           /\ Append(s, x)[Len(s) + 1] = x
OBVIOUS

\* Two frames at the end are appended one by one.
LEMMA ConcatTwo ==
    ASSUME NEW S, NEW s \in Seq(S), NEW x \in S, NEW y \in S
    PROVE  s \o <<x, y>> = Append(Append(s, x), y)
OBVIOUS

\* What is left without the last frame.
LEMMA FrontFacts ==
    ASSUME NEW S, NEW s \in Seq(S), s # <<>>
    PROVE  /\ Len(s) \in Nat /\ Len(s) >= 1
           /\ Front(s) \in Seq(S)
           /\ Len(Front(s)) = Len(s) - 1
           /\ \A i \in 1..Len(s) - 1 : Front(s)[i] = s[i]
           /\ Last(s) = s[Len(s)] /\ Last(s) \in S
<1>1. Len(s) \in Nat /\ Len(s) >= 1
  BY EmptySeq, LenProperties
<1>2. \A i \in 1..Len(s) - 1 : s[i] \in S
  BY <1>1, ElementOfSeq
<1>3. /\ SubSeq(s, 1, Len(s) - 1) \in Seq(S)
      /\ Len(SubSeq(s, 1, Len(s) - 1)) =
           IF 1 <= Len(s) - 1 THEN (Len(s) - 1) - 1 + 1 ELSE 0
      /\ \A i \in 1..(Len(s) - 1) - 1 + 1 : SubSeq(s, 1, Len(s) - 1)[i] = s[1 + i - 1]
  <2>1. 1 \in Int /\ Len(s) - 1 \in Int
    BY <1>1
  <2> QED
    BY <1>2, <2>1, SubSeqProperties
<1>4. Last(s) = s[Len(s)] /\ Last(s) \in S
  BY <1>1, ElementOfSeq DEF Last
<1>5. /\ Len(SubSeq(s, 1, Len(s) - 1)) = Len(s) - 1
      /\ \A i \in 1..Len(s) - 1 : SubSeq(s, 1, Len(s) - 1)[i] = s[i]
  <2> DEFINE r == SubSeq(s, 1, Len(s) - 1)
             n == Len(s)
  <2>1. /\ n \in Nat /\ n >= 1
        /\ Len(r) = IF 1 <= n - 1 THEN (n - 1) - 1 + 1 ELSE 0
        /\ \A i \in 1..(n - 1) - 1 + 1 : r[i] = s[1 + i - 1]
    BY <1>1, <1>3
  <2> HIDE DEF r, n
  <2>2. Len(r) = n - 1 /\ (n - 1) - 1 + 1 = n - 1
    BY <2>1
  <2>3. ASSUME NEW i \in 1..n - 1 PROVE r[i] = s[i]
    <3>1. i \in 1..(n - 1) - 1 + 1 /\ 1 + i - 1 = i
      BY <2>1, <2>3
    <3> QED
      BY <2>1, <3>1
  <2> QED
    BY <2>2, <2>3 DEF r, n
<1> QED
  BY <1>1, <1>3, <1>4, <1>5 DEF Front

\* What Head and Tail are, index by index.
LEMMA TailFacts ==
    ASSUME NEW S, NEW s \in Seq(S), s # <<>>
    PROVE  /\ Len(s) \in Nat /\ Len(s) >= 1
           /\ Tail(s) \in Seq(S)
           /\ Len(Tail(s)) = Len(s) - 1
           /\ \A i \in 1..Len(s) - 1 : Tail(s)[i] = s[i + 1]
           /\ Head(s) = s[1] /\ Head(s) \in S
OBVIOUS

(***************************************************************************)
(* Stacks.                                                                 *)
(***************************************************************************)
Frames == HookFrames \cup TaskFrames

\* the messages a frame is about: still to do, or the one being executed
Messages(f) == IF f.kind = "hooks" THEN {f.todo[i] : i \in 1..Len(f.todo)} ELSE {f.msg}

\* Runs of hooks and tasks alternate, and only the innermost task is in its code: one
\* with a frame inside it has left the code, for its hooks or for its retry.
Alternates(s) ==
    /\ s # <<>> => s[1].kind = "hooks"
    /\ \A i \in 1..Len(s) - 1 :
         /\ (s[i].kind = "hooks") # (s[i + 1].kind = "hooks")
         /\ s[i].kind # "body"

\* A message inside a task of the same call is a later retry of it.
Climbs(s) ==
    \A j \in 1..Len(s) : \A i \in 1..j - 1 : \A m \in Messages(s[j]) :
        s[i].kind # "hooks" /\ s[i].msg.call = m.call => s[i].msg.n < m.n

\* Every message on the stack is of a call in cs.
Within(s, cs) == \A i \in 1..Len(s) : \A m \in Messages(s[i]) : m.call \in cs

Stacked(s, cs) == s \in Seq(Frames) /\ Alternates(s) /\ Climbs(s) /\ Within(s, cs)

\* A frame is a run of hooks or a task, and its messages are messages.
LEMMA FrameFacts ==
    ASSUME NEW f \in Frames
    PROVE  /\ f.kind \in {"hooks", "body", "commit", "retry"}
           /\ f.kind = "hooks" => f \in HookFrames /\ f.todo \in Seq(Message)
           /\ f.kind # "hooks" => f \in TaskFrames /\ f.msg \in Message /\ Messages(f) = {f.msg}
BY DEF Frames, HookFrames, TaskFrames, Messages

\* The empty stack.
LEMMA StackedEmpty == ASSUME NEW cs PROVE Stacked(<<>>, cs)
BY DEF Stacked, Alternates, Climbs, Within

\* A frame that leaves the stack leaves the rest in order.
LEMMA StackedFront ==
    ASSUME NEW cs, NEW s, Stacked(s, cs), s # <<>>
    PROVE  Stacked(Front(s), cs)
<1>1. s \in Seq(Frames)
  BY DEF Stacked
<1>2. /\ Len(s) \in Nat /\ Len(s) >= 1
      /\ Front(s) \in Seq(Frames)
      /\ Len(Front(s)) = Len(s) - 1
      /\ \A i \in 1..Len(s) - 1 : Front(s)[i] = s[i]
  BY <1>1, FrontFacts
<1> DEFINE r == Front(s)
           n == Len(s)
<1>3. /\ n \in Nat /\ n >= 1 /\ Len(r) = n - 1
      /\ \A i \in 1..n - 1 : r[i] = s[i]
  BY <1>2
<1>4. /\ s[1].kind = "hooks"
      /\ \A i \in 1..n - 1 : (s[i].kind = "hooks") # (s[i + 1].kind = "hooks") /\ s[i].kind # "body"
      /\ \A j \in 1..n : \A i \in 1..j - 1 : \A m \in Messages(s[j]) :
            s[i].kind # "hooks" /\ s[i].msg.call = m.call => s[i].msg.n < m.n
      /\ \A i \in 1..n : \A m \in Messages(s[i]) : m.call \in cs
  BY DEF Stacked, Alternates, Climbs, Within
<1> HIDE DEF r, n
<1>5. r # <<>> => r[1].kind = "hooks"
  <2>1. r # <<>> => 1 \in 1..n - 1
    BY <1>2, <1>3, EmptySeq, LenProperties DEF r
  <2> QED
    BY <2>1, <1>3, <1>4
<1>6. ASSUME NEW i \in 1..Len(r) - 1
      PROVE  (r[i].kind = "hooks") # (r[i + 1].kind = "hooks") /\ r[i].kind # "body"
  <2>1. i \in 1..n - 1 /\ i + 1 \in 1..n - 1
    BY <1>3, <1>6
  <2> QED
    BY <2>1, <1>3, <1>4
<1>7. ASSUME NEW j \in 1..Len(r), NEW i \in 1..j - 1, NEW m \in Messages(r[j])
      PROVE  r[i].kind # "hooks" /\ r[i].msg.call = m.call => r[i].msg.n < m.n
  <2>1. j \in 1..n - 1 /\ j \in 1..n /\ i \in 1..n - 1
    BY <1>3, <1>7
  <2> QED
    BY <2>1, <1>3, <1>4
<1>8. ASSUME NEW i \in 1..Len(r), NEW m \in Messages(r[i]) PROVE m.call \in cs
  <2>1. i \in 1..n - 1 /\ i \in 1..n
    BY <1>3
  <2> QED
    BY <2>1, <1>3, <1>4
<1> QED
  BY <1>2, <1>5, <1>6, <1>7, <1>8 DEF r, Stacked, Alternates, Climbs, Within

\* A frame that joins the stack in the right place: hooks on a task that has left its
\* code or on nothing, a task on hooks, about settled calls and later retries.
LEMMA StackedAppend ==
    ASSUME NEW cs, NEW s, Stacked(s, cs), NEW f \in Frames,
           s = <<>> => f.kind = "hooks",
           s # <<>> => (Last(s).kind = "hooks") # (f.kind = "hooks") /\ Last(s).kind # "body",
           \A i \in 1..Len(s) : \A m \in Messages(f) :
             s[i].kind # "hooks" /\ s[i].msg.call = m.call => s[i].msg.n < m.n,
           \A m \in Messages(f) : m.call \in cs
    PROVE  Stacked(Append(s, f), cs)
<1>1. s \in Seq(Frames)
  BY DEF Stacked
<1> DEFINE r == Append(s, f)
           n == Len(s)
<1>2. /\ r \in Seq(Frames) /\ n \in Nat /\ Len(r) = n + 1
      /\ \A i \in 1..n : r[i] = s[i]
      /\ r[n + 1] = f
  BY <1>1, AppendFacts, LenProperties
<1>3. /\ s # <<>> => s[1].kind = "hooks"
      /\ \A i \in 1..n - 1 : (s[i].kind = "hooks") # (s[i + 1].kind = "hooks") /\ s[i].kind # "body"
      /\ \A j \in 1..n : \A i \in 1..j - 1 : \A m \in Messages(s[j]) :
            s[i].kind # "hooks" /\ s[i].msg.call = m.call => s[i].msg.n < m.n
      /\ \A i \in 1..n : \A m \in Messages(s[i]) : m.call \in cs
  BY DEF Stacked, Alternates, Climbs, Within
<1>4. /\ s = <<>> => n = 0
      /\ s # <<>> => n >= 1 /\ Last(s) = s[n]
  BY <1>1, <1>2, EmptySeq, LenProperties DEF Last
<1>5. \A i \in 1..n : \A m \in Messages(f) :
             s[i].kind # "hooks" /\ s[i].msg.call = m.call => s[i].msg.n < m.n
  OBVIOUS
<1> HIDE DEF r, n
<1>6. r[1].kind = "hooks"
  <2>1. CASE s = <<>>
    BY <1>2, <1>4, <2>1
  <2>2. CASE s # <<>>
    <3>1. 1 \in 1..n
      BY <1>2, <1>4, <2>2
    <3> QED
      BY <1>2, <1>3, <2>2, <3>1
  <2> QED
    BY <2>1, <2>2
<1>7. ASSUME NEW i \in 1..Len(r) - 1
      PROVE  (r[i].kind = "hooks") # (r[i + 1].kind = "hooks") /\ r[i].kind # "body"
  <2>1. i \in 1..n
    BY <1>2, <1>7
  <2>2. CASE i = n
    BY <1>2, <1>4, <2>1, <2>2
  <2>3. CASE i # n
    <3>1. i \in 1..n - 1 /\ i + 1 \in 1..n
      BY <1>2, <2>1, <2>3
    <3> QED
      BY <1>2, <1>3, <2>1, <3>1
  <2> QED
    BY <2>2, <2>3
<1>8. ASSUME NEW j \in 1..Len(r), NEW i \in 1..j - 1, NEW m \in Messages(r[j])
      PROVE  r[i].kind # "hooks" /\ r[i].msg.call = m.call => r[i].msg.n < m.n
  <2>1. i \in 1..n
    BY <1>2, <1>8
  <2>2. CASE j = n + 1
    BY <1>2, <1>5, <1>8, <2>1, <2>2
  <2>3. CASE j # n + 1
    <3>1. j \in 1..n
      BY <1>2, <2>3
    <3> QED
      BY <1>2, <1>3, <1>8, <2>1, <3>1
  <2> QED
    BY <2>2, <2>3
<1>9. ASSUME NEW i \in 1..Len(r), NEW m \in Messages(r[i]) PROVE m.call \in cs
  <2>1. i = n + 1 \/ i \in 1..n
    BY <1>2
  <2> QED
    BY <2>1, <1>2, <1>3, <1>9
<1> QED
  BY <1>2, <1>6, <1>7, <1>8, <1>9 DEF r, Stacked, Alternates, Climbs, Within

\* The last frame moves on, with no message it did not have.
LEMMA StackedReplace ==
    ASSUME NEW cs, NEW s, Stacked(s, cs), s # <<>>, NEW f \in Frames,
           (f.kind = "hooks") = (Last(s).kind = "hooks"),
           Messages(f) \subseteq Messages(Last(s))
    PROVE  Stacked(Append(Front(s), f), cs)
<1> DEFINE r == Front(s)
           n == Len(s)
<1>1. s \in Seq(Frames)
  BY DEF Stacked
<1>2. /\ n \in Nat /\ n >= 1 /\ r \in Seq(Frames) /\ Len(r) = n - 1
      /\ \A i \in 1..n - 1 : r[i] = s[i]
      /\ Last(s) = s[n] /\ Last(s) \in Frames
  BY <1>1, FrontFacts
<1>3. /\ s[1].kind = "hooks"
      /\ \A i \in 1..n - 1 : (s[i].kind = "hooks") # (s[i + 1].kind = "hooks") /\ s[i].kind # "body"
      /\ \A i \in 1..n - 1 : \A m \in Messages(s[n]) :
            s[i].kind # "hooks" /\ s[i].msg.call = m.call => s[i].msg.n < m.n
      /\ \A m \in Messages(s[n]) : m.call \in cs
  <2>1. n \in 1..n
    BY <1>2
  <2> QED
    BY <2>1 DEF Stacked, Alternates, Climbs, Within
<1>4. Stacked(r, cs)
  BY StackedFront
<1>5. /\ r = <<>> => n = 1
      /\ r # <<>> => n - 1 \in 1..n - 1 /\ Last(r) = r[n - 1]
  <2>1. r = <<>> <=> Len(r) = 0
    BY <1>2, EmptySeq, LenProperties
  <2> QED
    BY <2>1, <1>2 DEF Last
<1> HIDE DEF r, n
<1>6. r = <<>> => f.kind = "hooks"
  BY <1>2, <1>3, <1>5
<1>7. r # <<>> => (Last(r).kind = "hooks") # (f.kind = "hooks") /\ Last(r).kind # "body"
  <2> SUFFICES ASSUME r # <<>>
               PROVE  (Last(r).kind = "hooks") # (f.kind = "hooks") /\ Last(r).kind # "body"
    OBVIOUS
  <2>1. Last(r) = s[n - 1] /\ (n - 1) + 1 = n
    BY <1>2, <1>5
  <2>2. (s[n - 1].kind = "hooks") # (s[n].kind = "hooks") /\ s[n - 1].kind # "body"
    BY <1>3, <1>5, <2>1
  <2> QED
    BY <1>2, <2>1, <2>2
<1>8. \A i \in 1..Len(r) : \A m \in Messages(f) :
             r[i].kind # "hooks" /\ r[i].msg.call = m.call => r[i].msg.n < m.n
  BY <1>2, <1>3
<1>9. \A m \in Messages(f) : m.call \in cs
  BY <1>2, <1>3
<1>10. Stacked(Append(r, f), cs)
  BY <1>4, <1>6, <1>7, <1>8, <1>9, StackedAppend
<1> QED
  BY <1>10 DEF r

\* More calls are settled.
LEMMA StackedMore ==
    ASSUME NEW cs, NEW ds, cs \subseteq ds, NEW s, Stacked(s, cs)
    PROVE  Stacked(s, ds)
BY DEF Stacked, Within

\* Advance: the run of hooks has one message fewer.
LEMMA AdvanceFacts ==
    ASSUME NEW cs, NEW s, Stacked(s, cs), s # <<>>, Last(s).kind = "hooks", Last(s).todo # <<>>,
           NEW r, r = Append(Front(s), HookFrame(Tail(Last(s).todo)))
    PROVE  /\ Stacked(r, cs)
           /\ Len(r) = Len(s) /\ r # <<>>
           /\ Last(r) = HookFrame(Tail(Last(s).todo))
           /\ \A i \in 1..Len(s) - 1 : r[i] = s[i]
           /\ Head(Last(s).todo) \in Message /\ Head(Last(s).todo).call \in cs
           /\ Tail(Last(s).todo) \in Seq(Message)
           /\ \A i \in 1..Len(s) : \A m \in {Head(Last(s).todo)} :
                s[i].kind # "hooks" /\ s[i].msg.call = m.call => s[i].msg.n < m.n
<1> DEFINE q == Last(s).todo
           f == HookFrame(Tail(q))
           n == Len(s)
<1>1. s \in Seq(Frames)
  BY DEF Stacked
<1>2. /\ n \in Nat /\ n >= 1 /\ Front(s) \in Seq(Frames) /\ Len(Front(s)) = n - 1
      /\ \A i \in 1..n - 1 : Front(s)[i] = s[i]
      /\ Last(s) = s[n] /\ Last(s) \in Frames
  BY <1>1, FrontFacts
<1>3. q \in Seq(Message) /\ q # <<>>
  BY <1>2, FrameFacts
<1>4. /\ Len(q) \in Nat /\ Len(q) >= 1 /\ Tail(q) \in Seq(Message) /\ Len(Tail(q)) = Len(q) - 1
      /\ \A i \in 1..Len(q) - 1 : Tail(q)[i] = q[i + 1]
      /\ Head(q) = q[1] /\ Head(q) \in Message
  BY <1>3, TailFacts
<1>5. f \in Frames /\ f.kind = "hooks" /\ f.todo = Tail(q)
  BY <1>4 DEF HookFrame, HookFrames, Frames
<1>6. /\ Messages(Last(s)) = {q[i] : i \in 1..Len(q)}
      /\ Messages(f) = {Tail(q)[i] : i \in 1..Len(Tail(q))}
  BY <1>5 DEF Messages
<1> HIDE DEF f, q
<1>7. Head(q) \in Messages(Last(s))
  BY <1>4, <1>6
<1>8. Messages(f) \subseteq Messages(Last(s))
  <2> SUFFICES ASSUME NEW i \in 1..Len(q) - 1 PROVE Tail(q)[i] \in {q[k] : k \in 1..Len(q)}
    BY <1>4, <1>6
  <2>1. i + 1 \in 1..Len(q)
    BY <1>4
  <2> QED
    BY <1>4, <2>1
<1>9. r = Append(Front(s), f)
  BY DEF f, q
<1>10. Stacked(r, cs)
  BY <1>5, <1>8, <1>9, StackedReplace
<1>11. /\ Len(r) = n /\ r[n] = f
       /\ \A i \in 1..n - 1 : r[i] = s[i]
  <2>1. /\ Len(Append(Front(s), f)) = Len(Front(s)) + 1
        /\ \A i \in 1..Len(Front(s)) : Append(Front(s), f)[i] = Front(s)[i]
        /\ Append(Front(s), f)[Len(Front(s)) + 1] = f
    BY <1>2, <1>5, AppendFacts
  <2>2. Len(Front(s)) + 1 = n
    BY <1>2
  <2> QED
    BY <1>2, <1>9, <2>1, <2>2
<1>12. r # <<>> /\ Last(r) = f
  <2>1. r \in Seq(Frames)
    BY <1>10 DEF Stacked
  <2> QED
    BY <1>2, <1>11, <2>1, EmptySeq DEF Last
<1>13. n \in 1..n
  BY <1>2
<1>14. Head(q).call \in cs
  BY <1>2, <1>7, <1>13 DEF Stacked, Within
<1>15. \A i \in 1..n : s[i].kind # "hooks" /\ s[i].msg.call = Head(q).call => s[i].msg.n < Head(q).n
  <2> SUFFICES ASSUME NEW i \in 1..n, s[i].kind # "hooks" PROVE i \in 1..n - 1
    BY <1>2, <1>7, <1>13 DEF Stacked, Climbs
  <2>1. i # n
    BY <1>2
  <2> QED
    BY <1>2, <2>1
<1> QED
  BY <1>4, <1>10, <1>11, <1>12, <1>14, <1>15 DEF f, q

\* DeliverEagerly: the first message becomes a task inside the run of hooks.
LEMMA EagerFacts ==
    ASSUME NEW cs, NEW s, Stacked(s, cs), s # <<>>, Last(s).kind = "hooks", Last(s).todo # <<>>,
           NEW r, r = Front(s) \o <<HookFrame(Tail(Last(s).todo)),
                                    [kind |-> "body", msg |-> Head(Last(s).todo)]>>
    PROVE  /\ Stacked(r, cs)
           /\ Len(r) = Len(s) + 1 /\ r # <<>>
           /\ Last(r) = [kind |-> "body", msg |-> Head(Last(s).todo)]
<1> DEFINE h == HookFrame(Tail(Last(s).todo))
           b == [kind |-> "body", msg |-> Head(Last(s).todo)]
           p == Append(Front(s), h)
<1>1. /\ Stacked(p, cs) /\ Len(p) = Len(s) /\ p # <<>> /\ Last(p) = h
      /\ \A i \in 1..Len(s) - 1 : p[i] = s[i]
      /\ Head(Last(s).todo) \in Message /\ Head(Last(s).todo).call \in cs
      /\ Tail(Last(s).todo) \in Seq(Message)
      /\ \A i \in 1..Len(s) : \A m \in {Head(Last(s).todo)} :
           s[i].kind # "hooks" /\ s[i].msg.call = m.call => s[i].msg.n < m.n
  <2>1. p = Append(Front(s), HookFrame(Tail(Last(s).todo))) /\ h = HookFrame(Tail(Last(s).todo))
    OBVIOUS
  <2> HIDE DEF p, h, b
  <2> QED
    BY <2>1, AdvanceFacts, ZenonT(90)
<1>2. /\ b \in Frames /\ b.kind = "body" /\ b.msg = Head(Last(s).todo)
      /\ h \in Frames /\ h.kind = "hooks"
  BY <1>1 DEF Frames, TaskFrames, HookFrames, HookFrame
<1>3. Messages(b) = {Head(Last(s).todo)}
  BY <1>2 DEF Messages
<1>4. s \in Seq(Frames) /\ p \in Seq(Frames)
  BY <1>1 DEF Stacked
<1>5. Len(s) \in Nat /\ Front(s) \in Seq(Frames) /\ p[Len(s)] = h
  BY <1>1, <1>4, FrontFacts DEF Last
<1>6. r = Append(p, b)
  BY <1>2, <1>5, ConcatTwo
<1> HIDE DEF p, h, b
<1>7. \A i \in 1..Len(p) : \A m \in Messages(b) :
          p[i].kind # "hooks" /\ p[i].msg.call = m.call => p[i].msg.n < m.n
  <2> SUFFICES ASSUME NEW i \in 1..Len(s), NEW m \in Messages(b), p[i].kind # "hooks",
                      p[i].msg.call = m.call
               PROVE  p[i].msg.n < m.n
    BY <1>1
  <2>1. i \in 1..Len(s) - 1
    BY <1>2, <1>5
  <2>2. p[i] = s[i]
    BY <1>1, <2>1
  <2> QED
    BY <1>1, <1>3, <2>2
<1>8. \A m \in Messages(b) : m.call \in cs
  BY <1>1, <1>3
<1>9. Stacked(r, cs)
  BY <1>1, <1>2, <1>6, <1>7, <1>8, StackedAppend
<1>10. r \in Seq(Frames) /\ Len(r) = Len(s) + 1 /\ r[Len(s) + 1] = b
  <2>1. /\ Append(p, b) \in Seq(Frames) /\ Len(Append(p, b)) = Len(p) + 1
        /\ Append(p, b)[Len(p) + 1] = b
    BY <1>2, <1>4, AppendFacts
  <2> QED
    BY <1>1, <1>6, <2>1
<1> QED
  BY <1>5, <1>9, <1>10, EmptySeq DEF Last, b

\* Pop: what comes to the top.
LEMMA PopFacts ==
    ASSUME NEW cs, NEW s, Stacked(s, cs), s # <<>>
    PROVE  /\ Stacked(Front(s), cs)
           /\ Len(s) \in Nat /\ Len(s) >= 1 /\ Len(Front(s)) = Len(s) - 1
           /\ Front(s) = <<>> <=> Len(s) = 1
           /\ Last(s) \in Frames
           /\ Len(s) = 1 => Last(s).kind = "hooks"
           /\ Front(s) # <<>> =>
                /\ Last(Front(s)) = s[Len(s) - 1] /\ Last(Front(s)) \in Frames
                /\ (Last(Front(s)).kind = "hooks") # (Last(s).kind = "hooks")
                /\ Last(Front(s)).kind # "body"
<1> DEFINE r == Front(s)
           n == Len(s)
<1>1. s \in Seq(Frames)
  BY DEF Stacked
<1>2. /\ n \in Nat /\ n >= 1 /\ r \in Seq(Frames) /\ Len(r) = n - 1
      /\ \A i \in 1..n - 1 : r[i] = s[i]
      /\ Last(s) = s[n] /\ Last(s) \in Frames
  BY <1>1, FrontFacts
<1>3. /\ s[1].kind = "hooks"
      /\ \A i \in 1..n - 1 : (s[i].kind = "hooks") # (s[i + 1].kind = "hooks") /\ s[i].kind # "body"
  BY DEF Stacked, Alternates
<1>4. Stacked(r, cs)
  BY StackedFront
<1>5. r = <<>> <=> n = 1
  BY <1>2, EmptySeq, LenProperties
<1>6. r # <<>> => Last(r) = r[Len(r)]
  BY DEF Last
<1> HIDE DEF r, n
<1>7. ASSUME r # <<>>
      PROVE  /\ Last(r) = s[n - 1] /\ Last(r) \in Frames
             /\ (Last(r).kind = "hooks") # (Last(s).kind = "hooks")
             /\ Last(r).kind # "body"
  <2>1. n - 1 \in 1..n - 1 /\ (n - 1) + 1 = n /\ n - 1 \in 1..n
    BY <1>2, <1>5, <1>7
  <2>2. Last(r) = s[n - 1]
    BY <1>2, <1>6, <1>7, <2>1
  <2>3. s[n - 1] \in Frames
    BY <1>1, <2>1, ElementOfSeq DEF n
  <2>4. (s[n - 1].kind = "hooks") # (s[n].kind = "hooks") /\ s[n - 1].kind # "body"
    BY <1>3, <2>1
  <2> QED
    BY <1>2, <2>2, <2>3, <2>4
<1> QED
  BY <1>2, <1>3, <1>4, <1>5, <1>7 DEF r, n

\* r is s with the hooks q inside its last task.
Nests(r, s, q) ==
    /\ Len(r) = Len(s) + 1 /\ r # <<>>
    /\ Last(r) = HookFrame(q)
    /\ r[Len(r) - 1].msg = Last(s).msg

\* The last task may leave its code, as g, for the hooks q: of calls in ds, and later
\* retries of every task around them.
MayNest(s, cs, ds, g, q) ==
    /\ cs \subseteq ds /\ Stacked(s, cs) /\ s # <<>> /\ Last(s).kind \in {"body", "commit"}
    /\ g \in TaskFrames /\ g.kind \in {"commit", "retry"} /\ g.msg = Last(s).msg
    /\ q \in Seq(Message) /\ \A i \in 1..Len(q) : q[i].call \in ds
    /\ \A i \in 1..Len(s), j \in 1..Len(q) :
         s[i].kind # "hooks" /\ s[i].msg.call = q[j].call => s[i].msg.n < q[j].n

\* BodyCommits and TaskRetries: the task leaves its code and runs hooks inside it.
LEMMA InsideFacts ==
    ASSUME NEW cs, NEW ds, NEW s, NEW g, NEW q, MayNest(s, cs, ds, g, q),
           NEW r, r = Front(s) \o <<g, HookFrame(q)>>
    PROVE  Stacked(r, ds) /\ Nests(r, s, q)
<1> USE DEF MayNest
<1> DEFINE h == HookFrame(q)
           p == Append(Front(s), g)
           n == Len(s)
<1>1. s \in Seq(Frames)
  BY DEF Stacked
<1>2. /\ n \in Nat /\ n >= 1 /\ Front(s) \in Seq(Frames) /\ Len(Front(s)) = n - 1
      /\ \A i \in 1..n - 1 : Front(s)[i] = s[i]
      /\ Last(s) = s[n] /\ Last(s) \in Frames
  BY <1>1, FrontFacts
<1>3. Last(s) \in TaskFrames /\ Last(s).kind # "hooks" /\ Messages(Last(s)) = {Last(s).msg}
  BY <1>2, FrameFacts
<1>4. g \in Frames /\ g.kind # "body" /\ g.kind # "hooks" /\ g.msg = Last(s).msg
  BY DEF Frames
<1>5. h \in Frames /\ h.kind = "hooks" /\ h.todo = q
  BY DEF Frames, HookFrames, HookFrame
<1>6. Messages(g) = {Last(s).msg} /\ Messages(h) = {q[i] : i \in 1..Len(q)}
  BY <1>4, <1>5 DEF Messages
<1>0. r = Front(s) \o <<g, h>>
  OBVIOUS
<1> HIDE DEF h
<1>7. r = Append(p, h)
  <2>1. Front(s) \in Seq(Frames) /\ g \in Frames /\ h \in Frames
    BY <1>2, <1>4, <1>5
  <2>2. Front(s) \o <<g, h>> = Append(Append(Front(s), g), h)
    BY <2>1, ConcatTwo
  <2> QED
    BY <1>0, <2>2
<1>8. /\ p \in Seq(Frames) /\ Len(p) = n /\ p[n] = g
      /\ \A i \in 1..n - 1 : p[i] = s[i]
  <2>1. /\ p \in Seq(Frames) /\ Len(p) = Len(Front(s)) + 1
        /\ \A i \in 1..Len(Front(s)) : p[i] = Front(s)[i]
        /\ p[Len(Front(s)) + 1] = g
    BY <1>2, <1>4, AppendFacts
  <2>2. Len(Front(s)) + 1 = n
    BY <1>2
  <2> QED
    BY <1>2, <2>1, <2>2
<1>9. Stacked(p, ds)
  <2>1. Stacked(p, cs)
    BY <1>3, <1>4, <1>6, StackedReplace
  <2> QED
    BY <2>1, StackedMore
<1>10. \A i \in 1..n, j \in 1..Len(q) :
             s[i].kind # "hooks" /\ s[i].msg.call = q[j].call => s[i].msg.n < q[j].n
  OBVIOUS
<1> HIDE DEF p, n
<1>11. p # <<>> /\ Last(p) = g
  BY <1>2, <1>8, EmptySeq DEF Last
<1>12. \A i \in 1..Len(p) : \A m \in Messages(h) :
          p[i].kind # "hooks" /\ p[i].msg.call = m.call => p[i].msg.n < m.n
  <2> SUFFICES ASSUME NEW i \in 1..n, NEW j \in 1..Len(q),
                      p[i].kind # "hooks", p[i].msg.call = q[j].call
               PROVE  p[i].msg.n < q[j].n
    BY <1>6, <1>8
  <2>1. CASE i = n
    <3>1. n \in 1..n
      BY <1>2
    <3> QED
      BY <1>2, <1>3, <1>4, <1>8, <1>10, <2>1, <3>1
  <2>2. CASE i # n
    <3>1. i \in 1..n - 1
      BY <1>2, <2>2
    <3> QED
      BY <1>8, <1>10, <3>1
  <2> QED
    BY <2>1, <2>2
<1>13. \A m \in Messages(h) : m.call \in ds
  BY <1>6
<1>14. Stacked(r, ds)
  BY <1>4, <1>5, <1>7, <1>9, <1>11, <1>12, <1>13, StackedAppend
<1>15. /\ r \in Seq(Frames) /\ Len(r) = n + 1 /\ r[n + 1] = h /\ r[n] = g
  <2>1. /\ Append(p, h) \in Seq(Frames) /\ Len(Append(p, h)) = Len(p) + 1
        /\ \A i \in 1..Len(p) : Append(p, h)[i] = p[i]
        /\ Append(p, h)[Len(p) + 1] = h
    BY <1>5, <1>8, AppendFacts
  <2>2. n \in 1..n
    BY <1>2
  <2> QED
    BY <1>7, <1>8, <2>1, <2>2
<1>16. r # <<>> /\ Last(r) = h /\ r[Len(r) - 1] = g
  <2>1. Len(r) # 0 /\ Len(r) - 1 = n
    BY <1>2, <1>15
  <2> QED
    BY <1>15, <2>1, EmptySeq DEF Last
<1>17. Len(r) = Len(s) + 1
  BY <1>15 DEF n
<1> QED
  BY <1>4, <1>14, <1>16, <1>17 DEF h, Nests

(***************************************************************************)
(* The invariants.                                                         *)
(***************************************************************************)
TypeInv ==
    /\ DispatchTypeOK
    /\ stack \in [Threads -> Seq(Frames)]

\* Calls waiting in on_commit hooks are not settled and wait once; every frame is about
\* settled calls, and so is every submission.
HookInv ==
    /\ \A t \in Threads : Stacked(stack[t], settled)
    /\ \A t \in Threads : step[t] # "out" => current[t] \in settled
    /\ \A t \in Threads : \A c \in CallsOf(hooks[t]) : c \notin settled /\ fate[c] # "new"
    /\ \A t, u \in Threads : t # u => CallsOf(hooks[t]) \cap CallsOf(hooks[u]) = {}
    /\ \A c \in settled : fate[c] # "new"
    /\ OnlyAfterCommit

\* The modes keep apart: only the local route submits and only the eager one nests.
RouteInv ==
    /\ route # "local" => \A t \in Threads : step[t] = "out"
    /\ route # "eager" => \A t \in Threads : Len(stack[t]) <= 1
    /\ EagerFailuresContained

\* the frame the thread was in before its innermost run of hooks
Below(t) == stack[t][Len(stack[t]) - 1]

\* task_logger.message_id in a thread: a run of hooks inside a task has the task's id or
\* none, which is what the task finds when the hooks are done.
OwnLog(t) ==
    /\ InFrame(t, "body") => logId = Top(t).msg
    /\ InFrame(t, "commit") \/ InFrame(t, "retry") => logId \in {Top(t).msg, None}
    /\ InFrame(t, "hooks") /\ Len(stack[t]) > 1 => logId \in {Below(t).msg, None}

\* task_logger.message_id while no two threads are inside tasks
LogInv ==
    /\ ~overlapped => \A t, u \in Threads : Len(stack[t]) > 1 /\ Len(stack[u]) > 1 => t = u
    /\ (\A t \in Threads : Len(stack[t]) <= 1) => logId = None
    /\ ~overlapped => \A t \in Threads : OwnLog(t)

Distinct(todo) == \A i, j \in 1..Len(todo) : todo[i].call = todo[j].call => i = j

\* the messages a thread has still to submit
Waiting(t) == IF stack[t] = <<>> THEN <<>> ELSE stack[t][1].todo

\* A call waits once in the hooks, and a pool is named after a settled call.
OnceInv ==
    /\ \A t \in Threads : Distinct(hooks[t])
    /\ \A c \in Calls : pools[c] # "none" => c \in settled

\* On the local route a call is submitted once, by one thread, and has no pool named
\* after it before it reaches get_pool().
LocalInv ==
    /\ \A t \in Threads : Distinct(Waiting(t))
    /\ \A t, u \in Threads : t # u => CallsOf(Waiting(t)) \cap CallsOf(Waiting(u)) = {}
    /\ \A t, u \in Threads : step[u] # "out" => current[u] \notin CallsOf(Waiting(t))
    /\ \A t, u \in Threads :
         step[t] # "out" /\ step[u] # "out" /\ current[t] = current[u] => t = u
    /\ \A t \in Threads : \A c \in CallsOf(Waiting(t)) : pools[c] = "none"
    /\ \A t \in Threads : step[t] \in {"check", "create"} => pools[current[t]] = "none"

SubmitInv == OnceInv /\ (route = "local" => LocalInv)

\* Every open pool is the one in _pool, the one the handler took, or an orphan; when the
\* process has gone, SIG_DFL ended it, with or without the handlers of ready().
PoolInv ==
    /\ \A p \in Calls : pools[p] = "open" => p \in {pool, taken} \cup orphans
    /\ pool # None => pools[pool] \notin {"none", "shut"} /\ pool # taken
    /\ taken # None => pools[taken] # "none"
    /\ signal # "shutdown" => taken = None
    /\ signal # "idle" /\ pool # None => pool \in orphans
    /\ process = "gone" => \A p \in Calls :
         pools[p] = "open" => previous = "default" /\ (p \in orphans \/ ~installed)

(***************************************************************************)
(* The stacks stay in order.                                               *)
(***************************************************************************)
\* A new run of hooks on an empty stack.
LEMMA StackedStart ==
    ASSUME NEW cs, NEW q \in Seq(Message), \A i \in 1..Len(q) : q[i].call \in cs,
           NEW r, r = Append(<<>>, HookFrame(q))
    PROVE  /\ Stacked(r, cs)
           /\ Len(r) = 1 /\ r # <<>> /\ r[1] = HookFrame(q) /\ Last(r) = HookFrame(q)
<1>1. HookFrame(q) \in Frames /\ HookFrame(q).kind = "hooks" /\ HookFrame(q).todo = q
  BY DEF Frames, HookFrames, HookFrame
<1>2. \A m \in Messages(HookFrame(q)) : m.call \in cs
  BY <1>1 DEF Messages
<1>3. Stacked(r, cs)
  <2> DEFINE e == <<>>
  <2>1. Stacked(e, cs) /\ e = <<>> /\ Len(e) = 0
    BY StackedEmpty
  <2> HIDE DEF e
  <2>2. \A i \in 1..Len(e) : \A m \in Messages(HookFrame(q)) :
          e[i].kind # "hooks" /\ e[i].msg.call = m.call => e[i].msg.n < m.n
    BY <2>1
  <2>3. Stacked(Append(e, HookFrame(q)), cs)
    BY <1>1, <1>2, <2>1, <2>2, StackedAppend
  <2> QED
    BY <2>1, <2>3
<1>4. r = <<HookFrame(q)>>
  OBVIOUS
<1> QED
  BY <1>3, <1>4 DEF Last

\* The retry of a task's message.
LEMMA RetryFacts ==
    ASSUME NEW m \in Message, m.n < MAX_RETRIES, NEW k, k = [m EXCEPT !.n = @ + 1]
    PROVE  k \in Message /\ k.call = m.call /\ k.n = m.n + 1
BY DispatchAssumption DEF Message

\* One thread's stack changes, to one that is in order.
LEMMA OneStack ==
    ASSUME TypeInv, HookInv, NEW t \in Threads, settled \subseteq settled',
           NEW r, Stacked(r, settled'), stack' = [stack EXCEPT ![t] = r]
    PROVE  /\ stack' \in [Threads -> Seq(Frames)]
           /\ \A u \in Threads : Stacked(stack'[u], settled')
<1>1. r \in Seq(Frames)
  BY DEF Stacked
<1>2. \A u \in Threads : Stacked(stack[u], settled')
  BY StackedMore DEF HookInv
<1>3. stack \in [Threads -> Seq(Frames)]
  BY DEF TypeInv
<1> QED
  BY <1>1, <1>2, <1>3

\* The messages of a task's own hooks are new to the stack of its thread.
LEMMA HooksAreNew ==
    ASSUME TypeInv, HookInv, NEW t \in Threads,
           NEW i \in 1..Len(stack[t]), stack[t][i].kind # "hooks", NEW j \in 1..Len(hooks[t])
    PROVE  stack[t][i].msg.call # hooks[t][j].call
<1>1. stack[t] \in Seq(Frames) /\ Within(stack[t], settled)
  BY DEF HookInv, Stacked
<1>2. stack[t][i] \in Frames
  BY <1>1, ElementOfSeq
<1>3. stack[t][i].msg.call \in settled
  BY <1>1, <1>2, FrameFacts DEF Within
<1>4. hooks[t][j].call \notin settled
  BY DEF HookInv, CallsOf
<1> QED
  BY <1>3, <1>4

\* A task that leaves its code: its stack has a run of hooks more, and the task is the
\* frame below it.
LEMMA NestFacts ==
    ASSUME TypeInv, HookInv, NEW t \in Threads, BodyCommits(t) \/ TaskRetries(t)
    PROVE  \E q \in Seq(Message), r \in Seq(Frames) :
             /\ stack' = [stack EXCEPT ![t] = r] /\ Stacked(r, settled')
             /\ Nests(r, stack[t], q)
<1> DEFINE s == stack[t]
<1>1. /\ settled \subseteq Calls /\ hooks[t] \in Seq(Message) /\ Stacked(s, settled)
  BY DEF TypeInv, DispatchTypeOK, HookInv
<1>2. Stacked(s, settled) /\ s \in Seq(Frames)
  BY <1>1 DEF Stacked
<1>3. \A i \in 1..Len(hooks[t]) : hooks[t][i].call \in CallsOf(hooks[t])
  BY DEF CallsOf
<1>4. CASE BodyCommits(t)
  <2> DEFINE g == [Last(s) EXCEPT !.kind = "commit"]
             r == Front(s) \o <<g, HookFrame(hooks[t])>>
  <2>1. /\ s # <<>> /\ Last(s).kind = "body"
        /\ stack' = [stack EXCEPT ![t] = r]
        /\ settled' = settled \cup CallsOf(hooks[t])
    BY <1>4 DEF BodyCommits, InFrame, Top
  <2>2. \A i \in 1..Len(s), j \in 1..Len(hooks[t]) :
          s[i].kind # "hooks" => s[i].msg.call # hooks[t][j].call
    BY HooksAreNew
  <2>3. Stacked(r, settled') /\ Nests(r, s, hooks[t])
    <3>1. \A i \in 1..Len(s), j \in 1..Len(hooks[t]) :
             s[i].kind # "hooks" /\ s[i].msg.call = hooks[t][j].call => s[i].msg.n < hooks[t][j].n
      BY <2>2
    <3>2. \A i \in 1..Len(hooks[t]) : hooks[t][i].call \in settled'
      BY <1>3, <2>1
    <3>3. settled \subseteq settled' /\ Last(s).kind \in {"body", "commit"}
      BY <2>1
    <3>4. g \in TaskFrames /\ g.kind = "commit" /\ g.msg = Last(s).msg
      <4>1. Last(s) \in TaskFrames
        BY <1>2, <2>1, FrontFacts, FrameFacts
      <4> QED
        BY <4>1 DEF TaskFrames
    <3>5. r = Front(s) \o <<g, HookFrame(hooks[t])>> /\ s # <<>>
      BY <2>1
    <3>6. hooks[t] \in Seq(Message)
      BY <1>1
    <3> HIDE DEF g, r
    <3>7. MayNest(s, settled, settled', g, hooks[t])
      BY <1>2, <3>1, <3>2, <3>3, <3>4, <3>5, <3>6 DEF MayNest
    <3> QED
      BY <3>5, <3>7, InsideFacts
  <2> HIDE DEF r
  <2> QED
    BY <1>1, <2>1, <2>3 DEF Stacked
<1>5. CASE TaskRetries(t)
  <2> DEFINE m == Last(s).msg
             k == [m EXCEPT !.n = @ + 1]
             g == [Last(s) EXCEPT !.kind = "retry"]
             r == Front(s) \o <<g, HookFrame(<<k>>)>>
  <2>1. /\ s # <<>> /\ Last(s).kind \in {"body", "commit"}
        /\ stack' = [stack EXCEPT ![t] = r]
        /\ settled' = settled /\ m.n < MAX_RETRIES
    BY <1>5 DEF TaskRetries, Fails, MayRetry, RetryMessage, InFrame, Top
  <2>2. Last(s) \in Frames /\ Len(s) \in Nat /\ Len(s) >= 1 /\ Last(s) = s[Len(s)]
    BY <1>2, <2>1, FrontFacts
  <2>3. m \in Message /\ Messages(Last(s)) = {m}
    BY <2>1, <2>2, FrameFacts
  <2>4. k \in Message /\ k.call = m.call /\ k.n = m.n + 1
    BY <2>1, <2>3, RetryFacts
  <2>5. Len(s) \in 1..Len(s)
    BY <2>2
  <2>6. m.call \in settled
    BY <1>2, <2>2, <2>3, <2>5 DEF Stacked, Within
  <2> HIDE DEF k
  <2>7. \A i \in 1..Len(s) : s[i].kind # "hooks" /\ s[i].msg.call = k.call => s[i].msg.n < k.n
    <3> SUFFICES ASSUME NEW i \in 1..Len(s), s[i].kind # "hooks", s[i].msg.call = k.call
                 PROVE  s[i].msg.n < k.n
      OBVIOUS
    <3>1. s[i] \in Frames
      BY <1>2, ElementOfSeq
    <3>2. s[i].msg \in Message
      BY <3>1, FrameFacts
    <3>3. s[i].msg.n \in Nat /\ m.n \in Nat
      BY <2>3, <3>2 DEF Message
    <3>4. CASE i = Len(s)
      BY <2>2, <2>4, <3>3, <3>4
    <3>5. CASE i # Len(s)
      <4>1. i \in 1..Len(s) - 1
        BY <2>2, <3>5
      <4>2. s[i].msg.n < m.n
        BY <1>2, <2>2, <2>3, <2>4, <2>5, <4>1 DEF Stacked, Climbs
      <4> QED
        BY <2>4, <3>3, <4>2
    <3> QED
      BY <3>4, <3>5
  <2>8. Stacked(r, settled') /\ Nests(r, s, <<k>>)
    <3> DEFINE q == <<k>>
    <3>1. q \in Seq(Message) /\ Len(q) = 1 /\ q[1] = k
      BY <2>4
    <3> HIDE DEF q
    <3>2. \A i \in 1..Len(q) : q[i].call \in settled'
      BY <2>1, <2>4, <2>6, <3>1
    <3>3. \A i \in 1..Len(s), j \in 1..Len(q) :
             s[i].kind # "hooks" /\ s[i].msg.call = q[j].call => s[i].msg.n < q[j].n
      BY <2>7, <3>1
    <3>4. r = Front(s) \o <<g, HookFrame(q)>> /\ settled \subseteq settled'
      BY <2>1 DEF q
    <3>5. g \in TaskFrames /\ g.kind = "retry" /\ g.msg = Last(s).msg
      <4>1. Last(s) \in TaskFrames
        BY <2>1, <2>2, FrameFacts
      <4> QED
        BY <4>1 DEF TaskFrames
    <3> HIDE DEF g, r
    <3> QED
      <4>1. s # <<>> /\ Last(s).kind \in {"body", "commit"}
        BY <2>1
      <4>2. MayNest(s, settled, settled', g, q)
        BY <1>2, <4>1, <3>1, <3>2, <3>3, <3>4, <3>5 DEF MayNest
      <4>3. Stacked(r, settled') /\ Nests(r, s, q)
        BY <3>4, <4>2, InsideFacts
      <4> QED
        BY <4>3 DEF q
  <2> HIDE DEF r
  <2>9. <<k>> \in Seq(Message)
    BY <2>4
  <2> QED
    BY <2>1, <2>8, <2>9 DEF Stacked
<1> QED
  BY <1>4, <1>5

\* Every step of a thread leaves every stack in order and settles more or nothing.
LEMMA StackSteps ==
    ASSUME TypeInv, HookInv, NEW t \in Threads, ThreadStep(t)
    PROVE  /\ stack' \in [Threads -> Seq(Frames)]
           /\ settled \subseteq settled' /\ settled' \subseteq Calls
           /\ \A u \in Threads : Stacked(stack'[u], settled')
<1> DEFINE s == stack[t]
<1> DEFINE Goal == /\ stack' \in [Threads -> Seq(Frames)]
                   /\ settled \subseteq settled' /\ settled' \subseteq Calls
                   /\ \A u \in Threads : Stacked(stack'[u], settled')
<1>1. /\ stack \in [Threads -> Seq(Frames)] /\ settled \subseteq Calls
      /\ hooks \in [Threads -> Seq(Message)] /\ hooks[t] \in Seq(Message)
      /\ \A u \in Threads : Stacked(stack[u], settled)
  BY DEF TypeInv, DispatchTypeOK, HookInv
<1>2. Stacked(s, settled) /\ s \in Seq(Frames)
  BY <1>1 DEF Stacked
<1>3. CallsOf(hooks[t]) \subseteq Calls /\ \A i \in 1..Len(hooks[t]) : hooks[t][i].call \in CallsOf(hooks[t])
  <2>1. \A i \in 1..Len(hooks[t]) : hooks[t][i] \in Message
    BY <1>1, ElementOfSeq
  <2> QED
    BY <2>1 DEF CallsOf, Message
<1>4. CASE UNCHANGED <<stack, settled>>
  BY <1>1, <1>4
<1>5. CASE Commit(t)
  <2>1. /\ stack' = [stack EXCEPT ![t] = Append(s, HookFrame(hooks[t]))] /\ s = <<>>
        /\ settled' = settled \cup CallsOf(hooks[t])
    BY <1>5 DEF Commit, Push
  <2>2. Stacked(Append(<<>>, HookFrame(hooks[t])), settled')
    BY <1>1, <1>3, <2>1, StackedStart
  <2> QED
    BY <1>1, <1>3, <2>1, <2>2, OneStack
<1>6. ASSUME NEW c \in Calls, ExecuteOnCommit(t, c) PROVE Goal
  <2>1. CASE InAtomic(t)
    BY <1>4, <1>6, <2>1 DEF ExecuteOnCommit
  <2>2. CASE ~InAtomic(t)
    <3> DEFINE m == [call |-> c, n |-> 0]
    <3>1. m \in Message /\ m.call = c
      BY DispatchAssumption DEF Message
    <3> HIDE DEF m
    <3>2. s = <<>> /\ stack' = [stack EXCEPT ![t] = Append(s, HookFrame(<<m>>))]
          /\ settled' = settled \cup {c}
      BY <1>6, <2>2 DEF ExecuteOnCommit, InAtomic, Push, m
    <3>3. <<m>> \in Seq(Message) /\ \A i \in 1..Len(<<m>>) : <<m>>[i].call \in settled'
      BY <3>1, <3>2
    <3>4. Stacked(Append(<<>>, HookFrame(<<m>>)), settled')
      BY <3>3, StackedStart
    <3> QED
      BY <1>1, <3>2, <3>4, OneStack
  <2> QED
    BY <2>1, <2>2
<1>7. CASE Deliver(t) \/ DeliverRaises(t) \/ DeliverEagerlyRaises(t) \/ DeliverLocally(t)
  <2>1. /\ s # <<>> /\ Last(s).kind = "hooks" /\ Last(s).todo # <<>>
        /\ stack' = [stack EXCEPT ![t] = Append(Front(s), HookFrame(Tail(Last(s).todo)))]
        /\ settled' = settled
    BY <1>7 DEF Deliver, DeliverRaises, DeliverEagerlyRaises, DeliverLocally, Running, InFrame,
                Top, Todo, Advance, Replace
  <2>2. Stacked(Append(Front(s), HookFrame(Tail(Last(s).todo))), settled')
    BY <1>2, <2>1, AdvanceFacts
  <2> QED
    BY <1>1, <2>1, <2>2, OneStack
<1>8. CASE DeliverEagerly(t)
  <2> DEFINE r == Front(s) \o <<HookFrame(Tail(Last(s).todo)),
                                [kind |-> "body", msg |-> Head(Last(s).todo)]>>
  <2>1. /\ s # <<>> /\ Last(s).kind = "hooks" /\ Last(s).todo # <<>>
        /\ stack' = [stack EXCEPT ![t] = r]
        /\ settled' = settled
    BY <1>8 DEF DeliverEagerly, Running, InFrame, Top, Todo, NextMessage
  <2>2. Stacked(r, settled')
    BY <1>2, <2>1, EagerFacts
  <2> HIDE DEF r
  <2> QED
    BY <1>1, <2>1, <2>2, OneStack
<1>9. CASE \/ HooksDone(t) \/ HooksRaise(t) \/ TaskReturns(t) \/ TaskUnsaved(t) \/ TaskFails(t)
           \/ TaskRaises(t) \/ TaskEscapes(t)
  <2>1. s # <<>> /\ stack' = [stack EXCEPT ![t] = Front(s)] /\ settled' = settled
    BY <1>9 DEF HooksDone, HooksRaise, TaskReturns, TaskUnsaved, TaskFails, TaskRaises,
                TaskEscapes, Escapes, Fails, Running, InFrame, Pop
  <2>2. Stacked(Front(s), settled')
    BY <1>2, <2>1, StackedFront
  <2> QED
    BY <1>1, <2>1, <2>2, OneStack
<1>10. CASE BodyCommits(t) \/ TaskRetries(t)
  <2>1. PICK r \in Seq(Frames) : stack' = [stack EXCEPT ![t] = r] /\ Stacked(r, settled')
    BY <1>10, NestFacts
  <2>2. settled' = settled \cup CallsOf(hooks[t]) \/ settled' = settled
    BY <1>10 DEF BodyCommits, TaskRetries
  <2> QED
    BY <1>1, <1>3, <2>1, <2>2, OneStack
<1>12. CASE \/ Begin(t) \/ Rollback(t) \/ SubmitLocally(t) \/ SubmitLocallyRaises(t)
            \/ (CheckPool(t) \/ CreatePool(t) \/ ReturnPool(t)) /\ UNCHANGED dispatchVars
  BY <1>4, <1>12 DEF Begin, Rollback, SubmitLocally, SubmitLocallyRaises, dispatchVars
<1> QED
  BY <1>5, <1>6, <1>7, <1>8, <1>9, <1>10, <1>12 DEF ThreadStep

(***************************************************************************)
(* Types.                                                                  *)
(***************************************************************************)
\* The steps of get_pool() and submit(), by a thread whose call is known.
LEMMA SubmitTypes ==
    ASSUME PoolTypeOK, NEW t \in Threads, step[t] # "out" => current[t] \in Calls,
           CheckPool(t) \/ CreatePool(t) \/ ReturnPool(t) \/ Submit(t) \/ SubmitRaises(t)
    PROVE  PoolTypeOK'
<1> USE DEF PoolTypeOK
<1>1. CASE CheckPool(t)
  BY <1>1 DEF CheckPool
<1>2. CASE CreatePool(t)
  BY <1>2 DEF CreatePool
<1>3. CASE ReturnPool(t)
  BY <1>3 DEF ReturnPool
<1>4. CASE Submit(t)
  BY <1>4 DEF Submit, LeaveSubmit
<1>5. CASE SubmitRaises(t)
  BY <1>5 DEF SubmitRaises, LeaveSubmit
<1> QED
  BY <1>1, <1>2, <1>3, <1>4, <1>5

\* The workers, the signals and the end of the interpreter.
LEMMA PoolStepTypes ==
    ASSUME PoolTypeOK, PoolStep
    PROVE  PoolTypeOK'
<1> USE DEF PoolTypeOK
<1> DEFINE Jobs == [state : {"none", "pending", "running", "done", "lost"}, pool : Calls \cup {None}]
<1>0. jobs \in [Calls -> Jobs]
  OBVIOUS
<1>1. ASSUME NEW p PROVE Lose(p) \in [Calls -> Jobs]
  <2>1. \A c \in Calls : [jobs[c] EXCEPT !.state = "lost"] \in Jobs
    BY <1>0
  <2> HIDE DEF Jobs
  <2> QED
    BY <1>0, <2>1 DEF Lose
<1>2. ASSUME NEW c \in Calls, NEW x \in {"running", "done"}
      PROVE  [jobs EXCEPT ![c].state = x] \in [Calls -> Jobs]
  BY <1>0
<1> HIDE DEF Jobs
<1>3. ASSUME NEW c \in Calls, WorkerStarts(c) PROVE PoolTypeOK'
  <2>1. jobs' \in [Calls -> Jobs]
    BY <1>2, <1>3 DEF WorkerStarts
  <2> QED
    BY <1>3, <2>1 DEF WorkerStarts, Jobs
<1>4. ASSUME NEW c \in Calls, WorkerEnds(c) PROVE PoolTypeOK'
  <2>1. jobs' \in [Calls -> Jobs]
    BY <1>2, <1>4 DEF WorkerEnds
  <2> QED
    BY <1>4, <2>1 DEF WorkerEnds, Jobs
<1>5. ASSUME NEW c \in Calls, WorkerDies(c) PROVE PoolTypeOK'
  <2>1. jobs' \in [Calls -> Jobs]
    BY <1>1, <1>5 DEF WorkerDies
  <2> QED
    BY <1>5, <2>1 DEF WorkerDies, Jobs
<1>6. CASE HandleSignal
  BY <1>6 DEF HandleSignal
<1>7. CASE ShutdownPool
  <2>1. jobs' \in [Calls -> Jobs]
    BY <1>0, <1>1, <1>7 DEF ShutdownPool
  <2> QED
    BY <1>7, <2>1 DEF ShutdownPool, Jobs
<1>8. CASE SignalAgain
  BY <1>8 DEF SignalAgain
<1>9. CASE Chain
  <2>1. process' \in {"running", "exiting", "gone"}
    BY <1>9 DEF Chain, AfterSignal
  <2> QED
    BY <1>9, <2>1 DEF Chain
<1>10. CASE Finish
  BY <1>10 DEF Finish
<1>11. CASE Exit
  BY <1>11 DEF Exit
<1>12. CASE UnhandledSignal
  <2>1. process' \in {"running", "exiting", "gone"}
    BY <1>12 DEF UnhandledSignal, AfterSignal
  <2> QED
    BY <1>12, <2>1 DEF UnhandledSignal
<1> QED
  BY <1>3, <1>4, <1>5, <1>6, <1>7, <1>8, <1>9, <1>10, <1>11, <1>12 DEF PoolStep

\* What the stack says of a thread that runs hooks with messages still to do.
LEMMA NextFacts ==
    ASSUME TypeInv, HookInv, NEW t \in Threads, InFrame(t, "hooks"), Todo(t) # <<>>
    PROVE  NextMessage(t) \in Message /\ NextMessage(t).call \in settled
<1>1. /\ stack[t] # <<>> /\ Last(stack[t]).kind = "hooks" /\ Last(stack[t]).todo # <<>>
      /\ Stacked(stack[t], settled)
  BY DEF InFrame, Top, Todo, HookInv
<1> QED
  BY <1>1, AdvanceFacts DEF NextMessage, Todo, Top

\* A step of a thread keeps the types.
LEMMA ThreadTypes ==
    ASSUME TypeInv, HookInv, NEW t \in Threads, ThreadStep(t)
    PROVE  TypeInv'
<1>1. /\ stack' \in [Threads -> Seq(Frames)] /\ settled' \subseteq Calls
  BY StackSteps
<1>2. \A u \in Threads : \A i \in 1..Len(stack'[u]) : stack'[u][i] \in HookFrames \cup TaskFrames
  BY <1>1, ElementOfSeq DEF Frames
<1> DEFINE Rest == /\ route \in {"noop", "eager", "local", "sqs"}
                   /\ atomic \in [Threads -> BOOLEAN] /\ raising \in [Threads -> BOOLEAN]
                   /\ hooks \in [Threads -> Seq(Message)]
                   /\ logId \in Message \cup {None}
                   /\ fate \in [Calls -> Fates]
                   /\ escaped \subseteq Threads /\ overlapped \in BOOLEAN
<1>3. Rest /\ PoolTypeOK
  BY DEF TypeInv, DispatchTypeOK
<1>4. step[t] # "out" => current[t] \in Calls
  BY DEF HookInv, TypeInv, DispatchTypeOK
<1>5. PoolTypeOK'
  <2>1. CASE UNCHANGED poolVars
    BY <1>3, <2>1 DEF poolVars, PoolTypeOK
  <2>2. CASE DeliverLocally(t)
    <3>1. NextMessage(t).call \in Calls
      BY <2>2, NextFacts DEF DeliverLocally, Running, TypeInv, DispatchTypeOK
    <3> QED
      BY <1>3, <2>2, <3>1 DEF DeliverLocally, BeginSubmit, PoolTypeOK
  <2>3. CASE CheckPool(t) \/ CreatePool(t) \/ ReturnPool(t) \/ Submit(t) \/ SubmitRaises(t)
    BY <1>3, <1>4, <2>3, SubmitTypes
  <2> QED
    BY <2>1, <2>2, <2>3
    DEF ThreadStep, Begin, Rollback, Commit, ExecuteOnCommit, Deliver, DeliverRaises,
        DeliverEagerlyRaises, DeliverEagerly, SubmitLocally, SubmitLocallyRaises, HooksDone,
        HooksRaise, BodyCommits, TaskReturns, TaskUnsaved, TaskFails, TaskRetries, TaskRaises,
        TaskEscapes, Escapes
<1>6. ASSUME NEW cs, NEW f \in Fates, SetFates(cs, f) PROVE fate' \in [Calls -> Fates]
  BY <1>3, <1>6 DEF SetFates
<1>7. /\ "hooked" \in Fates /\ "discarded" \in Fates /\ "handed" \in Fates
      /\ "failed" \in Fates /\ "skipped" \in Fates
  BY DEF Fates
<1>8. fate' \in [Calls -> Fates]
  <2>1. CASE UNCHANGED fate
    BY <1>3, <2>1
  <2> QED
    BY <1>6, <1>7, <2>1
    DEF ThreadStep, Begin, Rollback, Commit, ExecuteOnCommit, Deliver, DeliverRaises,
        DeliverEagerlyRaises, DeliverLocally, DeliverEagerly, SubmitLocally, SubmitLocallyRaises,
        HooksDone, HooksRaise, BodyCommits, TaskReturns, TaskUnsaved, TaskFails, TaskRetries,
        TaskRaises, TaskEscapes, Escapes, dispatchVars
<1>9. hooks' \in [Threads -> Seq(Message)]
  <2>1. <<>> \in Seq(Message)
    OBVIOUS
  <2>2. CASE UNCHANGED hooks \/ hooks' = [hooks EXCEPT ![t] = <<>>]
    BY <1>3, <2>1, <2>2
  <2>3. ASSUME NEW c \in Calls, ExecuteOnCommit(t, c) PROVE hooks' \in [Threads -> Seq(Message)]
    <3>1. [call |-> c, n |-> 0] \in Message
      BY DispatchAssumption DEF Message
    <3>2. Append(hooks[t], [call |-> c, n |-> 0]) \in Seq(Message)
      BY <1>3, <3>1, AppendFacts
    <3> QED
      BY <1>3, <2>3, <3>2 DEF ExecuteOnCommit
  <2> QED
    BY <2>2, <2>3
    DEF ThreadStep, Begin, Rollback, Commit, Deliver, DeliverRaises, DeliverEagerlyRaises,
        DeliverLocally, DeliverEagerly, SubmitLocally, SubmitLocallyRaises, HooksDone, HooksRaise,
        BodyCommits, TaskReturns, TaskUnsaved, TaskFails, TaskRetries, TaskRaises, TaskEscapes,
        Escapes, dispatchVars
<1>10. logId' \in Message \cup {None}
  <2>1. CASE UNCHANGED logId \/ logId' = None
    BY <1>3, <2>1
  <2>2. CASE DeliverEagerly(t)
    BY <2>2, NextFacts DEF DeliverEagerly, Running
  <2> QED
    BY <2>1, <2>2
    DEF ThreadStep, Begin, Rollback, Commit, ExecuteOnCommit, Deliver, DeliverRaises,
        DeliverEagerlyRaises, DeliverLocally, SubmitLocally, SubmitLocallyRaises, HooksDone,
        HooksRaise, BodyCommits, TaskReturns, TaskUnsaved, TaskFails, TaskRetries, TaskRaises,
        TaskEscapes, Escapes, Forget, dispatchVars
<1>11. atomic' \in [Threads -> BOOLEAN]
  <2>1. CASE UNCHANGED atomic
    BY <1>3, <2>1
  <2>2. CASE Begin(t) \/ Rollback(t) \/ Commit(t)
    BY <1>3, <2>2 DEF Begin, Rollback, Commit
  <2> QED
    BY <2>1, <2>2
    DEF ThreadStep, ExecuteOnCommit, Deliver, DeliverRaises, DeliverEagerlyRaises, DeliverLocally,
        DeliverEagerly, SubmitLocally, SubmitLocallyRaises, HooksDone, HooksRaise, BodyCommits,
        TaskReturns, TaskUnsaved, TaskFails, TaskRetries, TaskRaises, TaskEscapes, Escapes,
        dispatchVars
<1>12. raising' \in [Threads -> BOOLEAN]
  <2>1. CASE UNCHANGED raising
    BY <1>3, <2>1
  <2>2. ASSUME NEW b \in BOOLEAN, raising' = [raising EXCEPT ![t] = b]
        PROVE  raising' \in [Threads -> BOOLEAN]
    BY <1>3, <2>2
  <2>3. CASE HooksRaise(t)
    <3>1. (Len(stack[t]) > 1) \in BOOLEAN
      OBVIOUS
    <3> QED
      BY <2>2, <2>3, <3>1, Zenon DEF HooksRaise
  <2> QED
    BY <2>1, <2>2, <2>3
    DEF ThreadStep, Begin, Rollback, Commit, ExecuteOnCommit, Deliver, DeliverRaises,
        DeliverEagerlyRaises, DeliverLocally, DeliverEagerly, SubmitLocally, SubmitLocallyRaises,
        HooksDone, BodyCommits, TaskReturns, TaskUnsaved, TaskFails, TaskRetries, TaskRaises,
        TaskEscapes, Escapes, dispatchVars
<1>13. escaped' \subseteq Threads /\ route' \in {"noop", "eager", "local", "sqs"}
  BY <1>3
    DEF ThreadStep, Begin, Rollback, Commit, ExecuteOnCommit, Deliver, DeliverRaises,
        DeliverEagerlyRaises, DeliverLocally, DeliverEagerly, SubmitLocally, SubmitLocallyRaises,
        HooksDone, HooksRaise, BodyCommits, TaskReturns, TaskUnsaved, TaskFails, TaskRetries,
        TaskRaises, TaskEscapes, Escapes, dispatchVars
<1>14. overlapped' \in BOOLEAN
  <2>1. CASE UNCHANGED overlapped
    BY <1>3, <2>1
  <2>2. CASE DeliverEagerly(t)
    BY <2>2, Zenon DEF DeliverEagerly
  <2>3. CASE DeliverEagerlyRaises(t)
    BY <2>3, Zenon DEF DeliverEagerlyRaises
  <2> QED
    BY <2>1, <2>2, <2>3
    DEF ThreadStep, Begin, Rollback, Commit, ExecuteOnCommit, Deliver, DeliverRaises,
        DeliverLocally, SubmitLocally, SubmitLocallyRaises, HooksDone,
        HooksRaise, BodyCommits, TaskReturns, TaskUnsaved, TaskFails, TaskRetries, TaskRaises,
        TaskEscapes, Escapes, dispatchVars
<1> QED
  BY <1>1, <1>2, <1>5, <1>8, <1>9, <1>10, <1>11, <1>12, <1>13, <1>14
  DEF TypeInv, DispatchTypeOK

(***************************************************************************)
(* Nothing before the commit.                                              *)
(***************************************************************************)
\* The calls of a sequence of messages.
LEMMA CallsOfFacts ==
    /\ CallsOf(<<>>) = {}
    /\ \A q \in Seq(Message), m \in Message : CallsOf(Append(q, m)) = CallsOf(q) \cup {m.call}
<1>1. CallsOf(<<>>) = {}
  BY DEF CallsOf
<1>2. ASSUME NEW q \in Seq(Message), NEW m \in Message
      PROVE  CallsOf(Append(q, m)) = CallsOf(q) \cup {m.call}
  <2> DEFINE r == Append(q, m)
             n == Len(q)
  <2>1. n \in Nat /\ Len(r) = n + 1 /\ r[n + 1] = m /\ \A i \in 1..n : r[i] = q[i]
    BY AppendFacts, LenProperties
  <2> HIDE DEF r, n
  <2>2. 1..n + 1 = (1..n) \cup {n + 1}
    BY <2>1
  <2>3. {r[i].call : i \in 1..Len(r)} = {q[i].call : i \in 1..n} \cup {m.call}
    BY <2>1, <2>2
  <2> QED
    BY <2>3 DEF CallsOf, r, n
<1> QED
  BY <1>1, <1>2

\* The hooks a thread still has to run are of settled calls.
LEMMA TodoSettled ==
    ASSUME HookInv, NEW t \in Threads, InFrame(t, "hooks")
    PROVE  CallsOf(Todo(t)) \subseteq settled
<1> DEFINE s == stack[t]
<1>1. s \in Seq(Frames) /\ Within(s, settled) /\ s # <<>> /\ Last(s).kind = "hooks"
  BY DEF HookInv, Stacked, InFrame, Top
<1>2. Last(s) = s[Len(s)] /\ Len(s) \in 1..Len(s)
  <2>1. Last(s) = s[Len(s)] /\ Len(s) \in Nat /\ Len(s) >= 1
    BY <1>1, FrontFacts
  <2> QED
    BY <2>1
<1>3. Messages(Last(s)) = {Last(s).todo[i] : i \in 1..Len(Last(s).todo)}
  BY <1>1 DEF Messages
<1>4. \A i \in 1..Len(Last(s).todo) : Last(s).todo[i].call \in settled
  BY <1>1, <1>2, <1>3 DEF Within
<1> QED
  BY <1>4 DEF CallsOf, Todo, Top

\* How a step of a thread changes hooks and settled calls: not at all, hooks are
\* dropped, they are settled, a call joins them, or a call is settled at once.
LEMMA HookKinds ==
    ASSUME NEW t \in Threads, ThreadStep(t)
    PROVE  \/ UNCHANGED <<hooks, settled>>
           \/ hooks' = [hooks EXCEPT ![t] = <<>>] /\ UNCHANGED settled
           \/ hooks' = [hooks EXCEPT ![t] = <<>>] /\ settled' = settled \cup CallsOf(hooks[t])
           \/ \E c \in Calls :
                /\ fate[c] = "new" /\ SetFates({c}, "hooked") /\ UNCHANGED <<step, current, pools>>
                /\ \/ /\ hooks' = [hooks EXCEPT ![t] = Append(@, [call |-> c, n |-> 0])]
                      /\ UNCHANGED <<settled, stack>>
                   \/ settled' = settled \cup {c} /\ UNCHANGED hooks /\ stack[t] = <<>>
                      /\ Push(t, HookFrame(<<[call |-> c, n |-> 0]>>))
<1>1. CASE \/ Begin(t) \/ Rollback(t) \/ Commit(t) \/ Deliver(t) \/ DeliverRaises(t)
           \/ DeliverEagerlyRaises(t) \/ DeliverLocally(t) \/ DeliverEagerly(t)
           \/ SubmitLocally(t) \/ SubmitLocallyRaises(t)
           \/ (CheckPool(t) \/ CreatePool(t) \/ ReturnPool(t)) /\ UNCHANGED dispatchVars
           \/ HooksDone(t) \/ HooksRaise(t)
           \/ BodyCommits(t) \/ TaskReturns(t) \/ TaskUnsaved(t)
           \/ TaskFails(t) \/ TaskRetries(t) \/ TaskRaises(t) \/ TaskEscapes(t)
  BY <1>1
  DEF Begin, Rollback, Commit, Deliver, DeliverRaises, DeliverEagerlyRaises, DeliverLocally,
      DeliverEagerly, SubmitLocally, SubmitLocallyRaises, HooksDone, HooksRaise, BodyCommits,
      TaskReturns, TaskUnsaved, TaskFails, TaskRetries, TaskRaises, TaskEscapes, Escapes,
      dispatchVars
<1>2. ASSUME NEW c \in Calls, ExecuteOnCommit(t, c)
      PROVE  /\ fate[c] = "new" /\ SetFates({c}, "hooked") /\ UNCHANGED <<step, current, pools>>
             /\ \/ /\ hooks' = [hooks EXCEPT ![t] = Append(@, [call |-> c, n |-> 0])]
                   /\ UNCHANGED <<settled, stack>>
                \/ settled' = settled \cup {c} /\ UNCHANGED hooks /\ stack[t] = <<>>
                   /\ Push(t, HookFrame(<<[call |-> c, n |-> 0]>>))
  BY <1>2 DEF ExecuteOnCommit, InAtomic, poolVars
<1> QED
  BY <1>1, <1>2 DEF ThreadStep

\* What a step of a thread makes of the fates: calls become hooked from new, discarded,
\* or handed over, failed or skipped when they are settled.
LEMMA FateKinds ==
    ASSUME TypeInv, HookInv, NEW t \in Threads, ThreadStep(t)
    PROVE  \A c \in Calls :
             /\ fate'[c] = "new" => fate[c] = "new"
             /\ fate'[c] \in {"handed", "failed", "skipped"} => c \in settled
<1>0. \A c \in Calls : fate[c] \in {"handed", "failed", "skipped"} => c \in settled
  BY DEF HookInv, OnlyAfterCommit
<1>1. CASE UNCHANGED fate
  BY <1>0, <1>1
<1>2. ASSUME NEW cs, NEW f, f \in {"hooked", "discarded"}, SetFates(cs, f)
      PROVE  \A c \in Calls :
             /\ fate'[c] = "new" => fate[c] = "new"
             /\ fate'[c] \in {"handed", "failed", "skipped"} => c \in settled
  BY <1>0, <1>2 DEF SetFates
<1>3. ASSUME NEW cs, cs \subseteq settled, NEW f, f # "new", SetFates(cs, f)
      PROVE  \A c \in Calls :
             /\ fate'[c] = "new" => fate[c] = "new"
             /\ fate'[c] \in {"handed", "failed", "skipped"} => c \in settled
  BY <1>0, <1>3 DEF SetFates
<1>4. CASE Deliver(t) \/ DeliverRaises(t) \/ DeliverEagerly(t) \/ DeliverEagerlyRaises(t)
  <2>1. NextMessage(t).call \in settled
    BY <1>4, NextFacts DEF Deliver, DeliverRaises, DeliverEagerlyRaises, DeliverEagerly, Running
  <2>2. SetFates({NextMessage(t).call}, "handed") \/ SetFates({NextMessage(t).call}, "failed")
    BY <1>4 DEF Deliver, DeliverRaises, DeliverEagerlyRaises, DeliverEagerly
  <2> QED
    BY <1>3, <2>1, <2>2
<1>5. CASE SubmitLocally(t) \/ SubmitLocallyRaises(t)
  <2>1. current[t] \in settled
    BY <1>5 DEF SubmitLocally, SubmitLocallyRaises, Submit, SubmitRaises, HookInv
  <2>2. SetFates({current[t]}, "handed") \/ SetFates({current[t]}, "failed")
    BY <1>5 DEF SubmitLocally, SubmitLocallyRaises
  <2> QED
    BY <1>3, <2>1, <2>2
<1>6. CASE HooksRaise(t)
  <2>1. CallsOf(Todo(t)) \subseteq settled
    BY <1>6, TodoSettled DEF HooksRaise
  <2>2. SetFates(CallsOf(Todo(t)), "skipped")
    BY <1>6 DEF HooksRaise
  <2> QED
    BY <1>3, <2>1, <2>2
<1>7. CASE \E c \in Calls : ExecuteOnCommit(t, c)
  BY <1>2, <1>7 DEF ExecuteOnCommit
<1>8. CASE Rollback(t) \/ TaskFails(t) \/ TaskRetries(t) \/ TaskRaises(t) \/ TaskEscapes(t)
  BY <1>2, <1>8 DEF Rollback, TaskFails, TaskRetries, TaskRaises, TaskEscapes, Escapes
<1> QED
  BY <1>1, <1>4, <1>5, <1>6, <1>7, <1>8
  DEF ThreadStep, Begin, Commit, DeliverLocally, HooksDone, BodyCommits, TaskReturns,
      TaskUnsaved, dispatchVars

\* A step of a thread keeps hooks and settled calls apart.
LEMMA HookSteps ==
    ASSUME TypeInv, HookInv, NEW t \in Threads, ThreadStep(t)
    PROVE  HookInv'
<1>1. /\ \A u \in Threads : Stacked(stack'[u], settled')
      /\ settled \subseteq settled' /\ settled' \subseteq Calls
  BY StackSteps
<1>2. /\ \A u \in Threads : step[u] # "out" => current[u] \in settled
      /\ \A u \in Threads : \A c \in CallsOf(hooks[u]) : c \notin settled /\ fate[c] # "new"
      /\ \A u, v \in Threads : u # v => CallsOf(hooks[u]) \cap CallsOf(hooks[v]) = {}
      /\ \A c \in settled : fate[c] # "new"
  BY DEF HookInv
<1>3. /\ hooks \in [Threads -> Seq(Message)] /\ settled \subseteq Calls
      /\ step \in [Threads -> {"out", "check", "create", "return", "submit"}]
      /\ current \in [Threads -> Calls \cup {None}]
      /\ \A u \in Threads : CallsOf(hooks[u]) \subseteq Calls
  <2>1. /\ hooks \in [Threads -> Seq(Message)] /\ settled \subseteq Calls
        /\ step \in [Threads -> {"out", "check", "create", "return", "submit"}]
        /\ current \in [Threads -> Calls \cup {None}]
    BY DEF TypeInv, DispatchTypeOK, PoolTypeOK
  <2>2. ASSUME NEW u \in Threads PROVE CallsOf(hooks[u]) \subseteq Calls
    <3>1. \A i \in 1..Len(hooks[u]) : hooks[u][i] \in Message
      BY <2>1, ElementOfSeq
    <3> QED
      BY <3>1 DEF CallsOf, Message
  <2> QED
    BY <2>1, <2>2
<1>4. \A c \in Calls :
        /\ fate'[c] = "new" => fate[c] = "new"
        /\ fate'[c] \in {"handed", "failed", "skipped"} => c \in settled
  BY FateKinds
<1>5. \A u \in Threads : step'[u] # "out" => current'[u] \in settled'
  <2>1. CASE UNCHANGED <<step, current>>
    BY <1>1, <1>2, <2>1
  <2>2. CASE DeliverLocally(t)
    <3>1. NextMessage(t).call \in settled
      BY <2>2, NextFacts DEF DeliverLocally, Running
    <3> QED
      BY <1>1, <1>2, <1>3, <2>2, <3>1 DEF DeliverLocally, BeginSubmit
  <2>3. CASE SubmitLocally(t) \/ SubmitLocallyRaises(t)
    BY <1>1, <1>2, <1>3, <2>3
    DEF SubmitLocally, SubmitLocallyRaises, Submit, SubmitRaises, LeaveSubmit
  <2>4. CASE CheckPool(t) \/ CreatePool(t) \/ ReturnPool(t)
    BY <1>1, <1>2, <1>3, <2>4 DEF CheckPool, CreatePool, ReturnPool
  <2> QED
    BY <2>1, <2>2, <2>3, <2>4
    DEF ThreadStep, Begin, Rollback, Commit, ExecuteOnCommit, Deliver, DeliverRaises,
        DeliverEagerlyRaises, DeliverEagerly, HooksDone, HooksRaise, BodyCommits, TaskReturns,
        TaskUnsaved, TaskFails, TaskRetries, TaskRaises, TaskEscapes, Escapes, poolVars
<1> DEFINE Apart ==
      /\ \A u \in Threads : \A c \in CallsOf(hooks'[u]) : c \notin settled' /\ fate'[c] # "new"
      /\ \A u, v \in Threads : u # v => CallsOf(hooks'[u]) \cap CallsOf(hooks'[v]) = {}
      /\ \A c \in settled' : fate'[c] # "new"
<1>6. Apart
  <2>1. CASE UNCHANGED <<hooks, settled>>
    BY <1>2, <1>3, <1>4, <2>1
  <2>2. CASE hooks' = [hooks EXCEPT ![t] = <<>>] /\ UNCHANGED settled
    <3>1. CallsOf(hooks'[t]) = {} /\ \A u \in Threads \ {t} : hooks'[u] = hooks[u]
      BY <1>3, <2>2, CallsOfFacts
    <3> QED
      BY <1>2, <1>3, <1>4, <2>2, <3>1
  <2>3. CASE hooks' = [hooks EXCEPT ![t] = <<>>] /\ settled' = settled \cup CallsOf(hooks[t])
    <3>1. CallsOf(hooks'[t]) = {} /\ \A u \in Threads \ {t} : hooks'[u] = hooks[u]
      BY <1>3, <2>3, CallsOfFacts
    <3> QED
      BY <1>2, <1>3, <1>4, <2>3, <3>1
  <2>4. ASSUME NEW c \in Calls, fate[c] = "new", SetFates({c}, "hooked"),
               hooks' = [hooks EXCEPT ![t] = Append(@, [call |-> c, n |-> 0])], UNCHANGED settled
        PROVE  Apart
    <3>1. [call |-> c, n |-> 0] \in Message /\ [call |-> c, n |-> 0].call = c
      BY DispatchAssumption DEF Message
    <3>2. CallsOf(hooks'[t]) = CallsOf(hooks[t]) \cup {c}
      BY <1>3, <2>4, <3>1, CallsOfFacts
    <3>3. \A u \in Threads \ {t} : hooks'[u] = hooks[u]
      BY <1>3, <2>4
    <3>4. fate'[c] = "hooked"
      BY <2>4 DEF SetFates
    <3>5. settled' = settled /\ c \notin settled /\ \A u \in Threads : c \notin CallsOf(hooks[u])
      BY <1>2, <2>4
    <3>6. \A u \in Threads : \A d \in CallsOf(hooks'[u]) : d \notin settled' /\ fate'[d] # "new"
      BY <1>2, <1>3, <1>4, <3>2, <3>3, <3>4, <3>5, ZenonT(60)
    <3>7. \A u, v \in Threads : u # v => CallsOf(hooks'[u]) \cap CallsOf(hooks'[v]) = {}
      BY <1>2, <3>2, <3>3, <3>5
    <3>8. \A d \in settled' : fate'[d] # "new"
      BY <1>2, <1>3, <1>4, <3>5
    <3> QED
      BY <3>6, <3>7, <3>8
  <2>5. ASSUME NEW c \in Calls, fate[c] = "new", SetFates({c}, "hooked"),
               settled' = settled \cup {c}, UNCHANGED hooks
        PROVE  Apart
    <3>1. fate'[c] = "hooked"
      BY <2>5 DEF SetFates
    <3> QED
      BY <1>2, <1>3, <1>4, <2>5, <3>1
  <2> HIDE DEF Apart
  <2> QED
    BY <2>1, <2>2, <2>3, <2>4, <2>5, HookKinds
<1>7. OnlyAfterCommit'
  BY <1>1, <1>4 DEF OnlyAfterCommit
<1> QED
  BY <1>1, <1>5, <1>6, <1>7 DEF HookInv

(***************************************************************************)
(* The routes.                                                             *)
(***************************************************************************)
\* Only a hook is outermost, so a task frame is never alone on the stack.
LEMMA TasksAreInside ==
    ASSUME HookInv, NEW t \in Threads, stack[t] # <<>>, Top(t).kind # "hooks"
    PROVE  Len(stack[t]) \in Nat /\ Len(stack[t]) > 1
<1> DEFINE s == stack[t]
<1>1. Stacked(s, settled) /\ s # <<>> /\ Last(s).kind # "hooks"
  BY DEF HookInv, Top
<1> HIDE DEF s
<1>2. /\ Len(s) \in Nat /\ Len(s) >= 1
      /\ Len(s) = 1 => Last(s).kind = "hooks"
  <2>1. s \in Seq(Frames) /\ s[1].kind = "hooks"
    BY <1>1 DEF Stacked, Alternates
  <2>2. Len(s) \in Nat /\ Len(s) >= 1 /\ Last(s) = s[Len(s)]
    BY <1>1, <2>1, FrontFacts
  <2> QED
    BY <2>1, <2>2
<1>3. Len(s) # 1
  BY <1>1, <1>2
<1>4. \A n \in Nat : n >= 1 /\ n # 1 => n > 1
  OBVIOUS
<1> QED
  BY <1>2, <1>3, <1>4, Zenon DEF s

\* Off the eager route no step of a thread nests.
LEMMA DepthSteps ==
    ASSUME TypeInv, HookInv, NEW t \in Threads, ThreadStep(t), route # "eager",
           \A u \in Threads : Len(stack[u]) <= 1
    PROVE  \A u \in Threads : Len(stack'[u]) <= 1
<1>1. stack \in [Threads -> Seq(Frames)] /\ hooks[t] \in Seq(Message) /\ Stacked(stack[t], settled)
  BY DEF TypeInv, DispatchTypeOK, HookInv
<1>2. ASSUME NEW r, Len(r) <= 1, stack' = [stack EXCEPT ![t] = r]
      PROVE  \A u \in Threads : Len(stack'[u]) <= 1
  BY <1>1, <1>2
<1>3. CASE UNCHANGED stack
  BY <1>3
<1>4. ASSUME NEW f, Push(t, f), stack[t] = <<>> PROVE \A u \in Threads : Len(stack'[u]) <= 1
  <2>1. Len(Append(<<>>, f)) <= 1
    OBVIOUS
  <2> QED
    BY <1>2, <1>4, <2>1 DEF Push
<1>5. CASE Commit(t)
  BY <1>4, <1>5 DEF Commit
<1>6. CASE \E c \in Calls : ExecuteOnCommit(t, c)
  BY <1>3, <1>4, <1>6 DEF ExecuteOnCommit, InAtomic
<1>7. CASE Deliver(t) \/ DeliverRaises(t) \/ DeliverEagerlyRaises(t) \/ DeliverLocally(t)
  <2> DEFINE r == Append(Front(stack[t]), HookFrame(Tail(Last(stack[t]).todo)))
  <2>1. /\ stack[t] # <<>> /\ Last(stack[t]).kind = "hooks" /\ Last(stack[t]).todo # <<>>
        /\ stack' = [stack EXCEPT ![t] = r]
    BY <1>7 DEF Deliver, DeliverRaises, DeliverEagerlyRaises, DeliverLocally, Running, InFrame,
                Top, Todo, Advance, Replace
  <2>2. Len(r) = Len(stack[t])
    BY <1>1, <2>1, AdvanceFacts
  <2> HIDE DEF r
  <2> QED
    BY <1>2, <2>1, <2>2
<1>8. CASE HooksDone(t) \/ HooksRaise(t)
  <2>1. stack[t] # <<>> /\ stack' = [stack EXCEPT ![t] = Front(stack[t])]
    BY <1>8 DEF HooksDone, HooksRaise, Running, InFrame, Pop
  <2>2. Len(stack[t]) \in Nat /\ Len(Front(stack[t])) = Len(stack[t]) - 1
    BY <1>1, <2>1, PopFacts
  <2>3. Len(Front(stack[t])) <= 1
    BY <2>2
  <2> QED
    BY <1>2, <2>1, <2>3
<1>9. CASE \/ BodyCommits(t) \/ TaskReturns(t) \/ TaskUnsaved(t)
           \/ TaskFails(t) \/ TaskRetries(t) \/ TaskRaises(t) \/ TaskEscapes(t)
  <2>1. stack[t] # <<>> /\ Top(t).kind # "hooks"
    BY <1>9 DEF BodyCommits, TaskReturns, TaskUnsaved, TaskFails, TaskRetries, TaskRaises,
                TaskEscapes, Escapes, Fails, InFrame
  <2>2. Len(stack[t]) \in Nat /\ Len(stack[t]) > 1
    BY <2>1, TasksAreInside
  <2> QED
    BY <2>2
<1> QED
  BY <1>3, <1>5, <1>6, <1>7, <1>8, <1>9
  DEF ThreadStep, Begin, Rollback, DeliverEagerly, SubmitLocally, SubmitLocallyRaises, dispatchVars

\* A step of a thread keeps to its route.
LEMMA RouteSteps ==
    ASSUME TypeInv, HookInv, RouteInv, NEW t \in Threads, ThreadStep(t)
    PROVE  RouteInv'
<1>0. /\ raising \in [Threads -> BOOLEAN] /\ fate \in [Calls -> Fates]
      /\ step \in [Threads -> {"out", "check", "create", "return", "submit"}]
  BY DEF TypeInv, DispatchTypeOK, PoolTypeOK
<1>1. route' = route
  BY DEF ThreadStep, Begin, Rollback, Commit, ExecuteOnCommit, Deliver, DeliverRaises,
         DeliverEagerlyRaises, DeliverLocally, DeliverEagerly, SubmitLocally, SubmitLocallyRaises,
         HooksDone, HooksRaise, BodyCommits, TaskReturns, TaskUnsaved, TaskFails, TaskRetries,
         TaskRaises, TaskEscapes, Escapes, dispatchVars
<1>2. route # "local" => UNCHANGED step
  BY DEF ThreadStep, Begin, Rollback, Commit, ExecuteOnCommit, Deliver, DeliverRaises,
         DeliverEagerlyRaises, DeliverLocally, DeliverEagerly, SubmitLocally, SubmitLocallyRaises,
         HooksDone, HooksRaise, BodyCommits, TaskReturns, TaskUnsaved, TaskFails, TaskRetries,
         TaskRaises, TaskEscapes, Escapes, poolVars, RouteInv, CheckPool, CreatePool, ReturnPool,
         Submit, SubmitRaises
<1>3. route # "eager" => \A u \in Threads : Len(stack'[u]) <= 1
  BY DepthSteps DEF RouteInv
<1>4. EagerFailuresContained'
  <2> SUFFICES ASSUME route = "eager"
               PROVE  /\ \A u \in Threads : raising'[u] => u \in escaped'
                      /\ (\E c \in Calls : fate'[c] = "skipped") => escaped' # {}
    BY <1>1 DEF EagerFailuresContained
  <2>1. escaped \subseteq escaped'
    BY DEF ThreadStep, Begin, Rollback, Commit, ExecuteOnCommit, Deliver, DeliverRaises,
        DeliverEagerlyRaises, DeliverLocally, DeliverEagerly, SubmitLocally, SubmitLocallyRaises,
        HooksDone, HooksRaise, BodyCommits, TaskReturns, TaskUnsaved, TaskFails, TaskRetries,
        TaskRaises, TaskEscapes, Escapes, dispatchVars
  <2>2. /\ \A u \in Threads : raising[u] => u \in escaped
        /\ (\E c \in Calls : fate[c] = "skipped") => escaped # {}
    BY DEF RouteInv, EagerFailuresContained
  <2>3. step[t] = "out"
    BY DEF RouteInv
  <2>4. \/ UNCHANGED raising
        \/ raising' = [raising EXCEPT ![t] = FALSE]
        \/ t \in escaped' /\ \E b : raising' = [raising EXCEPT ![t] = b]
    BY <2>1, <2>2, <2>3
    DEF ThreadStep, Begin, Rollback, Commit, ExecuteOnCommit, Deliver, DeliverRaises,
        DeliverEagerlyRaises, DeliverLocally, DeliverEagerly, SubmitLocally, SubmitLocallyRaises,
        HooksDone, HooksRaise, BodyCommits, TaskReturns, TaskUnsaved, TaskFails, TaskRetries,
        TaskRaises, TaskEscapes, Escapes, dispatchVars,
        SubmitRaises
  <2>5. \/ UNCHANGED fate
        \/ \E cs : SetFates(cs, "hooked") \/ SetFates(cs, "discarded") \/ SetFates(cs, "handed")
                   \/ SetFates(cs, "failed")
        \/ t \in escaped'
    BY <2>1, <2>2
    DEF ThreadStep, Begin, Rollback, Commit, ExecuteOnCommit, Deliver, DeliverRaises,
        DeliverEagerlyRaises, DeliverLocally, DeliverEagerly, SubmitLocally, SubmitLocallyRaises,
        HooksDone, HooksRaise, BodyCommits, TaskReturns, TaskUnsaved, TaskFails, TaskRetries,
        TaskRaises, TaskEscapes, Escapes, dispatchVars
  <2>6. (\E c \in Calls : fate'[c] = "skipped") => escaped' # {}
    BY <2>1, <2>2, <2>5 DEF SetFates
  <2>7. \A u \in Threads : raising'[u] => u \in escaped'
    BY <1>0, <2>1, <2>2, <2>4
  <2> QED
    BY <2>6, <2>7
<1> QED
  BY <1>1, <1>2, <1>3, <1>4 DEF RouteInv

(***************************************************************************)
(* The first results.                                                      *)
(***************************************************************************)
\* What the workers, the signals and the end of the interpreter leave alone.
LEMMA PoolStepFrame ==
    ASSUME PoolStep PROVE UNCHANGED <<step, current, mine>>
BY DEF PoolStep, WorkerStarts, WorkerEnds, WorkerDies, UnhandledSignal, HandleSignal, ShutdownPool,
       SignalAgain, Chain, Finish, Exit

StackInv == TypeInv /\ HookInv /\ RouteInv

\* The three invariants hold from the start.
LEMMA StackInit == DispatchInit => StackInv
<1> SUFFICES ASSUME DispatchInit PROVE StackInv
  OBVIOUS
<1> USE DEF DispatchInit, PoolInit
<1>1. \A t \in Threads : hooks[t] = <<>> /\ stack[t] = <<>> /\ Len(stack[t]) = 0
  OBVIOUS
<1>2. PoolTypeOK
  BY DEF PoolTypeOK, NoJob
<1>3. TypeInv
  <2>1. <<>> \in Seq(Message) /\ <<>> \in Seq(Frames)
    OBVIOUS
  <2>2. hooks \in [Threads -> Seq(Message)] /\ stack \in [Threads -> Seq(Frames)]
    BY <2>1
  <2>3. atomic \in [Threads -> BOOLEAN] /\ raising \in [Threads -> BOOLEAN]
    OBVIOUS
  <2>4. \A t \in Threads : \A i \in 1..Len(stack[t]) : stack[t][i] \in HookFrames \cup TaskFrames
    BY <1>1
  <2>5. fate \in [Calls -> Fates] /\ settled \subseteq Calls /\ logId \in Message \cup {None}
    BY DEF Fates
  <2> QED
    BY <1>2, <2>2, <2>3, <2>4, <2>5 DEF TypeInv, DispatchTypeOK
<1>4. HookInv
  BY <1>1, CallsOfFacts, StackedEmpty DEF HookInv, OnlyAfterCommit
<1>5. RouteInv
  BY <1>1 DEF RouteInv, EagerFailuresContained
<1> QED
  BY <1>3, <1>4, <1>5 DEF StackInv

\* They are inductive.
LEMMA StackStep == StackInv /\ [DispatchNext]_allVars => StackInv'
<1> SUFFICES ASSUME StackInv, [DispatchNext]_allVars PROVE StackInv'
  OBVIOUS
<1>1. TypeInv /\ HookInv /\ RouteInv
  BY DEF StackInv
<1>2. ASSUME NEW t \in Threads, ThreadStep(t) PROVE StackInv'
  BY <1>1, <1>2, ThreadTypes, HookSteps, RouteSteps DEF StackInv
<1>3. CASE UNCHANGED dispatchVars /\ UNCHANGED <<step, current, mine>> /\ PoolTypeOK'
  <2>1. TypeInv'
    BY <1>1, <1>3 DEF TypeInv, DispatchTypeOK, dispatchVars
  <2>2. HookInv'
    <3>1. /\ stack' = stack /\ settled' = settled /\ hooks' = hooks /\ fate' = fate
          /\ step' = step /\ current' = current
      BY <1>3 DEF dispatchVars
    <3>2. OnlyAfterCommit'
      BY <1>1, <3>1 DEF HookInv, OnlyAfterCommit
    <3>3. \A t \in Threads : Stacked(stack'[t], settled')
      BY <1>1, <3>1 DEF HookInv
    <3>4. /\ \A t \in Threads : \A c \in CallsOf(hooks'[t]) : c \notin settled' /\ fate'[c] # "new"
          /\ \A t, u \in Threads : t # u => CallsOf(hooks'[t]) \cap CallsOf(hooks'[u]) = {}
      BY <1>1, <3>1 DEF HookInv
    <3>5. /\ \A t \in Threads : step'[t] # "out" => current'[t] \in settled'
          /\ \A c \in settled' : fate'[c] # "new"
      BY <1>1, <3>1 DEF HookInv
    <3> QED
      BY <3>2, <3>3, <3>4, <3>5 DEF HookInv
  <2>3. RouteInv'
    BY <1>1, <1>3 DEF RouteInv, EagerFailuresContained, dispatchVars
  <2> QED
    BY <2>1, <2>2, <2>3 DEF StackInv
<1>4. CASE PoolStep /\ UNCHANGED dispatchVars
  BY <1>1, <1>3, <1>4, PoolStepFrame, PoolStepTypes DEF TypeInv, DispatchTypeOK
<1>5. CASE UNCHANGED allVars
  BY <1>1, <1>3, <1>5 DEF allVars, poolVars, PoolTypeOK, TypeInv, DispatchTypeOK
<1> QED
  BY <1>2, <1>4, <1>5 DEF DispatchNext, Gone

\* Types, hooks and routes, in every state of every behaviour.
THEOREM Stacks == DispatchSpec => []StackInv
BY StackInit, StackStep, PTL DEF DispatchSpec

\* Every variable of the dispatch and of the pool keeps its type.
THEOREM DispatchTypeCorrect == DispatchSpec => []DispatchTypeOK
<1>1. StackInv => DispatchTypeOK
  BY DEF StackInv, TypeInv
<1> QED
  BY <1>1, Stacks, PTL

\* Nothing is sent, submitted or run for a transaction that has not committed.
THEOREM NothingBeforeCommit == DispatchSpec => []OnlyAfterCommit
<1>1. StackInv => OnlyAfterCommit
  BY DEF StackInv, HookInv
<1> QED
  BY <1>1, Stacks, PTL

\* An eager task whose error is recorded disturbs neither its caller nor the hooks after
\* it; what does is an error that leaves execute_immediately().
THEOREM EagerFailuresAreContained == DispatchSpec => []EagerFailuresContained
<1>1. StackInv => EagerFailuresContained
  BY DEF StackInv, RouteInv
<1> QED
  BY <1>1, Stacks, PTL

\* The frames of one call count upwards, so there are at most MAX_RETRIES + 1 of them.
LEMMA DepthOfStack ==
    ASSUME StackInv, NEW t \in Threads, NEW c \in Calls
    PROVE  Cardinality(TaskFramesOf(t, c)) <= MAX_RETRIES + 1
<1> DEFINE S == TaskFramesOf(t, c)
           T == 0..MAX_RETRIES
           f == [i \in S |-> stack[t][i].msg.n]
<1>1. Stacked(stack[t], settled) /\ stack[t] \in Seq(Frames)
  BY DEF StackInv, HookInv, Stacked
<1>2. ASSUME NEW i \in S
      PROVE  /\ i \in 1..Len(stack[t]) /\ stack[t][i].kind # "hooks"
             /\ stack[t][i].msg \in Message /\ stack[t][i].msg.call = c
             /\ Messages(stack[t][i]) = {stack[t][i].msg}
  <2>1. i \in 1..Len(stack[t]) /\ stack[t][i].kind # "hooks" /\ stack[t][i].msg.call = c
    BY <1>2 DEF TaskFramesOf
  <2>2. stack[t][i] \in Frames
    BY <1>1, <2>1, ElementOfSeq
  <2> QED
    BY <2>1, <2>2, FrameFacts
<1>3. ASSUME NEW i \in S, NEW j \in S, i < j PROVE stack[t][i].msg.n < stack[t][j].msg.n
  <2>1. i \in 1..Len(stack[t]) /\ j \in 1..Len(stack[t]) /\ i \in 1..j - 1
    BY <1>1, <1>2, <1>3, LenProperties
  <2> QED
    BY <1>1, <1>2, <2>1 DEF Stacked, Climbs
<1>4. \A i \in S : stack[t][i].msg.n \in T
  BY <1>2 DEF Message
<1>5. f \in [S -> T] /\ \A i \in S : f[i] = stack[t][i].msg.n
  BY <1>4
<1>6. ASSUME NEW i \in S, NEW j \in S, f[i] = f[j] PROVE i = j
  <2>1. i \in Nat /\ j \in Nat /\ f[i] \in Nat /\ f[j] \in Nat
    BY <1>1, <1>2, <1>5, LenProperties, DispatchAssumption
  <2>2. ~(i < j) /\ ~(j < i)
    <3> HIDE DEF f, S
    <3> QED
      BY <1>3, <1>5, <1>6, <2>1
  <2> QED
    BY <2>1, <2>2
<1>7. f \in Injection(S, T)
  <2> HIDE DEF f, S, T
  <2> QED
    BY <1>5, <1>6 DEF Injection, IsInjective
<1>8. IsFiniteSet(T) /\ Cardinality(T) = MAX_RETRIES + 1
  BY DispatchAssumption, FS_Interval
<1>9. Cardinality(S) <= Cardinality(T)
  <2> HIDE DEF f, S, T
  <2> QED
    BY <1>7, <1>8, FS_Injection
<1> QED
  BY <1>8, <1>9

\* Eager retries nest no deeper than MAX_RETRIES.
THEOREM EagerDepthIsBounded == DispatchSpec => []EagerDepthBounded
<1>1. StackInv => EagerDepthBounded
  BY DepthOfStack DEF EagerDepthBounded
<1> QED
  BY <1>1, Stacks, PTL

(***************************************************************************)
(* The id in the logs.                                                     *)
(***************************************************************************)
\* A stack is inside a task exactly when it has more than one frame; the frame on top
\* is a task only then, and a run of hooks with a task below it is at least third.
LEMMA DeepFacts ==
    ASSUME NEW cs, NEW s, Stacked(s, cs)
    PROVE  /\ Len(s) \in Nat
           /\ s # <<>> => Len(s) >= 1 /\ Last(s) = s[Len(s)] /\ Last(s) \in Frames
           /\ (\E i \in 1..Len(s) : s[i].kind # "hooks") <=> Len(s) > 1
           /\ s # <<>> /\ Last(s).kind # "hooks" => Len(s) > 1
           /\ s # <<>> /\ Last(s).kind = "hooks" /\ Len(s) > 1 => Len(s) > 2
<1> DEFINE n == Len(s)
<1>1. s \in Seq(Frames) /\ n \in Nat
  BY LenProperties DEF Stacked
<1>2. s # <<>> => n >= 1 /\ Last(s) = s[n] /\ Last(s) \in Frames
  BY <1>1, FrontFacts
<1>3. /\ s # <<>> => s[1].kind = "hooks"
      /\ \A i \in 1..n - 1 : (s[i].kind = "hooks") # (s[i + 1].kind = "hooks")
  BY DEF Stacked, Alternates
<1>4. s = <<>> => n = 0
  OBVIOUS
<1> HIDE DEF n
<1>5. n >= 1 => s # <<>>
  BY <1>4
<1>6. n > 1 => s[2].kind # "hooks" /\ 2 \in 1..n
  <2> SUFFICES ASSUME n > 1 PROVE s[2].kind # "hooks" /\ 2 \in 1..n
    OBVIOUS
  <2>1. 1 \in 1..n - 1 /\ 2 \in 1..n /\ 1 + 1 = 2
    BY <1>1
  <2>2. (s[1].kind = "hooks") # (s[1 + 1].kind = "hooks")
    BY <1>3, <2>1
  <2> QED
    BY <1>1, <1>3, <1>5, <2>1, <2>2
<1>7. (\E i \in 1..n : s[i].kind # "hooks") <=> n > 1
  <2>1. ASSUME NEW i \in 1..n, s[i].kind # "hooks" PROVE n > 1
    <3>1. i # 1
      BY <1>1, <1>3, <1>5, <2>1
    <3> QED
      BY <1>1, <2>1, <3>1
  <2> QED
    BY <1>6, <2>1
<1>8. s # <<>> /\ Last(s).kind # "hooks" => n > 1
  <2>1. s # <<>> => n \in 1..n
    BY <1>1, <1>2
  <2> QED
    BY <1>2, <1>7, <2>1
<1>9. s # <<>> /\ Last(s).kind = "hooks" /\ n > 1 => n > 2
  <2>1. s # <<>> /\ Last(s).kind = "hooks" /\ n > 1 => n # 2
    BY <1>2, <1>6
  <2> QED
    BY <1>1, <2>1
<1> QED
  BY <1>1, <1>2, <1>7, <1>8, <1>9 DEF n

\* One thread's stack changes: what has to be shown for LogInv.
LEMMA LogOne ==
    ASSUME StackInv, LogInv, NEW t \in Threads, NEW r,
           stack' = [stack EXCEPT ![t] = r],
           overlapped => overlapped',
           Len(r) > 1 => \/ Len(stack[t]) > 1
                         \/ ~overlapped' => \A u \in Threads \ {t} : Len(stack[u]) <= 1,
           (\A u \in Threads \ {t} : Len(stack[u]) <= 1) /\ Len(r) <= 1 => logId' = None,
           \/ logId' = logId
           \/ ~overlapped' => \A u \in Threads \ {t} : Len(stack[u]) <= 1,
           ~overlapped' => OwnLog(t)'
    PROVE  LogInv'
<1>1. stack \in [Threads -> Seq(Frames)] /\ \A u \in Threads : Stacked(stack[u], settled)
  BY DEF StackInv, TypeInv, HookInv
<1>2. stack'[t] = r /\ \A u \in Threads \ {t} : stack'[u] = stack[u]
  BY <1>1
<1>3. \A u \in Threads : Len(stack[u]) \in Nat
  BY <1>1, LenProperties
<1>4. ASSUME ~overlapped', NEW u \in Threads, NEW v \in Threads,
             Len(stack'[u]) > 1, Len(stack'[v]) > 1
      PROVE  u = v
  <2>0. ~overlapped
    BY <1>4
  <2>1. CASE u = t /\ v # t
    <3>1. Len(r) > 1 /\ Len(stack[v]) > 1
      BY <1>2, <1>4, <2>1
    <3>2. ~(Len(stack[v]) <= 1)
      BY <1>3, <3>1
    <3> QED
      BY <1>4, <2>0, <2>1, <3>1, <3>2 DEF LogInv
  <2>2. CASE v = t /\ u # t
    <3>1. Len(r) > 1 /\ Len(stack[u]) > 1
      BY <1>2, <1>4, <2>2
    <3>2. ~(Len(stack[u]) <= 1)
      BY <1>3, <3>1
    <3> QED
      BY <1>4, <2>0, <2>2, <3>1, <3>2 DEF LogInv
  <2>3. CASE u # t /\ v # t
    BY <1>2, <1>4, <2>0, <2>3 DEF LogInv
  <2> QED
    BY <2>1, <2>2, <2>3
<1>5. (\A u \in Threads : Len(stack'[u]) <= 1) => logId' = None
  BY <1>2
<1>6. ASSUME ~overlapped', NEW u \in Threads, u # t PROVE OwnLog(u)'
  <2>0. ~overlapped /\ OwnLog(u)
    BY <1>6 DEF LogInv
  <2>1. stack'[u] = stack[u]
    BY <1>2, <1>6
  <2>2. CASE logId' = logId
    BY <2>0, <2>1, <2>2 DEF OwnLog, InFrame, Top, Below
  <2>3. CASE Len(stack[u]) <= 1
    <3>1. /\ stack[u] # <<>> /\ Last(stack[u]).kind # "hooks" => Len(stack[u]) > 1
          /\ Len(stack[u]) \in Nat
      BY <1>1, DeepFacts
    <3>2. ~(Len(stack[u]) > 1)
      BY <2>3, <3>1
    <3> QED
      BY <2>1, <3>1, <3>2 DEF OwnLog, InFrame, Top
  <2> QED
    BY <1>6, <2>2, <2>3
<1>7. ~overlapped' => \A u \in Threads : OwnLog(u)'
  BY <1>6
<1> QED
  BY <1>4, <1>5, <1>7 DEF LogInv

\* The id a thread finds is OwnLog of its new stack.
LEMMA OwnLogOf ==
    ASSUME NEW t \in Threads, NEW r, stack' = [stack EXCEPT ![t] = r], stack'[t] = r,
           r # <<>> =>
             /\ Last(r).kind = "body" => logId' = Last(r).msg
             /\ Last(r).kind \in {"commit", "retry"} => logId' \in {Last(r).msg, None}
             /\ Last(r).kind = "hooks" /\ Len(r) > 1 => logId' \in {r[Len(r) - 1].msg, None}
    PROVE  OwnLog(t)'
BY DEF OwnLog, InFrame, Top, Below

\* A step of a thread keeps the ids apart.
LEMMA LogSteps ==
    ASSUME StackInv, LogInv, NEW t \in Threads, ThreadStep(t)
    PROVE  LogInv'
<1> DEFINE s == stack[t]
<1>1. /\ stack \in [Threads -> Seq(Frames)] /\ \A u \in Threads : Stacked(stack[u], settled)
      /\ hooks[t] \in Seq(Message) /\ overlapped \in BOOLEAN
  BY DEF StackInv, TypeInv, DispatchTypeOK, HookInv
<1>2. /\ Stacked(s, settled) /\ Len(s) \in Nat
      /\ s # <<>> => Len(s) >= 1 /\ Last(s) = s[Len(s)] /\ Last(s) \in Frames
      /\ s # <<>> /\ Last(s).kind # "hooks" => Len(s) > 1
      /\ s # <<>> /\ Last(s).kind = "hooks" /\ Len(s) > 1 => Len(s) > 2
  BY <1>1, DeepFacts
<1>3. ASSUME NEW r, stack' = [stack EXCEPT ![t] = r] PROVE stack'[t] = r
  BY <1>1, <1>3
<1>4. ~overlapped => OwnLog(t)
  BY DEF LogInv
<1>5. (\A u \in Threads \ {t} : Len(stack[u]) <= 1) /\ Len(s) <= 1 => logId = None
  BY DEF LogInv
<1>6. \A u \in Threads : Len(stack[u]) \in Nat
  BY <1>1, LenProperties
<1>7. CASE UNCHANGED <<stack, logId, overlapped>>
  BY <1>7 DEF LogInv, OwnLog, InFrame, Top, Below
<1>8. ASSUME s = <<>>, UNCHANGED <<logId, overlapped>>, NEW q \in Seq(Message),
             Push(t, HookFrame(q))
      PROVE  LogInv'
  <2> DEFINE r == Append(<<>>, HookFrame(q))
  <2>1. stack' = [stack EXCEPT ![t] = r] /\ stack'[t] = r
    BY <1>3, <1>8 DEF Push
  <2>2. Len(r) = 1 /\ Last(r) = HookFrame(q) /\ HookFrame(q).kind = "hooks" /\ Len(s) = 0
    BY <1>8 DEF Last, HookFrame
  <2> HIDE DEF r
  <2>3. OwnLog(t)'
    <3>1. Last(r).kind = "hooks" /\ ~(Len(r) > 1)
      BY <2>2
    <3> QED
      BY <2>1, <3>1, OwnLogOf
  <2>4. Len(s) <= 1 /\ ~(Len(r) > 1)
    BY <2>2
  <2>5. logId' = logId /\ overlapped' = overlapped
    BY <1>8
  <2> QED
    BY <1>5, <2>1, <2>3, <2>4, <2>5, LogOne
<1>9. CASE Deliver(t) \/ DeliverRaises(t) \/ DeliverLocally(t)
  <2> DEFINE r == Append(Front(s), HookFrame(Tail(Last(s).todo)))
  <2>1. /\ s # <<>> /\ Last(s).kind = "hooks" /\ Last(s).todo # <<>>
        /\ stack' = [stack EXCEPT ![t] = r]
        /\ UNCHANGED <<logId, overlapped>>
    BY <1>9 DEF Deliver, DeliverRaises, DeliverLocally, Running, InFrame, Top, Todo, Advance,
                Replace
  <2>2. /\ Len(r) = Len(s) /\ r # <<>> /\ Last(r) = HookFrame(Tail(Last(s).todo))
        /\ \A i \in 1..Len(s) - 1 : r[i] = s[i]
    <3>1. Stacked(s, settled) /\ s # <<>> /\ Last(s).kind = "hooks" /\ Last(s).todo # <<>>
      BY <1>2, <2>1
    <3>2. r = Append(Front(s), HookFrame(Tail(Last(s).todo)))
      OBVIOUS
    <3> HIDE DEF r, s
    <3>3. Len(r) = Len(s) /\ r # <<>>
      BY <3>1, <3>2, AdvanceFacts
    <3>4. Last(r) = HookFrame(Tail(Last(s).todo))
      BY <3>1, <3>2, AdvanceFacts
    <3>5. \A i \in 1..Len(s) - 1 : r[i] = s[i]
      BY <3>1, <3>2, AdvanceFacts
    <3> QED
      BY <3>3, <3>4, <3>5
  <2> HIDE DEF r
  <2>3. ASSUME ~overlapped' PROVE OwnLog(t)'
    <3>1. Last(r).kind = "hooks"
      BY <2>2 DEF HookFrame
    <3>2. Len(r) > 1 => Len(r) - 1 \in 1..Len(s) - 1
      BY <1>2, <2>2
    <3>3. Len(r) > 1 => r[Len(r) - 1] = Below(t)
      BY <2>2, <3>2 DEF Below
    <3>4. Len(s) > 1 => logId \in {Below(t).msg, None}
      BY <1>4, <2>1, <2>3 DEF OwnLog, InFrame, Top
    <3> QED
      BY <1>3, <2>1, <2>2, <3>1, <3>3, <3>4, OwnLogOf
  <2> QED
    BY <1>5, <2>1, <2>2, <2>3, LogOne
<1>10. CASE DeliverEagerly(t)
  <2> DEFINE m == Head(Last(s).todo)
             b == [kind |-> "body", msg |-> m]
             r == Front(s) \o <<HookFrame(Tail(Last(s).todo)), b>>
  <2>1. /\ s # <<>> /\ Last(s).kind = "hooks" /\ Last(s).todo # <<>>
        /\ stack' = [stack EXCEPT ![t] = r]
        /\ logId' = m
    BY <1>10 DEF DeliverEagerly, Running, InFrame, Top, Todo, NextMessage
  <2>2. /\ Len(r) = Len(s) + 1 /\ r # <<>> /\ Last(r) = b
    BY <1>2, <2>1, EagerFacts
  <2>3. b.kind = "body" /\ b.msg = m
    OBVIOUS
  <2> HIDE DEF r, b, m
  <2>4. OwnLog(t)'
    BY <1>3, <2>1, <2>2, <2>3, OwnLogOf
  <2>5. overlapped' = (overlapped \/ \E u \in Threads \ {t} : Inside(u))
    BY <1>10 DEF DeliverEagerly
  <2>6. overlapped => overlapped'
    BY <2>5, Zenon
  <2>7. ASSUME ~overlapped', NEW u \in Threads \ {t} PROVE Len(stack[u]) <= 1
    <3>1. ~Inside(u)
      BY <2>5, <2>7, Zenon
    <3>2. Inside(u) <=> Len(stack[u]) > 1
      BY <1>1, DeepFacts DEF Inside
    <3> QED
      BY <1>6, <3>1, <3>2
  <2>8. Len(r) > 1
    BY <1>2, <2>1, <2>2
  <2>9. ~(Len(r) <= 1)
    BY <1>2, <2>2, <2>8
  <2> QED
    BY <2>1, <2>4, <2>6, <2>7, <2>9, LogOne
<1>11. CASE HooksDone(t) \/ HooksRaise(t)
  <2> DEFINE r == Front(s)
  <2>1. /\ s # <<>> /\ Last(s).kind = "hooks"
        /\ stack' = [stack EXCEPT ![t] = r]
        /\ UNCHANGED <<logId, overlapped>>
    BY <1>11 DEF HooksDone, HooksRaise, Running, InFrame, Top, Pop
  <2>2. /\ Len(r) = Len(s) - 1
        /\ r # <<>> => /\ Last(r) = s[Len(s) - 1] /\ Last(r) \in Frames
                       /\ Last(r).kind # "hooks" /\ Last(r).kind # "body"
        /\ r = <<>> <=> Len(s) = 1
    BY <1>2, <2>1, PopFacts
  <2> HIDE DEF r
  <2>3. ASSUME ~overlapped' PROVE OwnLog(t)'
    <3>1. ASSUME r # <<>> PROVE logId' \in {Last(r).msg, None}
      <4>1. Len(s) > 1
        BY <1>2, <2>1, <2>2, <3>1
      <4>2. logId \in {Below(t).msg, None}
        BY <1>4, <2>1, <2>3, <4>1 DEF OwnLog, InFrame, Top
      <4> QED
        BY <2>1, <2>2, <3>1, <4>2 DEF Below
    <3> QED
      BY <1>3, <2>1, <2>2, <3>1, OwnLogOf
  <2>4. Len(r) > 1 => Len(s) > 1
    BY <1>2, <2>2
  <2>5. Len(r) <= 1 => Len(s) <= 1
    BY <1>2, <2>1, <2>2
  <2> QED
    BY <1>5, <2>1, <2>3, <2>4, <2>5, LogOne
<1>12. CASE TaskReturns(t) \/ TaskUnsaved(t) \/ TaskFails(t) \/ TaskRaises(t) \/ TaskEscapes(t)
  <2> DEFINE r == Front(s)
  <2>1. /\ s # <<>> /\ Last(s).kind # "hooks"
        /\ stack' = [stack EXCEPT ![t] = r]
        /\ logId' = None /\ UNCHANGED overlapped
    BY <1>12 DEF TaskReturns, TaskUnsaved, TaskFails, TaskRaises, TaskEscapes, Escapes, Fails,
                 InFrame, Top, Pop, Forget
  <2>2. r # <<>> => Last(r).kind = "hooks"
    BY <1>2, <2>1, PopFacts
  <2> HIDE DEF r
  <2>3. OwnLog(t)'
    BY <1>3, <2>1, <2>2, OwnLogOf
  <2>4. Len(s) > 1
    BY <1>2, <2>1
  <2>5. ASSUME ~overlapped', NEW u \in Threads \ {t} PROVE Len(stack[u]) <= 1
    <3>1. ~(Len(stack[u]) > 1)
      BY <2>1, <2>4, <2>5 DEF LogInv
    <3> QED
      BY <1>6, <3>1
  <2> QED
    BY <2>1, <2>3, <2>4, <2>5, LogOne
<1>13. ASSUME NEW q \in Seq(Message), s # <<>>,
              Last(s).kind \in {"body", "commit"}, UNCHANGED <<logId, overlapped>>,
              NEW r, stack' = [stack EXCEPT ![t] = r], Len(r) = Len(s) + 1, r # <<>>,
              Last(r) = HookFrame(q), r[Len(r) - 1].msg = Last(s).msg
       PROVE  LogInv'
  <2>1. Len(s) > 1
    BY <1>2, <1>13
  <2>2. ASSUME ~overlapped' PROVE OwnLog(t)'
    <3>1. logId \in {Last(s).msg, None}
      BY <1>4, <1>13, <2>2 DEF OwnLog, InFrame, Top
    <3>2. Last(r).kind = "hooks"
      BY <1>13 DEF HookFrame
    <3> QED
      BY <1>3, <1>13, <3>1, <3>2, OwnLogOf
  <2>3. ~(Len(r) <= 1)
    BY <1>2, <1>13, <2>1
  <2> QED
    BY <1>13, <2>1, <2>2, <2>3, LogOne
<1>14. CASE BodyCommits(t) \/ TaskRetries(t)
  <2>1. PICK q \in Seq(Message), r \in Seq(Frames) :
          stack' = [stack EXCEPT ![t] = r] /\ Nests(r, s, q)
    BY <1>14, NestFacts DEF StackInv
  <2>2. s # <<>> /\ Last(s).kind \in {"body", "commit"} /\ UNCHANGED <<logId, overlapped>>
    BY <1>14 DEF BodyCommits, TaskRetries, Fails, InFrame, Top
  <2> QED
    BY <1>13, <2>1, <2>2 DEF Nests
<1>15. CASE Commit(t)
  BY <1>1, <1>8, <1>15 DEF Commit
<1>16. ASSUME NEW c \in Calls, ExecuteOnCommit(t, c) PROVE LogInv'
  <2>1. <<[call |-> c, n |-> 0]>> \in Seq(Message)
    BY DispatchAssumption DEF Message
  <2> QED
    BY <1>7, <1>8, <1>16, <2>1 DEF ExecuteOnCommit, InAtomic
<1>17. CASE DeliverEagerlyRaises(t)
  <2> DEFINE r == Append(Front(s), HookFrame(Tail(Last(s).todo)))
  <2>1. /\ s # <<>> /\ Last(s).kind = "hooks" /\ Last(s).todo # <<>>
        /\ stack' = [stack EXCEPT ![t] = r]
        /\ logId' = None
    BY <1>17 DEF DeliverEagerlyRaises, Running, InFrame, Top, Todo, Advance, Replace
  <2>2. Len(r) = Len(s) /\ Last(r) = HookFrame(Tail(Last(s).todo))
    <3> HIDE DEF s
    <3> QED
      BY <1>2, <2>1, AdvanceFacts
  <2>3. Last(r).kind = "hooks"
    BY <2>2 DEF HookFrame
  <2> HIDE DEF r
  <2>4. OwnLog(t)'
    BY <1>3, <2>1, <2>3, OwnLogOf
  <2>5. overlapped' = (overlapped \/ \E u \in Threads \ {t} : Inside(u))
    BY <1>17 DEF DeliverEagerlyRaises
  <2>6. overlapped => overlapped'
    BY <2>5, Zenon
  <2>7. ASSUME ~overlapped', NEW u \in Threads \ {t} PROVE Len(stack[u]) <= 1
    <3>1. ~Inside(u)
      BY <2>5, <2>7, Zenon
    <3>2. Inside(u) <=> Len(stack[u]) > 1
      BY <1>1, DeepFacts DEF Inside
    <3> QED
      BY <1>6, <3>1, <3>2
  <2> QED
    BY <2>1, <2>2, <2>4, <2>6, <2>7, LogOne
<1> QED
  BY <1>7, <1>9, <1>10, <1>11, <1>12, <1>14, <1>15, <1>16, <1>17
  DEF ThreadStep, Begin, Rollback, SubmitLocally, SubmitLocallyRaises, dispatchVars

\* The ids hold from the start and are inductive on top of the stacks.
THEOREM Logs == DispatchSpec => []LogInv
<1>1. DispatchInit => LogInv
  BY DEF DispatchInit, LogInv, OwnLog, InFrame
<1>2. StackInv /\ LogInv /\ [DispatchNext]_allVars => LogInv'
  <2> SUFFICES ASSUME StackInv, LogInv, [DispatchNext]_allVars PROVE LogInv'
    OBVIOUS
  <2>1. ASSUME NEW t \in Threads, ThreadStep(t) PROVE LogInv'
    BY <2>1, LogSteps
  <2>2. CASE UNCHANGED dispatchVars
    BY <2>2 DEF dispatchVars, LogInv, OwnLog, InFrame, Top, Below
  <2> QED
    BY <2>1, <2>2 DEF DispatchNext, Gone, allVars
<1> QED
  BY <1>1, <1>2, Stacks, PTL DEF DispatchSpec

\* The id in the logs is the running task's own, or none, and is cleared in the end.
THEOREM LogIdsAreOwn == DispatchSpec => []LogIdOwn
<1>1. StackInv /\ LogInv => LogIdOwn
  <2> SUFFICES ASSUME StackInv, LogInv PROVE LogIdOwn
    OBVIOUS
  <2>1. ASSUME NEW t \in Threads PROVE ~Inside(t) => Len(stack[t]) <= 1
    <3>1. Stacked(stack[t], settled)
      BY DEF StackInv, HookInv
    <3>2. Len(stack[t]) \in Nat /\ (Inside(t) <=> Len(stack[t]) > 1)
      BY <3>1, DeepFacts DEF Inside
    <3> QED
      BY <3>2
  <2> QED
    BY <2>1 DEF LogInv, OwnLog, LogIdOwn
<1> QED
  BY <1>1, Stacks, Logs, PTL

(***************************************************************************)
(* The pool.                                                               *)
(***************************************************************************)
\* A sequence of messages whose calls are distinct, one longer or one shorter.
LEMMA DistinctFacts ==
    ASSUME NEW q \in Seq(Message), Distinct(q)
    PROVE  /\ \A m \in Message : m.call \notin CallsOf(q) => Distinct(Append(q, m))
           /\ q # <<>> => /\ Distinct(Tail(q)) /\ CallsOf(Tail(q)) \subseteq CallsOf(q)
                          /\ Head(q).call \in CallsOf(q) /\ Head(q).call \notin CallsOf(Tail(q))
<1> DEFINE n == Len(q)
<1>0. n \in Nat
  BY LenProperties
<1>1. ASSUME NEW m \in Message, m.call \notin CallsOf(q) PROVE Distinct(Append(q, m))
  <2> DEFINE r == Append(q, m)
  <2>1. Len(r) = n + 1 /\ r[n + 1] = m /\ \A i \in 1..n : r[i] = q[i]
    BY AppendFacts
  <2>2. \A i \in 1..n : q[i].call # m.call
    BY <1>1 DEF CallsOf
  <2>3. \A i, j \in 1..n : q[i].call = q[j].call => i = j
    BY DEF Distinct
  <2> HIDE DEF r, n
  <2> SUFFICES ASSUME NEW i \in 1..Len(r), NEW j \in 1..Len(r), r[i].call = r[j].call PROVE i = j
    BY DEF Distinct, r
  <2>4. (i \in 1..n \/ i = n + 1) /\ (j \in 1..n \/ j = n + 1)
    BY <1>0, <2>1
  <2> QED
    BY <2>1, <2>2, <2>3, <2>4
<1>2. ASSUME q # <<>>
      PROVE  /\ Distinct(Tail(q)) /\ CallsOf(Tail(q)) \subseteq CallsOf(q)
             /\ Head(q).call \in CallsOf(q) /\ Head(q).call \notin CallsOf(Tail(q))
  <2> DEFINE r == Tail(q)
  <2>1. n >= 1 /\ Len(r) = n - 1 /\ Head(q) = q[1] /\ \A i \in 1..n - 1 : r[i] = q[i + 1]
    BY <1>2, TailFacts
  <2>2. \A i, j \in 1..n : q[i].call = q[j].call => i = j
    BY DEF Distinct
  <2> HIDE DEF r, n
  <2>3. \A i \in 1..n - 1 : i + 1 \in 1..n /\ i + 1 # 1
    BY <1>0
  <2>4. 1 \in 1..n
    BY <1>0, <2>1
  <2>5. Distinct(r)
    <3> SUFFICES ASSUME NEW i \in 1..Len(r), NEW j \in 1..Len(r), r[i].call = r[j].call PROVE i = j
      BY DEF Distinct
    <3>1. i + 1 = j + 1
      BY <2>1, <2>2, <2>3
    <3> QED
      BY <1>0, <2>1, <3>1
  <2>6. \A i \in 1..Len(r) : r[i].call \in {q[k].call : k \in 1..n} /\ r[i].call # q[1].call
    BY <2>1, <2>2, <2>3, <2>4
  <2>7. /\ CallsOf(q) = {q[k].call : k \in 1..n}
        /\ CallsOf(r) = {r[k].call : k \in 1..Len(r)}
    BY DEF CallsOf, n
  <2>8. Head(q).call \in {q[k].call : k \in 1..n}
    BY <2>1, <2>4
  <2>9. CallsOf(r) \subseteq CallsOf(q) /\ Head(q).call \notin CallsOf(r)
    BY <2>1, <2>6, <2>7
  <2> QED
    BY <2>5, <2>7, <2>8, <2>9 DEF r
<1> QED
  BY <1>1, <1>2

\* What waits on the stack of a thread is settled.
LEMMA WaitingFacts ==
    ASSUME StackInv, NEW t \in Threads
    PROVE  Waiting(t) \in Seq(Message) /\ CallsOf(Waiting(t)) \subseteq settled
<1>1. CASE stack[t] = <<>>
  BY <1>1, CallsOfFacts DEF Waiting
<1>2. CASE stack[t] # <<>>
  <2> DEFINE s == stack[t]
             f == s[1]
  <2>1. Stacked(s, settled) /\ s \in Seq(Frames) /\ f.kind = "hooks"
    BY <1>2 DEF StackInv, HookInv, Stacked, Alternates
  <2>2. Len(s) \in Nat /\ Len(s) >= 1
    BY <1>2, <2>1, FrontFacts
  <2>3. 1 \in 1..Len(s)
    BY <2>2
  <2>4. f \in Frames
    BY <2>1, <2>3, ElementOfSeq
  <2>5. f.todo \in Seq(Message)
    BY <2>1, <2>4, FrameFacts
  <2>6. Messages(f) = {f.todo[i] : i \in 1..Len(f.todo)}
    BY <2>1 DEF Messages
  <2>7. \A i \in 1..Len(f.todo) : f.todo[i].call \in settled
    BY <2>1, <2>3, <2>6 DEF Stacked, Within
  <2>8. Waiting(t) = f.todo
    BY <1>2 DEF Waiting
  <2> QED
    BY <2>5, <2>7, <2>8 DEF CallsOf
<1> QED
  BY <1>1, <1>2

\* The queues of the threads after a step of t: as before, t's a new one q, or t's
\* without its first message, which is being submitted.
Requeued(t, q) ==
    /\ Waiting(t)' = q
    /\ \A u \in Threads \ {t} : Waiting(u)' = Waiting(u)

NewQueue(t, q) ==
    /\ Requeued(t, q) /\ UNCHANGED <<step, current, pools>>
    /\ Distinct(q) /\ CallsOf(q) \cap settled = {}

Submits(t) ==
    /\ Waiting(t) # <<>> /\ Requeued(t, Tail(Waiting(t))) /\ UNCHANGED pools
    /\ step[t] = "out"
    /\ step' = [step EXCEPT ![t] = "check"]
    /\ current' = [current EXCEPT ![t] = Head(Waiting(t)).call]

\* DeliverLocally takes the first message of the thread's queue.
LEMMA LocalSubmits ==
    ASSUME StackInv, route = "local", NEW t \in Threads, DeliverLocally(t)
    PROVE  Submits(t)
<1>a. /\ stack \in [Threads -> Seq(Frames)] /\ hooks[t] \in Seq(Message)
      /\ Stacked(stack[t], settled) /\ Len(stack[t]) <= 1 /\ Len(stack[t]) \in Nat
  BY LenProperties DEF StackInv, TypeInv, DispatchTypeOK, HookInv, RouteInv
<1>b. ASSUME NEW r, stack' = [stack EXCEPT ![t] = r]
      PROVE  /\ stack'[t] = r
             /\ \A u \in Threads \ {t} : Waiting(u)' = Waiting(u)
  BY <1>a, <1>b DEF Waiting
<1> DEFINE r == Append(Front(stack[t]), HookFrame(Tail(Last(stack[t]).todo)))
<1>1. /\ stack[t] # <<>> /\ Last(stack[t]).kind = "hooks" /\ Last(stack[t]).todo # <<>>
      /\ stack' = [stack EXCEPT ![t] = r]
      /\ step[t] = "out" /\ BeginSubmit(t, Head(Last(stack[t]).todo).call)
  BY DEF DeliverLocally, Running, InFrame, Top, Todo, NextMessage, Advance, Replace
<1>2. Len(stack[t]) = 1 /\ Last(stack[t]) = stack[t][1]
  <2>1. Len(stack[t]) >= 1 /\ Last(stack[t]) = stack[t][Len(stack[t])]
    BY <1>a, <1>1, FrontFacts
  <2>2. \A n \in Nat : n <= 1 /\ n >= 1 => n = 1
    OBVIOUS
  <2>3. Len(stack[t]) = 1
    BY <1>a, <2>1, <2>2, Zenon
  <2> QED
    BY <2>1, <2>3
<1>3. Waiting(t) = Last(stack[t]).todo
  BY <1>1, <1>2 DEF Waiting
<1>4. Len(r) = Len(stack[t]) /\ r # <<>>
  BY <1>a, <1>1, AdvanceFacts
<1>5. Last(r) = HookFrame(Tail(Last(stack[t]).todo))
  BY <1>a, <1>1, AdvanceFacts
<1> HIDE DEF r
<1>6. r[1] = HookFrame(Tail(Waiting(t)))
  BY <1>2, <1>3, <1>4, <1>5 DEF Last
<1>7. Waiting(t)' = Tail(Waiting(t))
  <2>1. stack'[t] = r /\ r # <<>>
    BY <1>b, <1>1, <1>4
  <2>2. r[1].todo = Tail(Waiting(t))
    BY <1>6 DEF HookFrame
  <2> QED
    BY <2>1, <2>2 DEF Waiting
<1> QED
  BY <1>b, <1>1, <1>3, <1>7 DEF Submits, Requeued, BeginSubmit

\* On the local route a step of a thread does one of the three.
LEMMA WaitingKinds ==
    ASSUME StackInv, OnceInv, route = "local", NEW t \in Threads, ThreadStep(t)
    PROVE  \/ UNCHANGED stack
           \/ \E q \in Seq(Message) : NewQueue(t, q)
           \/ Submits(t)
<1>1. /\ stack \in [Threads -> Seq(Frames)] /\ hooks[t] \in Seq(Message)
      /\ Stacked(stack[t], settled) /\ Len(stack[t]) <= 1 /\ Len(stack[t]) \in Nat
  BY LenProperties DEF StackInv, TypeInv, DispatchTypeOK, HookInv, RouteInv
<1>2. ASSUME NEW r, stack' = [stack EXCEPT ![t] = r]
      PROVE  /\ stack'[t] = r
             /\ \A u \in Threads \ {t} : Waiting(u)' = Waiting(u)
  BY <1>1, <1>2 DEF Waiting
<1>3. ASSUME NEW q \in Seq(Message), stack[t] = <<>>, Push(t, HookFrame(q)),
             UNCHANGED <<step, current, pools>>, Distinct(q), CallsOf(q) \cap settled = {}
      PROVE  NewQueue(t, q)
  <2> DEFINE r == Append(<<>>, HookFrame(q))
  <2>1. r # <<>> /\ r[1] = HookFrame(q) /\ HookFrame(q).todo = q
    BY DEF HookFrame
  <2>2. stack' = [stack EXCEPT ![t] = r]
    BY <1>3 DEF Push
  <2> HIDE DEF r
  <2>3. Waiting(t)' = q
    BY <1>2, <2>1, <2>2 DEF Waiting
  <2> QED
    BY <1>2, <1>3, <2>2, <2>3 DEF NewQueue, Requeued
<1>4. CASE Commit(t)
  <2>1. Distinct(hooks[t]) /\ CallsOf(hooks[t]) \cap settled = {}
    BY DEF OnceInv, StackInv, HookInv
  <2> QED
    BY <1>1, <1>3, <1>4, <2>1 DEF Commit, poolVars
<1>5. ASSUME NEW c \in Calls, ExecuteOnCommit(t, c)
      PROVE  UNCHANGED stack \/ \E q \in Seq(Message) : NewQueue(t, q)
  <2>1. CASE InAtomic(t)
    BY <1>5, <2>1 DEF ExecuteOnCommit
  <2>2. CASE ~InAtomic(t)
    <3> DEFINE m == [call |-> c, n |-> 0]
               q == <<m>>
    <3>1. m \in Message /\ m.call = c
      BY DispatchAssumption DEF Message
    <3>2. stack[t] = <<>> /\ Push(t, HookFrame(q)) /\ UNCHANGED <<step, current, pools>>
      BY <1>5, <2>2 DEF ExecuteOnCommit, InAtomic, poolVars
    <3>3. c \notin settled
      BY <1>5 DEF ExecuteOnCommit, StackInv, HookInv
    <3> HIDE DEF m
    <3>4. q \in Seq(Message) /\ Len(q) = 1 /\ q[1] = m
      BY <3>1
    <3> HIDE DEF q
    <3>5. Distinct(q) /\ CallsOf(q) = {c}
      BY <3>1, <3>4 DEF Distinct, CallsOf
    <3> QED
      BY <1>3, <3>2, <3>3, <3>4, <3>5
  <2> QED
    BY <2>1, <2>2
<1>6. CASE DeliverLocally(t)
  BY <1>6, LocalSubmits
<1>7. CASE HooksDone(t) \/ HooksRaise(t)
  <2>1. /\ stack[t] # <<>> /\ stack' = [stack EXCEPT ![t] = Front(stack[t])]
        /\ UNCHANGED <<step, current, pools>>
    BY <1>7 DEF HooksDone, HooksRaise, Running, InFrame, Pop, poolVars
  <2>2. Front(stack[t]) = <<>>
    <3>1. Len(stack[t]) >= 1 /\ Len(Front(stack[t])) = Len(stack[t]) - 1
          /\ Front(stack[t]) \in Seq(Frames)
      BY <1>1, <2>1, FrontFacts
    <3>2. Len(Front(stack[t])) = 0
      BY <1>1, <3>1
    <3> QED
      BY <3>1, <3>2, EmptySeq
  <2>3. Waiting(t)' = <<>>
    BY <1>2, <2>1, <2>2 DEF Waiting
  <2>4. <<>> \in Seq(Message) /\ Distinct(<<>>) /\ CallsOf(<<>>) \cap settled = {}
    BY CallsOfFacts DEF Distinct
  <2>5. NewQueue(t, <<>>)
    BY <1>2, <2>1, <2>3, <2>4 DEF NewQueue, Requeued
  <2> QED
    BY <2>4, <2>5
<1>8. CASE \/ BodyCommits(t) \/ TaskReturns(t) \/ TaskUnsaved(t)
           \/ TaskFails(t) \/ TaskRetries(t) \/ TaskRaises(t) \/ TaskEscapes(t)
  <2>1. stack[t] # <<>> /\ Top(t).kind # "hooks"
    BY <1>8 DEF BodyCommits, TaskReturns, TaskUnsaved, TaskFails, TaskRetries, TaskRaises,
                TaskEscapes, Escapes, Fails, InFrame
  <2>2. Len(stack[t]) > 1
    BY <2>1, TasksAreInside DEF StackInv
  <2> QED
    BY <1>1, <2>2
<1> QED
  BY <1>4, <1>5, <1>6, <1>7, <1>8
  DEF ThreadStep, Begin, Rollback, Deliver, DeliverRaises, DeliverEagerlyRaises, DeliverEagerly,
      SubmitLocally, SubmitLocallyRaises, dispatchVars

\* A thread whose queue changes keeps LocalInv.
LEMMA QueueSteps ==
    ASSUME StackInv, OnceInv, LocalInv, NEW t \in Threads,
           (\E q \in Seq(Message) : NewQueue(t, q)) \/ Submits(t)
    PROVE  LocalInv'
<1>1. /\ \A u \in Threads : Waiting(u) \in Seq(Message) /\ CallsOf(Waiting(u)) \subseteq settled
      /\ \A u \in Threads : step[u] # "out" => current[u] \in settled
      /\ \A c \in Calls : pools[c] # "none" => c \in settled
      /\ \A u \in Threads : Distinct(Waiting(u))
  BY WaitingFacts DEF StackInv, HookInv, OnceInv, LocalInv
<1>2. /\ \A u, v \in Threads : u # v => CallsOf(Waiting(u)) \cap CallsOf(Waiting(v)) = {}
      /\ \A u, v \in Threads : step[v] # "out" => current[v] \notin CallsOf(Waiting(u))
      /\ \A u, v \in Threads :
           step[u] # "out" /\ step[v] # "out" /\ current[u] = current[v] => u = v
      /\ \A u \in Threads : \A c \in CallsOf(Waiting(u)) : pools[c] = "none"
      /\ \A u \in Threads : step[u] \in {"check", "create"} => pools[current[u]] = "none"
  BY DEF LocalInv
<1>3. /\ step \in [Threads -> {"out", "check", "create", "return", "submit"}]
      /\ current \in [Threads -> Calls \cup {None}] /\ settled \subseteq Calls
      /\ pools \in [Calls -> {"none", "open", "broken", "shut"}]
  BY DEF StackInv, TypeInv, DispatchTypeOK, PoolTypeOK
<1>4. ASSUME NEW q \in Seq(Message), NewQueue(t, q) PROVE LocalInv'
  <2>1. /\ Waiting(t)' = q /\ \A u \in Threads \ {t} : Waiting(u)' = Waiting(u)
        /\ step' = step /\ current' = current /\ pools' = pools
        /\ Distinct(q) /\ CallsOf(q) \cap settled = {}
    BY <1>4 DEF NewQueue, Requeued
  <2>2. \A c \in CallsOf(q) : c \in Calls
    <3>1. \A i \in 1..Len(q) : q[i] \in Message
      BY ElementOfSeq
    <3> QED
      BY <3>1 DEF CallsOf, Message
  <2>3. \A u \in Threads : Distinct(Waiting(u)')
    BY <1>1, <2>1
  <2>4. \A u, v \in Threads : u # v => CallsOf(Waiting(u)') \cap CallsOf(Waiting(v)') = {}
    BY <1>1, <1>2, <2>1
  <2>5. \A u, v \in Threads : step'[v] # "out" => current'[v] \notin CallsOf(Waiting(u)')
    BY <1>1, <1>2, <2>1
  <2>6. \A u \in Threads : \A c \in CallsOf(Waiting(u)') : pools'[c] = "none"
    BY <1>1, <1>2, <2>1, <2>2
  <2> QED
    BY <1>2, <2>1, <2>3, <2>4, <2>5, <2>6 DEF LocalInv
<1>5. CASE Submits(t)
  <2> DEFINE q == Waiting(t)
             c == Head(q).call
  <2>1. /\ q # <<>> /\ q \in Seq(Message)
        /\ Waiting(t)' = Tail(q) /\ \A u \in Threads \ {t} : Waiting(u)' = Waiting(u)
        /\ pools' = pools /\ step[t] = "out"
        /\ step' = [step EXCEPT ![t] = "check"] /\ current' = [current EXCEPT ![t] = c]
    BY <1>1, <1>5 DEF Submits, Requeued
  <2>2. /\ Distinct(Tail(q)) /\ CallsOf(Tail(q)) \subseteq CallsOf(q)
        /\ c \in CallsOf(q) /\ c \notin CallsOf(Tail(q))
    BY <1>1, <2>1, DistinctFacts
  <2>3. /\ step'[t] = "check" /\ current'[t] = c
        /\ \A u \in Threads \ {t} : step'[u] = step[u] /\ current'[u] = current[u]
    BY <1>3, <2>1
  <2> HIDE DEF q, c
  <2>4. \A u \in Threads : CallsOf(Waiting(u)') \subseteq CallsOf(Waiting(u))
    BY <2>1, <2>2 DEF q
  <2>5. \A u \in Threads : Distinct(Waiting(u)')
    BY <1>1, <2>1, <2>2
  <2>6. \A u, v \in Threads : u # v => CallsOf(Waiting(u)') \cap CallsOf(Waiting(v)') = {}
    BY <1>2, <2>4
  <2>7. \A u \in Threads : c \notin CallsOf(Waiting(u)')
    <3> SUFFICES ASSUME NEW u \in Threads PROVE c \notin CallsOf(Waiting(u)')
      OBVIOUS
    <3>1. CASE u = t
      BY <2>1, <2>2, <3>1
    <3>2. CASE u # t
      BY <1>2, <2>1, <2>2, <3>2 DEF q
    <3> QED
      BY <3>1, <3>2
  <2>8. \A u, v \in Threads : step'[v] # "out" => current'[v] \notin CallsOf(Waiting(u)')
    BY <1>2, <2>3, <2>4, <2>7
  <2>9. \A u \in Threads \ {t} : step[u] # "out" => current[u] # c
    BY <1>2, <2>2 DEF q
  <2>10. \A u, v \in Threads :
           step'[u] # "out" /\ step'[v] # "out" /\ current'[u] = current'[v] => u = v
    BY <1>2, <2>3, <2>9
  <2>11. \A u \in Threads : \A d \in CallsOf(Waiting(u)') : pools'[d] = "none"
    BY <1>2, <2>1, <2>4
  <2>12. \A u \in Threads : step'[u] \in {"check", "create"} => pools'[current'[u]] = "none"
    BY <1>2, <2>1, <2>2, <2>3 DEF q
  <2> QED
    BY <2>5, <2>6, <2>8, <2>10, <2>11, <2>12 DEF LocalInv
<1> QED
  BY <1>4, <1>5

\* What a step of a thread makes of the pool: only CreatePool touches it.
LEMMA ThreadPoolKinds ==
    ASSUME NEW t \in Threads, ThreadStep(t)
    PROVE  \/ CreatePool(t) /\ UNCHANGED dispatchVars
           \/ UNCHANGED <<pool, pools, process, previous, installed, signal, taken, orphans>>
BY DEF ThreadStep, Begin, Rollback, Commit, ExecuteOnCommit, Deliver, DeliverRaises,
       DeliverEagerlyRaises, DeliverLocally, DeliverEagerly, SubmitLocally, SubmitLocallyRaises,
       HooksDone, HooksRaise, BodyCommits, TaskReturns, TaskUnsaved, TaskFails, TaskRetries,
       TaskRaises, TaskEscapes, Escapes, poolVars, BeginSubmit, CheckPool, ReturnPool, Submit,
       SubmitRaises

\* What a step that leaves the stacks alone makes of the submissions.
LEMMA SubmitKinds ==
    ASSUME NEW t \in Threads, ThreadStep(t), UNCHANGED stack
    PROVE  \/ UNCHANGED <<step, current, pools>>
           \/ CheckPool(t) \/ CreatePool(t) \/ ReturnPool(t) \/ Submit(t) \/ SubmitRaises(t)
           \/ DeliverLocally(t)
BY DEF ThreadStep, Begin, Rollback, Commit, ExecuteOnCommit, Deliver, DeliverRaises,
       DeliverEagerlyRaises, DeliverEagerly, SubmitLocally, SubmitLocallyRaises, HooksDone,
       HooksRaise, BodyCommits, TaskReturns, TaskUnsaved, TaskFails, TaskRetries, TaskRaises,
       TaskEscapes, Escapes, poolVars

\* A step of a thread keeps calls submitted once.
LEMMA ThreadSubmits ==
    ASSUME StackInv, SubmitInv, NEW t \in Threads, ThreadStep(t)
    PROVE  SubmitInv'
<1>1. /\ hooks \in [Threads -> Seq(Message)] /\ settled \subseteq Calls
      /\ step \in [Threads -> {"out", "check", "create", "return", "submit"}]
      /\ current \in [Threads -> Calls \cup {None}]
      /\ pools \in [Calls -> {"none", "open", "broken", "shut"}]
      /\ \A u \in Threads : step[u] # "out" => current[u] \in settled
  BY DEF StackInv, TypeInv, DispatchTypeOK, PoolTypeOK, HookInv
<1>2. OnceInv /\ (route = "local" => LocalInv)
  BY DEF SubmitInv
<1>3. \A u \in Threads : Distinct(hooks'[u])
  <2>0. \A u \in Threads : Distinct(hooks[u])
    BY <1>2 DEF OnceInv
  <2>1. CASE UNCHANGED hooks
    BY <2>0, <2>1
  <2>2. CASE hooks' = [hooks EXCEPT ![t] = <<>>]
    <3>1. Distinct(<<>>)
      BY DEF Distinct
    <3> QED
      BY <1>1, <2>0, <2>2, <3>1
  <2>3. ASSUME NEW c \in Calls, fate[c] = "new",
               hooks' = [hooks EXCEPT ![t] = Append(@, [call |-> c, n |-> 0])]
        PROVE  \A u \in Threads : Distinct(hooks'[u])
    <3>1. [call |-> c, n |-> 0] \in Message /\ [call |-> c, n |-> 0].call = c
      BY DispatchAssumption DEF Message
    <3>2. c \notin CallsOf(hooks[t])
      BY <2>3 DEF StackInv, HookInv
    <3>3. Distinct(Append(hooks[t], [call |-> c, n |-> 0]))
      BY <1>1, <2>0, <3>1, <3>2, DistinctFacts
    <3> QED
      BY <1>1, <2>0, <2>3, <3>3
  <2> QED
    BY <2>1, <2>2, <2>3, HookKinds
<1>4. settled \subseteq settled'
  BY StackSteps DEF StackInv
<1>5. \A c \in Calls : pools'[c] # "none" => c \in settled'
  <2>1. CASE UNCHANGED pools
    BY <1>2, <1>4, <2>1 DEF OnceInv
  <2>2. CASE CreatePool(t)
    BY <1>1, <1>2, <1>4, <2>2 DEF CreatePool, OnceInv
  <2> QED
    BY <2>1, <2>2, ThreadPoolKinds
<1>6. OnceInv'
  BY <1>3, <1>5 DEF OnceInv
<1>7. route' = route
  BY DEF ThreadStep, Begin, Rollback, Commit, ExecuteOnCommit, Deliver, DeliverRaises,
         DeliverEagerlyRaises, DeliverLocally, DeliverEagerly, SubmitLocally, SubmitLocallyRaises,
         HooksDone, HooksRaise, BodyCommits, TaskReturns, TaskUnsaved, TaskFails, TaskRetries,
         TaskRaises, TaskEscapes, Escapes, dispatchVars
<1>8. ASSUME route = "local" PROVE LocalInv'
  <2>1. CASE ~UNCHANGED stack
    BY <1>2, <1>8, <2>1, WaitingKinds, QueueSteps
  <2>2. CASE UNCHANGED stack
    <3>0. \A u \in Threads : Waiting(u)' = Waiting(u)
      BY <2>2 DEF Waiting
    <3>1. LocalInv
      BY <1>2, <1>8
    <3>2. CASE UNCHANGED <<step, current, pools>>
      BY <3>0, <3>1, <3>2 DEF LocalInv
    <3>3. CASE CheckPool(t)
      <4>1. /\ step[t] = "check" /\ step'[t] # "out" /\ step'[t] \in {"create", "return"}
            /\ \A u \in Threads \ {t} : step'[u] = step[u]
            /\ current' = current /\ pools' = pools
        BY <1>1, <3>3 DEF CheckPool
      <4> QED
        BY <3>0, <3>1, <4>1 DEF LocalInv
    <3>4. CASE CreatePool(t)
      <4>1. /\ step[t] = "create" /\ step'[t] = "return"
            /\ \A u \in Threads \ {t} : step'[u] = step[u]
            /\ current' = current
        BY <1>1, <3>4 DEF CreatePool
      <4>2. /\ \A c \in Calls : c # current[t] => pools'[c] = pools[c]
        BY <1>1, <3>4 DEF CreatePool
      <4>3. \A u \in Threads : \A c \in CallsOf(Waiting(u)) : c # current[t] /\ c \in Calls
        BY <1>1, <3>1, <4>1, WaitingFacts DEF LocalInv
      <4>4. \A u \in Threads \ {t} : step[u] # "out" => current[u] # current[t] /\ current[u] \in Calls
        BY <1>1, <3>1, <4>1 DEF LocalInv
      <4>5. \A u \in Threads : \A c \in CallsOf(Waiting(u)) : pools'[c] = "none"
        BY <3>1, <4>2, <4>3 DEF LocalInv
      <4>6. \A u \in Threads : step'[u] \in {"check", "create"} => pools'[current'[u]] = "none"
        BY <3>1, <4>1, <4>2, <4>4 DEF LocalInv
      <4>7. /\ \A u, v \in Threads : step'[u] # "out" => current'[u] \notin CallsOf(Waiting(v))
            /\ \A u, v \in Threads :
                 step'[u] # "out" /\ step'[v] # "out" /\ current'[u] = current'[v] => u = v
        BY <3>1, <4>1 DEF LocalInv
      <4> QED
        BY <3>0, <3>1, <4>5, <4>6, <4>7 DEF LocalInv
    <3>5. CASE ReturnPool(t)
      <4>1. /\ step[t] = "return" /\ step'[t] = "submit"
            /\ \A u \in Threads \ {t} : step'[u] = step[u]
            /\ current' = current /\ pools' = pools
        BY <1>1, <3>5 DEF ReturnPool
      <4> QED
        BY <3>0, <3>1, <4>1 DEF LocalInv
    <3>6. CASE Submit(t) \/ SubmitRaises(t)
      <4>1. /\ step'[t] = "out"
            /\ \A u \in Threads \ {t} : step'[u] = step[u] /\ current'[u] = current[u]
            /\ pools' = pools
        BY <1>1, <3>6 DEF Submit, SubmitRaises, LeaveSubmit
      <4> QED
        BY <3>0, <3>1, <4>1 DEF LocalInv
    <3>7. CASE DeliverLocally(t)
      BY <1>2, <1>8, <3>7, LocalSubmits, QueueSteps
    <3> QED
      BY <2>2, <3>2, <3>3, <3>4, <3>5, <3>6, <3>7, SubmitKinds
  <2> QED
    BY <2>1, <2>2
<1> QED
  BY <1>6, <1>7, <1>8 DEF SubmitInv

\* A step of a thread accounts for every pool it opens.
LEMMA ThreadPools ==
    ASSUME StackInv, SubmitInv, PoolInv, process # "gone", NEW t \in Threads, ThreadStep(t)
    PROVE  PoolInv'
<1>1. CASE UNCHANGED <<pool, pools, process, previous, installed, signal, taken, orphans>>
  BY <1>1 DEF PoolInv
<1>2. CASE CreatePool(t)
  <2> DEFINE c == current[t]
  <2>1. route = "local" /\ LocalInv
    BY <1>2 DEF CreatePool, StackInv, RouteInv, SubmitInv
  <2>2. c \in Calls /\ pools[c] = "none" /\ c # None
    BY <1>2, <2>1, LocalPoolAssumption
    DEF CreatePool, LocalInv, StackInv, HookInv, TypeInv, DispatchTypeOK
  <2>3. /\ pools' = [pools EXCEPT ![c] = "open"] /\ pool' = c
        /\ orphans' = orphans \cup ({pool} \ {None}) \cup (IF signal = "idle" THEN {} ELSE {c})
        /\ process' = process /\ signal' = signal /\ taken' = taken
    BY <1>2 DEF CreatePool
  <2>4. pools \in [Calls -> {"none", "open", "broken", "shut"}] /\ taken \in Calls \cup {None}
    BY DEF StackInv, TypeInv, DispatchTypeOK, PoolTypeOK
  <2> HIDE DEF c
  <2>5. pools'[c] = "open" /\ \A p \in Calls \ {c} : pools'[p] = pools[p]
    BY <2>2, <2>3, <2>4
  <2>6. c # taken
    BY <2>2 DEF PoolInv
  <2>7. taken # None => pools'[taken] # "none"
    BY <2>4, <2>5, <2>6 DEF PoolInv
  <2>8. \A p \in Calls : pools'[p] = "open" => p \in {pool', taken'} \cup orphans'
    <3> SUFFICES ASSUME NEW p \in Calls, pools'[p] = "open", p # c
                 PROVE  p \in {pool', taken'} \cup orphans'
      BY <2>3
    <3>1. p \in {pool, taken} \cup orphans /\ p # None
      BY <2>5, LocalPoolAssumption DEF PoolInv
    <3> QED
      BY <2>3, <3>1
  <2>9. signal' # "idle" /\ pool' # None => pool' \in orphans'
    BY <2>3
  <2>10. signal' # "shutdown" => taken' = None
    BY <2>3 DEF PoolInv
  <2>11. pool' # None => pools'[pool'] \notin {"none", "shut"} /\ pool' # taken'
    BY <2>3, <2>5, <2>6
  <2>12. process' # "gone"
    BY <2>3
  <2> QED
    BY <2>3, <2>7, <2>8, <2>9, <2>10, <2>11, <2>12 DEF PoolInv
<1> QED
  BY <1>1, <1>2, ThreadPoolKinds

\* The workers, the signals and the end of the interpreter account for every pool and
\* open none.
LEMMA PoolStepPools ==
    ASSUME PoolTypeOK, PoolInv, PoolStep
    PROVE  PoolInv' /\ \A c \in Calls : pools'[c] = "none" <=> pools[c] = "none"
<1>0. /\ pools \in [Calls -> {"none", "open", "broken", "shut"}]
      /\ pool \in Calls \cup {None} /\ taken \in Calls \cup {None} /\ process # "gone"
      /\ previous \in {"callable", "default", "ignore"}
      /\ None \notin Calls
  BY LocalPoolAssumption DEF PoolTypeOK, PoolStep
<1> USE DEF PoolInv
<1>1. CASE \E c \in Calls : WorkerStarts(c) \/ WorkerEnds(c)
  BY <1>1 DEF WorkerStarts, WorkerEnds
<1>2. ASSUME NEW c \in Calls, WorkerDies(c)
      PROVE  PoolInv' /\ \A d \in Calls : pools'[d] = "none" <=> pools[d] = "none"
  <2>1. /\ pools[c] = "open" /\ pools'[c] = "broken"
        /\ \A d \in Calls \ {c} : pools'[d] = pools[d]
        /\ UNCHANGED <<pool, process, previous, installed, signal, taken, orphans>>
    BY <1>0, <1>2 DEF WorkerDies
  <2> QED
    BY <1>0, <2>1
<1>3. CASE HandleSignal
  BY <1>0, <1>3 DEF HandleSignal
<1>4. CASE ShutdownPool
  <2>1. CASE taken = None
    BY <1>0, <1>4, <2>1 DEF ShutdownPool
  <2>2. CASE taken # None
    <3>1. /\ pools'[taken] = "shut" /\ \A d \in Calls \ {taken} : pools'[d] = pools[d]
          /\ taken' = None /\ signal = "shutdown" /\ signal' = "chain"
          /\ UNCHANGED <<pool, process, previous, installed, orphans>>
      BY <1>0, <1>4, <2>2 DEF ShutdownPool
    <3> QED
      BY <1>0, <2>2, <3>1
  <2> QED
    BY <2>1, <2>2
<1>5. CASE SignalAgain
  BY <1>0, <1>5 DEF SignalAgain
<1>6. CASE Chain
  <2>1. /\ signal = "chain" /\ signal' = "idle"
        /\ UNCHANGED <<pool, pools, taken, orphans>>
    BY <1>6 DEF Chain
  <2>2. taken = None /\ (pool # None => pool \in orphans)
    BY <2>1
  <2>3. \A p \in Calls : pools[p] = "open" => p \in orphans
    BY <1>0, <2>2
  <2>4. process' = "gone" => previous' = "default"
    BY <1>0, <1>6 DEF Chain, AfterSignal
  <2> QED
    BY <2>1, <2>2, <2>3, <2>4
<1>7. CASE Finish
  BY <1>0, <1>7 DEF Finish
<1>8. CASE Exit
  <2>1. /\ \A c \in Calls : pools'[c] = IF pools[c] = "none" THEN "none" ELSE "shut"
        /\ pool' = None /\ signal = "idle" /\ UNCHANGED <<signal, taken, orphans>>
    BY <1>8 DEF Exit
  <2>2. taken = None
    BY <2>1
  <2> QED
    BY <2>1, <2>2
<1>9. CASE UnhandledSignal
  <2>1. /\ ~installed /\ UNCHANGED <<pool, pools, previous, installed, signal, taken, orphans>>
        /\ process' = "gone" => previous' = "default"
    BY <1>0, <1>9 DEF UnhandledSignal, AfterSignal
  <2> QED
    BY <2>1
<1> QED
  BY <1>1, <1>2, <1>3, <1>4, <1>5, <1>6, <1>7, <1>8, <1>9 DEF PoolStep

\* Submissions and pools, in every state of every behaviour.
THEOREM Pools == DispatchSpec => [](SubmitInv /\ PoolInv)
<1>1. DispatchInit => SubmitInv /\ PoolInv
  <2> SUFFICES ASSUME DispatchInit PROVE SubmitInv /\ PoolInv
    OBVIOUS
  <2>1. \A t \in Threads : hooks[t] = <<>> /\ Waiting(t) = <<>> /\ step[t] = "out"
    BY DEF DispatchInit, PoolInit, Waiting
  <2>2. Distinct(<<>>) /\ CallsOf(<<>>) = {}
    BY CallsOfFacts DEF Distinct
  <2>3. OnceInv /\ LocalInv
    BY <2>1, <2>2 DEF OnceInv, LocalInv, DispatchInit, PoolInit
  <2>4. PoolInv
    BY DEF DispatchInit, PoolInit, PoolInv
  <2> QED
    BY <2>3, <2>4 DEF SubmitInv
<1>2. StackInv /\ (SubmitInv /\ PoolInv) /\ [DispatchNext]_allVars => (SubmitInv /\ PoolInv)'
  <2> SUFFICES ASSUME StackInv, SubmitInv, PoolInv, [DispatchNext]_allVars
               PROVE  SubmitInv' /\ PoolInv'
    OBVIOUS
  <2>1. ASSUME process # "gone", NEW t \in Threads, ThreadStep(t) PROVE SubmitInv' /\ PoolInv'
    BY <2>1, ThreadSubmits, ThreadPools
  <2>2. ASSUME UNCHANGED dispatchVars, UNCHANGED <<step, current, mine>>,
               \A c \in Calls : pools'[c] = "none" <=> pools[c] = "none"
        PROVE  SubmitInv'
    <3>1. hooks' = hooks /\ settled' = settled /\ route' = route /\ stack' = stack
      BY <2>2 DEF dispatchVars
    <3>2. \A t \in Threads : Waiting(t)' = Waiting(t)
      BY <3>1 DEF Waiting
    <3>3. OnceInv'
      BY <2>2, <3>1 DEF SubmitInv, OnceInv
    <3>4. ASSUME route = "local" PROVE LocalInv'
      <4>1. LocalInv
        BY <3>4 DEF SubmitInv
      <4>2. \A t \in Threads : \A c \in CallsOf(Waiting(t)) : c \in Calls
        BY WaitingFacts DEF StackInv, TypeInv, DispatchTypeOK
      <4>3. \A t \in Threads : step[t] # "out" => current[t] \in Calls
        BY DEF StackInv, HookInv, TypeInv, DispatchTypeOK
      <4>4. \A t \in Threads : \A c \in CallsOf(Waiting(t)) : pools'[c] = "none"
        BY <2>2, <4>1, <4>2 DEF LocalInv
      <4>5. \A t \in Threads : step[t] \in {"check", "create"} => pools'[current[t]] = "none"
        BY <2>2, <4>1, <4>3 DEF LocalInv
      <4> QED
        BY <2>2, <3>2, <4>1, <4>4, <4>5 DEF LocalInv
    <3> QED
      BY <3>1, <3>3, <3>4 DEF SubmitInv
  <2>3. CASE PoolStep /\ UNCHANGED dispatchVars
    BY <2>2, <2>3, PoolStepFrame, PoolStepPools DEF StackInv, TypeInv, DispatchTypeOK
  <2>4. CASE UNCHANGED allVars
    <3>1. PoolInv'
      BY <2>4 DEF allVars, poolVars, PoolInv
    <3> QED
      BY <2>2, <2>4, <3>1 DEF allVars, poolVars
  <2> QED
    BY <2>1, <2>3, <2>4 DEF DispatchNext, Gone
<1> QED
  BY <1>1, <1>2, Stacks, PTL DEF DispatchSpec

\* No pool outlives the process, except those a race or a second signal orphaned and
\* those of a process in which ready() could not install its handlers, and these only
\* where SIG_DFL ends it; and get_pool() never finds one that was shut down.
THEOREM PoolsAreReleased == DispatchSpec => []PoolsReleased
<1>1. PoolInv => PoolsReleased
  BY DEF PoolInv, PoolsReleased
<1> QED
  BY <1>1, Pools, PTL

(***************************************************************************)
(* What has committed is kept.                                             *)
(***************************************************************************)
\* a run of hooks on the stack still has the call to do
InTodo(s, c) == \E i \in 1..Len(s) : s[i].kind = "hooks" /\ c \in CallsOf(s[i].todo)

\* A job is in a pool: an open one while it may still run, and one that broke or was
\* shut down when it is lost.
JobKept(c) ==
    /\ jobs[c].pool \in Calls
    /\ jobs[c].state \in {"pending", "running"} => pools[jobs[c].pool] = "open"
    /\ jobs[c].state = "lost" => pools[jobs[c].pool] \in {"broken", "shut"}

JobInv ==
    /\ \A c \in Calls : jobs[c].state # "none" => JobKept(c)
    /\ route = "local" => \A c \in Calls : fate[c] = "handed" => jobs[c].state # "none"

HeldInv ==
    /\ \A t \in Threads : step[t] = "out" => current[t] = None
    /\ \A t \in Threads : \A c \in CallsOf(hooks[t]) : fate[c] = "hooked"
    /\ \A c \in settled : fate[c] \notin {"new", "discarded"} /\ (fate[c] = "hooked" => Held(c))

\* A frame that joins the stack drops no call and brings its own.
LEMMA TodoAppend ==
    ASSUME NEW s \in Seq(Frames), NEW f \in Frames, NEW c,
           InTodo(s, c) \/ (f.kind = "hooks" /\ c \in CallsOf(f.todo))
    PROVE  InTodo(Append(s, f), c)
<1> DEFINE r == Append(s, f)
           n == Len(s)
<1>1. n \in Nat /\ Len(r) = n + 1 /\ r[n + 1] = f /\ \A i \in 1..n : r[i] = s[i]
  BY AppendFacts, LenProperties
<1> HIDE DEF r
<1>2. CASE InTodo(s, c)
  <2>1. PICK i \in 1..n : s[i].kind = "hooks" /\ c \in CallsOf(s[i].todo)
    BY <1>2 DEF InTodo
  <2> HIDE DEF n
  <2>2. i \in 1..Len(r) /\ r[i] = s[i]
    BY <1>1
  <2> QED
    BY <2>1, <2>2 DEF InTodo, r
<1>3. CASE f.kind = "hooks" /\ c \in CallsOf(f.todo)
  <2> HIDE DEF n
  <2>1. n + 1 \in 1..Len(r)
    BY <1>1
  <2> QED
    BY <1>1, <1>3, <2>1 DEF InTodo, r
<1> QED
  BY <1>2, <1>3

\* The frame that leaves the stack takes its own calls with it and no other.
LEMMA TodoFront ==
    ASSUME NEW s \in Seq(Frames), s # <<>>, NEW c, InTodo(s, c)
    PROVE  InTodo(Front(s), c) \/ (Last(s).kind = "hooks" /\ c \in CallsOf(Last(s).todo))
<1> DEFINE n == Len(s)
<1>1. /\ n \in Nat /\ n >= 1 /\ Len(Front(s)) = n - 1 /\ Last(s) = s[n]
      /\ \A i \in 1..n - 1 : Front(s)[i] = s[i]
  BY FrontFacts
<1>2. PICK i \in 1..n : s[i].kind = "hooks" /\ c \in CallsOf(s[i].todo)
  BY DEF InTodo
<1> HIDE DEF n
<1>3. i = n \/ i \in 1..n - 1
  BY <1>1
<1> QED
  BY <1>1, <1>2, <1>3 DEF InTodo

\* Two frames in place of a task drop no call and bring those of the hooks on top.
LEMMA TodoNest ==
    ASSUME NEW s \in Seq(Frames), s # <<>>, Last(s).kind # "hooks", NEW g \in Frames,
           NEW h \in Frames, h.kind = "hooks", NEW r, r = Front(s) \o <<g, h>>, NEW c,
           InTodo(s, c) \/ c \in CallsOf(h.todo)
    PROVE  InTodo(r, c)
<1>1. Front(s) \in Seq(Frames)
  BY FrontFacts
<1>2. r = Append(Append(Front(s), g), h) /\ Append(Front(s), g) \in Seq(Frames)
  BY <1>1, ConcatTwo, AppendFacts
<1>3. InTodo(s, c) => InTodo(Append(Front(s), g), c)
  BY <1>1, TodoFront, TodoAppend
<1> QED
  BY <1>2, <1>3, TodoAppend

\* The first message of a run of hooks is the only one that leaves it.
LEMMA CallsOfTail ==
    ASSUME NEW q \in Seq(Message), q # <<>>
    PROVE  CallsOf(q) \subseteq CallsOf(Tail(q)) \cup {Head(q).call}
<1> DEFINE n == Len(q)
           r == Tail(q)
<1>1. n \in Nat /\ n >= 1 /\ Len(r) = n - 1 /\ Head(q) = q[1] /\ \A i \in 1..n - 1 : r[i] = q[i + 1]
  BY TailFacts
<1> HIDE DEF n, r
<1>2. ASSUME NEW i \in 1..n PROVE i = 1 \/ (i - 1 \in 1..Len(r) /\ r[i - 1] = q[i])
  <2>1. i # 1 => i - 1 \in 1..n - 1 /\ (i - 1) + 1 = i
    BY <1>1
  <2> QED
    BY <1>1, <2>1
<1>3. \A i \in 1..n : q[i].call \in {r[k].call : k \in 1..Len(r)} \cup {q[1].call}
  BY <1>2
<1> QED
  BY <1>1, <1>3 DEF CallsOf, n, r

\* Advance: only the call whose turn it is leaves the hooks.
LEMMA TodoAdvance ==
    ASSUME StackInv, NEW t \in Threads, InFrame(t, "hooks"), Todo(t) # <<>>, NEW c,
           InTodo(stack[t], c), c # NextMessage(t).call
    PROVE  /\ Front(stack[t]) \in Seq(Frames) /\ HookFrame(Tail(Todo(t))) \in Frames
           /\ InTodo(Append(Front(stack[t]), HookFrame(Tail(Todo(t)))), c)
<1> DEFINE s == stack[t]
           q == Todo(t)
           f == HookFrame(Tail(q))
<1>1. s \in Seq(Frames) /\ s # <<>> /\ Last(s).kind = "hooks" /\ q = Last(s).todo
  BY DEF StackInv, TypeInv, InFrame, Top, Todo
<1>2. Front(s) \in Seq(Frames) /\ Last(s) \in Frames
  BY <1>1, FrontFacts
<1>3. q \in Seq(Message) /\ q # <<>>
  BY <1>1, <1>2, FrameFacts
<1>4. Tail(q) \in Seq(Message)
  BY <1>3, TailFacts
<1>5. f \in Frames /\ f.kind = "hooks" /\ f.todo = Tail(q)
  BY <1>4 DEF HookFrame, HookFrames, Frames
<1>6. InTodo(Front(s), c) \/ c \in CallsOf(q)
  BY <1>1, TodoFront
<1>7. c \in CallsOf(q) => c \in CallsOf(Tail(q))
  BY <1>3, CallsOfTail DEF NextMessage
<1> HIDE DEF f
<1>8. InTodo(Append(Front(s), f), c)
  BY <1>2, <1>5, <1>6, <1>7, TodoAppend
<1> QED
  BY <1>2, <1>5, <1>8 DEF f

\* A call that a thread's hooks have to do stays there, until its turn comes or an
\* exception drops it.
LEMMA TodoSteps ==
    ASSUME StackInv, NEW t \in Threads, ThreadStep(t), NEW c \in Calls, InTodo(stack[t], c)
    PROVE  InTodo(stack'[t], c) \/ fate'[c] # "hooked" \/ current'[t] = c
<1> DEFINE s == stack[t]
           Goal == InTodo(stack'[t], c) \/ fate'[c] # "hooked" \/ current'[t] = c
<1>1. /\ stack \in [Threads -> Seq(Frames)] /\ s \in Seq(Frames) /\ hooks[t] \in Seq(Message)
      /\ current \in [Threads -> Calls \cup {None}]
  BY DEF StackInv, TypeInv, DispatchTypeOK, PoolTypeOK
<1>2. ASSUME NEW r, stack' = [stack EXCEPT ![t] = r] PROVE stack'[t] = r
  BY <1>1, <1>2
<1>3. ASSUME NEW cs, NEW f, f # "hooked", SetFates(cs, f), c \in cs PROVE Goal
  BY <1>3 DEF SetFates
<1>4. CASE UNCHANGED stack
  BY <1>4
<1>5. ASSUME NEW q \in Seq(Message), Push(t, HookFrame(q)) PROVE Goal
  <2>1. HookFrame(q) \in Frames
    BY DEF HookFrame, HookFrames, Frames
  <2>2. stack'[t] = Append(s, HookFrame(q))
    BY <1>2, <1>5 DEF Push
  <2> QED
    BY <1>1, <2>1, <2>2, TodoAppend
<1>6. CASE Deliver(t) \/ DeliverRaises(t) \/ DeliverEagerlyRaises(t) \/ DeliverLocally(t)
  <2>1. /\ InFrame(t, "hooks") /\ Todo(t) # <<>>
        /\ stack'[t] = Append(Front(s), HookFrame(Tail(Todo(t))))
    BY <1>2, <1>6 DEF Deliver, DeliverRaises, DeliverEagerlyRaises, DeliverLocally, Running,
                      Advance, Replace
  <2>2. CASE c # NextMessage(t).call
    BY <2>1, <2>2, TodoAdvance
  <2>3. CASE c = NextMessage(t).call
    <3>1. CASE Deliver(t) \/ DeliverRaises(t) \/ DeliverEagerlyRaises(t)
      <4>1. PICK f \in {"handed", "failed"} : SetFates({NextMessage(t).call}, f)
        BY <3>1 DEF Deliver, DeliverRaises, DeliverEagerlyRaises
      <4> QED
        BY <1>3, <2>3, <4>1
    <3>2. CASE DeliverLocally(t)
      BY <1>1, <2>3, <3>2 DEF DeliverLocally, BeginSubmit
    <3> QED
      BY <1>6, <3>1, <3>2
  <2> QED
    BY <2>2, <2>3
<1>7. CASE DeliverEagerly(t)
  <2> DEFINE h == HookFrame(Tail(Todo(t)))
             b == [kind |-> "body", msg |-> NextMessage(t)]
  <2>1. InFrame(t, "hooks") /\ Todo(t) # <<>> /\ stack'[t] = Front(s) \o <<h, b>>
        /\ SetFates({NextMessage(t).call}, "handed")
    BY <1>2, <1>7 DEF DeliverEagerly, Running
  <2>2. CASE c # NextMessage(t).call
    <3>1. Front(s) \in Seq(Frames) /\ h \in Frames /\ InTodo(Append(Front(s), h), c)
      BY <2>1, <2>2, TodoAdvance
    <3>2. b \in Frames
      BY <2>1, NextFacts DEF StackInv, Frames, TaskFrames
    <3> HIDE DEF h, b
    <3>3. Append(Front(s), h) \in Seq(Frames) /\ stack'[t] = Append(Append(Front(s), h), b)
      BY <2>1, <3>1, <3>2, AppendFacts, ConcatTwo
    <3> QED
      BY <3>1, <3>2, <3>3, TodoAppend
  <2>3. CASE c = NextMessage(t).call
    BY <1>3, <2>1, <2>3
  <2> QED
    BY <2>2, <2>3
<1>8. CASE HooksDone(t)
  <2>1. s # <<>> /\ Last(s).todo = <<>> /\ stack'[t] = Front(s)
    BY <1>2, <1>8 DEF HooksDone, Running, InFrame, Pop, Todo, Top
  <2> QED
    BY <1>1, <2>1, TodoFront, CallsOfFacts
<1>9. CASE HooksRaise(t)
  <2>1. s # <<>> /\ stack'[t] = Front(s) /\ SetFates(CallsOf(Last(s).todo), "skipped")
    BY <1>2, <1>9 DEF HooksRaise, InFrame, Pop, Todo, Top
  <2> QED
    BY <1>1, <1>3, <2>1, TodoFront
<1>10. CASE TaskReturns(t) \/ TaskUnsaved(t) \/ TaskFails(t) \/ TaskRaises(t) \/ TaskEscapes(t)
  <2>1. s # <<>> /\ Last(s).kind # "hooks" /\ stack'[t] = Front(s)
    BY <1>2, <1>10 DEF TaskReturns, TaskUnsaved, TaskFails, TaskRaises, TaskEscapes, Escapes,
                       Fails, InFrame, Top, Pop
  <2> QED
    BY <1>1, <2>1, TodoFront
<1>11. ASSUME NEW k \in {"commit", "retry"}, NEW q \in Seq(Message), s # <<>>,
              Last(s).kind \in {"body", "commit"},
              stack'[t] = Front(s) \o <<[Last(s) EXCEPT !.kind = k], HookFrame(q)>>
       PROVE  Goal
  <2>1. Last(s) \in TaskFrames
    BY <1>1, <1>11, FrontFacts, FrameFacts
  <2>2. [Last(s) EXCEPT !.kind = k] \in Frames
    BY <2>1 DEF TaskFrames, Frames
  <2>3. HookFrame(q) \in Frames /\ HookFrame(q).kind = "hooks"
    BY DEF HookFrame, HookFrames, Frames
  <2> QED
    BY <1>1, <1>11, <2>2, <2>3, TodoNest
<1>12. CASE BodyCommits(t)
  BY <1>1, <1>2, <1>11, <1>12 DEF BodyCommits, InFrame, Top
<1>13. CASE TaskRetries(t)
  <2>1. /\ s # <<>> /\ Last(s).kind \in {"body", "commit"} /\ Last(s).msg.n < MAX_RETRIES
        /\ stack'[t] = Front(s) \o <<[Last(s) EXCEPT !.kind = "retry"],
                                     HookFrame(<<RetryMessage(t)>>)>>
    BY <1>2, <1>13 DEF TaskRetries, Fails, MayRetry, InFrame, Top
  <2>2. Last(s).msg \in Message
    BY <1>1, <2>1, FrontFacts, FrameFacts
  <2>3. RetryMessage(t) \in Message
    BY <2>1, <2>2, RetryFacts DEF RetryMessage, Top
  <2>4. <<RetryMessage(t)>> \in Seq(Message)
    BY <2>3
  <2> QED
    BY <1>11, <2>1, <2>4
<1>14. CASE Commit(t)
  BY <1>1, <1>5, <1>14 DEF Commit
<1>15. CASE \E d \in Calls : ExecuteOnCommit(t, d)
  <2>1. \A d \in Calls : <<[call |-> d, n |-> 0]>> \in Seq(Message)
    BY DispatchAssumption DEF Message
  <2> QED
    BY <1>4, <1>5, <1>15, <2>1 DEF ExecuteOnCommit
<1> QED
  BY <1>4, <1>6, <1>7, <1>8, <1>9, <1>10, <1>12, <1>13, <1>14, <1>15
  DEF ThreadStep, Begin, Rollback, SubmitLocally, SubmitLocallyRaises, dispatchVars

\* A step of a thread leaves the stacks and submissions of the others alone.
LEMMA OthersKeep ==
    ASSUME StackInv, NEW t \in Threads, ThreadStep(t), NEW u \in Threads, u # t
    PROVE  stack'[u] = stack[u] /\ current'[u] = current[u] /\ step'[u] = step[u]
<1>1. /\ stack \in [Threads -> Seq(Frames)]
      /\ step \in [Threads -> {"out", "check", "create", "return", "submit"}]
      /\ current \in [Threads -> Calls \cup {None}]
  BY DEF StackInv, TypeInv, DispatchTypeOK, PoolTypeOK
<1>2. UNCHANGED stack \/ \E r : stack' = [stack EXCEPT ![t] = r]
  BY DEF ThreadStep, Begin, Rollback, Commit, ExecuteOnCommit, Deliver, DeliverRaises,
         DeliverEagerlyRaises, DeliverLocally, DeliverEagerly, SubmitLocally, SubmitLocallyRaises,
         HooksDone, HooksRaise, BodyCommits, TaskReturns, TaskUnsaved, TaskFails, TaskRetries,
         TaskRaises, TaskEscapes, Escapes, Push, Pop, Advance, Replace, dispatchVars
<1>3. /\ UNCHANGED step \/ \E x : step' = [step EXCEPT ![t] = x]
      /\ UNCHANGED current \/ \E x : current' = [current EXCEPT ![t] = x]
  BY DEF ThreadStep, Begin, Rollback, Commit, ExecuteOnCommit, Deliver, DeliverRaises,
         DeliverEagerlyRaises, DeliverLocally, DeliverEagerly, SubmitLocally, SubmitLocallyRaises,
         HooksDone, HooksRaise, BodyCommits, TaskReturns, TaskUnsaved, TaskFails, TaskRetries,
         TaskRaises, TaskEscapes, Escapes, poolVars, BeginSubmit, CheckPool, CreatePool,
         ReturnPool, Submit, SubmitRaises, LeaveSubmit
<1> QED
  BY <1>1, <1>2, <1>3

\* How a step of a thread moves a fate: a call is enqueued, its transaction is rolled
\* back with every other hook of the thread, or its turn comes once it is settled.
LEMMA FateMoves ==
    ASSUME StackInv, NEW t \in Threads, ThreadStep(t), NEW c \in Calls
    PROVE  \/ fate'[c] = fate[c]
           \/ fate[c] = "new" /\ fate'[c] = "hooked"
           \/ /\ c \in CallsOf(hooks[t]) /\ fate'[c] = "discarded"
              /\ hooks' = [hooks EXCEPT ![t] = <<>>] /\ UNCHANGED settled
           \/ c \in settled /\ fate'[c] \in {"handed", "failed", "skipped"}
<1>1. CASE UNCHANGED fate
  BY <1>1
<1>2. CASE \E d \in Calls : ExecuteOnCommit(t, d)
  BY <1>2 DEF ExecuteOnCommit, SetFates
<1>3. CASE Rollback(t) \/ TaskFails(t) \/ TaskRetries(t) \/ TaskRaises(t) \/ TaskEscapes(t)
  <2>1. /\ SetFates(CallsOf(hooks[t]), "discarded")
        /\ hooks' = [hooks EXCEPT ![t] = <<>>] /\ UNCHANGED settled
    BY <1>3 DEF Rollback, TaskFails, TaskRetries, TaskRaises, TaskEscapes, Escapes
  <2> QED
    BY <2>1 DEF SetFates
<1>4. ASSUME NEW cs, NEW f \in {"handed", "failed", "skipped"}, SetFates(cs, f)
      PROVE  fate'[c] = fate[c] \/ fate'[c] \in {"handed", "failed", "skipped"}
  BY <1>4 DEF SetFates
<1>5. fate'[c] \in {"handed", "failed", "skipped"} => c \in settled
  BY FateKinds DEF StackInv
<1> QED
  BY <1>1, <1>2, <1>3, <1>4, <1>5
  DEF ThreadStep, Begin, Commit, Deliver, DeliverRaises, DeliverEagerlyRaises, DeliverLocally,
      DeliverEagerly, SubmitLocally, SubmitLocallyRaises, HooksDone, HooksRaise, BodyCommits,
      TaskReturns, TaskUnsaved, dispatchVars

\* A call that a step settles is among the hooks that the step starts to run.
LEMMA SettledIsHeld ==
    ASSUME StackInv, NEW t \in Threads, ThreadStep(t), NEW c \in settled', c \notin settled
    PROVE  /\ InTodo(stack'[t], c)
           /\ fate'[c] = "hooked" \/ (c \in CallsOf(hooks[t]) /\ fate'[c] = fate[c])
<1> DEFINE s == stack[t]
<1>1. /\ stack \in [Threads -> Seq(Frames)] /\ s \in Seq(Frames) /\ hooks[t] \in Seq(Message)
  BY DEF StackInv, TypeInv, DispatchTypeOK
<1>2. ASSUME NEW r, stack' = [stack EXCEPT ![t] = r] PROVE stack'[t] = r
  BY <1>1, <1>2
<1>3. ASSUME NEW q \in Seq(Message), Push(t, HookFrame(q)), c \in CallsOf(q)
      PROVE  InTodo(stack'[t], c)
  <2>1. HookFrame(q) \in Frames /\ HookFrame(q).kind = "hooks" /\ HookFrame(q).todo = q
    BY DEF HookFrame, HookFrames, Frames
  <2>2. stack'[t] = Append(s, HookFrame(q))
    BY <1>2, <1>3 DEF Push
  <2> QED
    BY <1>1, <1>3, <2>1, <2>2, TodoAppend
<1>4. CASE Commit(t)
  <2>1. c \in CallsOf(hooks[t])
    BY <1>4 DEF Commit
  <2> QED
    BY <1>1, <1>3, <1>4, <2>1 DEF Commit
<1>5. CASE \E d \in Calls : ExecuteOnCommit(t, d)
  <2>1. PICK d \in Calls : ExecuteOnCommit(t, d)
    BY <1>5
  <2>2. d = c /\ Push(t, HookFrame(<<[call |-> c, n |-> 0]>>)) /\ SetFates({c}, "hooked")
    BY <2>1 DEF ExecuteOnCommit
  <2> DEFINE m == [call |-> c, n |-> 0]
  <2>3. m \in Message /\ m.call = c
    BY <2>2, DispatchAssumption DEF Message
  <2> HIDE DEF m
  <2> DEFINE q == <<m>>
  <2>4. q \in Seq(Message) /\ Len(q) = 1 /\ q[1] = m
    BY <2>3
  <2>5. Push(t, HookFrame(q))
    BY <2>2 DEF m
  <2> HIDE DEF q
  <2>6. c \in CallsOf(q)
    BY <2>3, <2>4 DEF CallsOf
  <2>7. fate'[c] = "hooked"
    BY <2>2 DEF SetFates
  <2> QED
    BY <1>3, <2>4, <2>5, <2>6, <2>7
<1>6. CASE BodyCommits(t)
  <2> DEFINE g == [Last(s) EXCEPT !.kind = "commit"]
             h == HookFrame(hooks[t])
  <2>1. /\ s # <<>> /\ Last(s).kind = "body" /\ c \in CallsOf(hooks[t]) /\ fate' = fate
        /\ stack'[t] = Front(s) \o <<g, h>>
    BY <1>2, <1>6 DEF BodyCommits, InFrame, Top
  <2>2. Last(s) \in TaskFrames
    BY <1>1, <2>1, FrontFacts, FrameFacts
  <2>3. g \in Frames
    BY <2>2 DEF TaskFrames, Frames
  <2>4. h \in Frames /\ h.kind = "hooks" /\ h.todo = hooks[t]
    BY <1>1 DEF HookFrame, HookFrames, Frames
  <2> HIDE DEF g, h
  <2>5. Last(s).kind # "hooks" /\ c \in CallsOf(h.todo)
    BY <2>1, <2>4
  <2>6. InTodo(stack'[t], c)
    BY <1>1, <2>1, <2>3, <2>4, <2>5, TodoNest
  <2> QED
    BY <2>1, <2>6
<1>7. CASE UNCHANGED settled
  BY <1>7
<1> QED
  BY <1>4, <1>5, <1>6, <1>7
  DEF ThreadStep, Begin, Rollback, Deliver, DeliverRaises, DeliverEagerlyRaises, DeliverLocally,
      DeliverEagerly, SubmitLocally, SubmitLocallyRaises, HooksDone, HooksRaise,
      TaskReturns, TaskUnsaved, TaskFails, TaskRetries, TaskRaises, TaskEscapes, Escapes,
      dispatchVars

\* A submission under way stays under way, or its outcome is known.
LEMMA CurrentSteps ==
    ASSUME StackInv, HeldInv, NEW t \in Threads, ThreadStep(t)
    PROVE  /\ step'[t] = "out" => current'[t] = None
           /\ current[t] \in Calls => current'[t] = current[t] \/ fate'[current[t]] # "hooked"
<1>1. /\ step \in [Threads -> {"out", "check", "create", "return", "submit"}]
      /\ current \in [Threads -> Calls \cup {None}]
  BY DEF StackInv, TypeInv, DispatchTypeOK, PoolTypeOK
<1>2. /\ step[t] = "out" => current[t] = None
      /\ None \notin Calls
  BY LocalPoolAssumption DEF HeldInv
<1>3. CASE UNCHANGED <<step, current>>
  BY <1>2, <1>3
<1>4. CASE DeliverLocally(t)
  BY <1>1, <1>2, <1>4 DEF DeliverLocally, Running, BeginSubmit
<1>5. CASE SubmitLocally(t) \/ SubmitLocallyRaises(t)
  <2>1. SetFates({current[t]}, "handed") \/ SetFates({current[t]}, "failed")
    BY <1>5 DEF SubmitLocally, SubmitLocallyRaises
  <2>2. current'[t] = None
    BY <1>1, <1>5 DEF SubmitLocally, SubmitLocallyRaises, Submit, SubmitRaises, LeaveSubmit
  <2>3. current[t] \in Calls => fate'[current[t]] # "hooked"
    BY <2>1 DEF SetFates
  <2> QED
    BY <2>2, <2>3
<1>6. CASE CheckPool(t) \/ CreatePool(t) \/ ReturnPool(t)
  BY <1>1, <1>6 DEF CheckPool, CreatePool, ReturnPool
<1> QED
  BY <1>3, <1>4, <1>5, <1>6
  DEF ThreadStep, Begin, Rollback, Commit, ExecuteOnCommit, Deliver, DeliverRaises,
      DeliverEagerlyRaises, DeliverEagerly, HooksDone, HooksRaise, BodyCommits, TaskReturns,
      TaskUnsaved, TaskFails, TaskRetries, TaskRaises, TaskEscapes, Escapes, poolVars

\* Held, with the hooks of a stack spelled out.
LEMMA HeldIs ==
    ASSUME NEW c
    PROVE  Held(c) <=> \E t \in Threads : current[t] = c \/ InTodo(stack[t], c)
BY DEF Held, InTodo

\* A step of a thread drops no call that has committed.
LEMMA HeldSteps ==
    ASSUME StackInv, HeldInv, NEW t \in Threads, ThreadStep(t)
    PROVE  HeldInv'
<1>1. /\ settled \subseteq settled' /\ settled' \subseteq Calls
      /\ hooks \in [Threads -> Seq(Message)]
      /\ \A u \in Threads : \A c \in CallsOf(hooks[u]) : c \notin settled /\ c \in Calls
      /\ \A u, v \in Threads : u # v => CallsOf(hooks[u]) \cap CallsOf(hooks[v]) = {}
      /\ None \notin Calls
  <2>1. hooks \in [Threads -> Seq(Message)]
    BY DEF StackInv, TypeInv, DispatchTypeOK
  <2>2. ASSUME NEW u \in Threads PROVE CallsOf(hooks[u]) \subseteq Calls
    <3>1. \A i \in 1..Len(hooks[u]) : hooks[u][i] \in Message
      BY <2>1, ElementOfSeq
    <3> QED
      BY <3>1 DEF CallsOf, Message
  <2> QED
    BY <2>1, <2>2, StackSteps, LocalPoolAssumption DEF StackInv, HookInv
<1>2. /\ \A u \in Threads : \A c \in CallsOf(hooks[u]) : fate[c] = "hooked"
      /\ \A c \in settled : fate[c] \notin {"new", "discarded"} /\ (fate[c] = "hooked" => Held(c))
  BY DEF HeldInv
<1>3. \A u \in Threads : step'[u] = "out" => current'[u] = None
  BY CurrentSteps, OthersKeep DEF HeldInv
<1>4. ASSUME NEW u \in Threads, NEW c \in CallsOf(hooks'[u]) PROVE fate'[c] = "hooked"
  <2>1. c \in CallsOf(hooks[u]) \/ (c \in Calls /\ fate'[c] = "hooked")
    <3>1. CASE UNCHANGED hooks
      BY <1>4, <3>1
    <3>2. CASE hooks' = [hooks EXCEPT ![t] = <<>>]
      BY <1>1, <1>4, <3>2, CallsOfFacts
    <3>3. ASSUME NEW d \in Calls, SetFates({d}, "hooked"),
                 hooks' = [hooks EXCEPT ![t] = Append(@, [call |-> d, n |-> 0])]
          PROVE  c \in CallsOf(hooks[u]) \/ (c \in Calls /\ fate'[c] = "hooked")
      <4>1. [call |-> d, n |-> 0] \in Message /\ [call |-> d, n |-> 0].call = d
        BY DispatchAssumption DEF Message
      <4>2. CallsOf(hooks'[t]) = CallsOf(hooks[t]) \cup {d}
        BY <1>1, <3>3, <4>1, CallsOfFacts
      <4>3. fate'[d] = "hooked"
        BY <3>3 DEF SetFates
      <4> QED
        BY <1>1, <1>4, <3>3, <4>2, <4>3
    <3> QED
      BY <3>1, <3>2, <3>3, HookKinds
  <2>2. CASE c \in CallsOf(hooks[u])
    <3>1. c \in Calls /\ c \notin settled /\ fate[c] = "hooked"
      BY <1>1, <1>2, <2>2
    <3>2. ASSUME c \in CallsOf(hooks[t]), hooks' = [hooks EXCEPT ![t] = <<>>] PROVE FALSE
      <4>1. u = t
        BY <1>1, <2>2, <3>2
      <4>2. hooks'[t] = <<>>
        BY <1>1, <3>2
      <4> QED
        BY <1>4, <4>1, <4>2, CallsOfFacts
    <3> QED
      BY <3>1, <3>2, FateMoves
  <2> QED
    BY <2>1, <2>2
<1>5. ASSUME NEW c \in settled' PROVE fate'[c] \notin {"new", "discarded"}
  <2>1. CASE c \in settled
    BY <1>1, <1>2, <2>1, FateMoves
  <2>2. CASE c \notin settled
    BY <1>2, <2>2, SettledIsHeld
  <2> QED
    BY <2>1, <2>2
<1>6. ASSUME NEW c \in settled', fate'[c] = "hooked" PROVE Held(c)'
  <2>0. ASSUME NEW u \in Threads, current'[u] = c \/ InTodo(stack'[u], c) PROVE Held(c)'
    BY <2>0 DEF Held, InTodo
  <2>1. CASE c \in settled
    <3>1. c \in Calls /\ fate[c] = "hooked"
      BY <1>1, <1>2, <1>6, <2>1, FateMoves
    <3>2. PICK u \in Threads : current[u] = c \/ InTodo(stack[u], c)
      BY <1>2, <2>1, <3>1, HeldIs
    <3>3. CASE u # t
      BY <2>0, <3>2, <3>3, OthersKeep
    <3>4. CASE u = t /\ current[t] = c
      BY <1>6, <2>0, <3>1, <3>4, CurrentSteps
    <3>5. CASE u = t /\ InTodo(stack[t], c)
      BY <1>6, <2>0, <3>1, <3>5, TodoSteps
    <3> QED
      BY <3>2, <3>3, <3>4, <3>5
  <2>2. CASE c \notin settled
    BY <2>0, <2>2, SettledIsHeld
  <2> QED
    BY <2>1, <2>2
<1> QED
  BY <1>3, <1>4, <1>5, <1>6 DEF HeldInv

\* A step of a thread keeps every job in its pool: only Submit makes one, in a pool that
\* is open, and CreatePool opens one that has had no job.
LEMMA ThreadJobs ==
    ASSUME StackInv, SubmitInv, JobInv, NEW t \in Threads, ThreadStep(t)
    PROVE  JobInv'
<1>1. /\ pools \in [Calls -> {"none", "open", "broken", "shut"}]
      /\ jobs \in [Calls -> [state : {"none", "pending", "running", "done", "lost"},
                             pool : Calls \cup {None}]]
      /\ mine \in [Threads -> Calls \cup {None}]
      /\ step[t] # "out" => current[t] \in Calls
  BY DEF StackInv, TypeInv, DispatchTypeOK, PoolTypeOK, HookInv
<1>2. /\ \A c \in Calls : jobs[c].state # "none" => JobKept(c)
      /\ route = "local" => \A c \in Calls : fate[c] = "handed" => jobs[c].state # "none"
  BY DEF JobInv
<1>3. route' = route
  BY DEF ThreadStep, Begin, Rollback, Commit, ExecuteOnCommit, Deliver, DeliverRaises,
         DeliverEagerlyRaises, DeliverLocally, DeliverEagerly, SubmitLocally, SubmitLocallyRaises,
         HooksDone, HooksRaise, BodyCommits, TaskReturns, TaskUnsaved, TaskFails, TaskRetries,
         TaskRaises, TaskEscapes, Escapes, dispatchVars
<1>4. CASE SubmitLocally(t)
  <2> DEFINE c == current[t]
  <2>1. /\ c \in Calls /\ mine[t] \in Calls /\ pools[mine[t]] = "open" /\ pools' = pools
        /\ jobs' = [jobs EXCEPT ![c] = [state |-> "pending", pool |-> mine[t]]]
        /\ SetFates({c}, "handed")
    BY <1>1, <1>4 DEF SubmitLocally, Submit, Accepts
  <2> HIDE DEF c
  <2>2. /\ jobs'[c].state = "pending" /\ jobs'[c].pool = mine[t]
        /\ \A d \in Calls \ {c} : jobs'[d] = jobs[d]
    BY <1>1, <2>1
  <2>3. \A d \in Calls : jobs'[d].state # "none" => JobKept(d)'
    BY <1>2, <2>1, <2>2 DEF JobKept
  <2>4. \A d \in Calls \ {c} : fate'[d] = fate[d]
    BY <2>1 DEF SetFates
  <2> QED
    BY <1>2, <1>3, <2>2, <2>3, <2>4 DEF JobInv
<1>5. CASE CreatePool(t) /\ UNCHANGED dispatchVars
  <2> DEFINE p == current[t]
  <2>1. p \in Calls /\ step[t] = "create" /\ pools' = [pools EXCEPT ![p] = "open"] /\ jobs' = jobs
    BY <1>1, <1>5 DEF CreatePool
  <2>2. pools[p] = "none"
    BY <2>1 DEF StackInv, RouteInv, SubmitInv, LocalInv
  <2> HIDE DEF p
  <2>3. \A q \in Calls : pools[q] # "none" => pools'[q] = pools[q]
    BY <1>1, <2>1, <2>2
  <2>4. \A c \in Calls : jobs'[c].state # "none" => JobKept(c)'
    <3> SUFFICES ASSUME NEW c \in Calls, jobs[c].state # "none" PROVE JobKept(c)'
      BY <2>1
    <3>1. JobKept(c)
      BY <1>2
    <3>2. /\ pools[jobs[c].pool] = "open" => pools'[jobs[c].pool] = "open"
          /\ pools[jobs[c].pool] \in {"broken", "shut"} => pools'[jobs[c].pool] \in {"broken", "shut"}
      BY <2>3, <3>1 DEF JobKept
    <3> QED
      BY <2>1, <3>1, <3>2 DEF JobKept
  <2> QED
    BY <1>2, <1>3, <1>5, <2>1, <2>4 DEF JobInv, dispatchVars
<1>6. ASSUME UNCHANGED <<jobs, pools>>,
             route = "local" => \A c \in Calls : fate'[c] = "handed" => fate[c] = "handed"
      PROVE  JobInv'
  BY <1>2, <1>3, <1>6 DEF JobInv, JobKept
<1>7. ASSUME NEW cs, NEW f, f # "handed", SetFates(cs, f)
      PROVE  \A c \in Calls : fate'[c] = "handed" => fate[c] = "handed"
  BY <1>7 DEF SetFates
<1>8. CASE ~SubmitLocally(t) /\ UNCHANGED pools
  <2>1. UNCHANGED jobs
    BY <1>8
    DEF ThreadStep, Begin, Rollback, Commit, ExecuteOnCommit, Deliver, DeliverRaises,
        DeliverEagerlyRaises, DeliverLocally, DeliverEagerly, SubmitLocallyRaises, HooksDone,
        HooksRaise, BodyCommits, TaskReturns, TaskUnsaved, TaskFails, TaskRetries, TaskRaises,
        TaskEscapes, Escapes, poolVars, BeginSubmit, CheckPool, CreatePool, ReturnPool,
        SubmitRaises
  <2>2. route = "local" => UNCHANGED fate \/ \E cs, f : f # "handed" /\ SetFates(cs, f)
    BY <1>8
    DEF ThreadStep, Begin, Rollback, Commit, ExecuteOnCommit, Deliver, DeliverRaises,
        DeliverEagerlyRaises, DeliverLocally, DeliverEagerly, SubmitLocallyRaises, HooksDone,
        HooksRaise, BodyCommits, TaskReturns, TaskUnsaved, TaskFails, TaskRetries, TaskRaises,
        TaskEscapes, Escapes, dispatchVars
  <2> QED
    BY <1>6, <1>7, <1>8, <2>1, <2>2
<1> QED
  BY <1>4, <1>5, <1>8, ThreadPoolKinds

\* The workers, the signals and the end of the interpreter lose the jobs of a pool with
\* the pool, and no other.
LEMMA PoolJobs ==
    ASSUME StackInv, JobInv, PoolStep, UNCHANGED dispatchVars
    PROVE  JobInv'
<1>1. /\ pools \in [Calls -> {"none", "open", "broken", "shut"}]
      /\ jobs \in [Calls -> [state : {"none", "pending", "running", "done", "lost"},
                             pool : Calls \cup {None}]]
      /\ taken \in Calls \cup {None}
  BY DEF StackInv, TypeInv, DispatchTypeOK, PoolTypeOK
<1>2. /\ \A c \in Calls : jobs[c].state # "none" => JobKept(c)
      /\ route = "local" => \A c \in Calls : fate[c] = "handed" => jobs[c].state # "none"
      /\ route' = route /\ fate' = fate
  BY DEF JobInv, dispatchVars
<1>3. ASSUME \A c \in Calls : jobs'[c].state = "none" <=> jobs[c].state = "none",
             \A c \in Calls : jobs'[c].state # "none" => JobKept(c)'
      PROVE  JobInv'
  BY <1>2, <1>3 DEF JobInv
<1>4. CASE UNCHANGED <<jobs, pools>>
  BY <1>2, <1>3, <1>4 DEF JobKept
<1>5. ASSUME NEW c \in Calls, WorkerStarts(c) \/ WorkerEnds(c) PROVE JobInv'
  <2>1. PICK x \in {"running", "done"} :
          /\ jobs' = [jobs EXCEPT ![c].state = x] /\ pools' = pools
          /\ jobs[c].state \in {"pending", "running"}
    BY <1>5 DEF WorkerStarts, WorkerEnds
  <2>2. /\ jobs'[c].state = x /\ jobs'[c].pool = jobs[c].pool
        /\ \A d \in Calls \ {c} : jobs'[d] = jobs[d]
    BY <1>1, <2>1
  <2> QED
    BY <1>2, <1>3, <2>1, <2>2 DEF JobKept
<1>6. ASSUME NEW p \in Calls, NEW x \in {"broken", "shut"}, pools' = [pools EXCEPT ![p] = x],
             jobs' = Lose(p)
      PROVE  JobInv'
  <2>1. ASSUME NEW c \in Calls
        PROVE  /\ jobs'[c].pool = jobs[c].pool
               /\ jobs[c].pool = p /\ jobs[c].state \in {"pending", "running"} =>
                    jobs'[c].state = "lost"
               /\ ~(jobs[c].pool = p /\ jobs[c].state \in {"pending", "running"}) =>
                    jobs'[c] = jobs[c]
    BY <1>1, <1>6 DEF Lose, JobsOf
  <2>2. pools'[p] = x /\ \A q \in Calls \ {p} : pools'[q] = pools[q]
    BY <1>1, <1>6
  <2>3. ASSUME NEW c \in Calls, jobs'[c].state # "none" PROVE JobKept(c)'
    <3>1. jobs[c].state # "none" /\ JobKept(c)
      BY <1>2, <2>1, <2>3
    <3>2. CASE jobs[c].pool = p
      BY <2>1, <2>2, <3>1, <3>2 DEF JobKept
    <3>3. CASE jobs[c].pool # p
      BY <2>1, <2>2, <3>1, <3>3 DEF JobKept
    <3> QED
      BY <3>2, <3>3
  <2>4. \A c \in Calls : jobs'[c].state = "none" <=> jobs[c].state = "none"
    BY <2>1
  <2> QED
    BY <1>3, <2>3, <2>4
<1>7. CASE \E c \in Calls : WorkerDies(c)
  BY <1>6, <1>7 DEF WorkerDies
<1>8. CASE ShutdownPool
  BY <1>1, <1>4, <1>6, <1>8 DEF ShutdownPool
<1>9. CASE Exit
  <2>1. /\ jobs' = jobs /\ \A c \in Calls : jobs[c].state \notin {"pending", "running"}
        /\ \A c \in Calls : pools[c] # "none" => pools'[c] = "shut"
    BY <1>9 DEF Exit
  <2>2. \A c \in Calls : jobs[c].state # "none" => JobKept(c)'
    BY <1>2, <2>1 DEF JobKept
  <2> QED
    BY <1>3, <2>1, <2>2
<1> QED
  BY <1>4, <1>5, <1>7, <1>8, <1>9
  DEF PoolStep, UnhandledSignal, HandleSignal, SignalAgain, Chain, Finish

\* What has committed is held or in its pool, in every state of every behaviour.
THEOREM Keeps == DispatchSpec => [](HeldInv /\ JobInv)
<1>1. DispatchInit => HeldInv /\ JobInv
  <2> SUFFICES ASSUME DispatchInit PROVE HeldInv /\ JobInv
    OBVIOUS
  <2>1. \A t \in Threads : CallsOf(hooks[t]) = {} /\ current[t] = None
    BY CallsOfFacts DEF DispatchInit, PoolInit
  <2>2. HeldInv
    BY <2>1 DEF HeldInv, DispatchInit
  <2>3. JobInv
    BY DEF JobInv, DispatchInit, PoolInit, NoJob
  <2> QED
    BY <2>2, <2>3
<1>2. StackInv /\ SubmitInv /\ (HeldInv /\ JobInv) /\ [DispatchNext]_allVars => (HeldInv /\ JobInv)'
  <2> SUFFICES ASSUME StackInv, SubmitInv, HeldInv, JobInv, [DispatchNext]_allVars
               PROVE  HeldInv' /\ JobInv'
    OBVIOUS
  <2>1. ASSUME NEW t \in Threads, ThreadStep(t) PROVE HeldInv' /\ JobInv'
    BY <2>1, HeldSteps, ThreadJobs
  <2>2. ASSUME UNCHANGED dispatchVars, UNCHANGED <<step, current>> PROVE HeldInv'
    <3>1. /\ hooks' = hooks /\ settled' = settled /\ fate' = fate /\ stack' = stack
          /\ step' = step /\ current' = current
      BY <2>2 DEF dispatchVars
    <3> QED
      BY <3>1 DEF HeldInv, Held
  <2>3. CASE PoolStep /\ UNCHANGED dispatchVars
    BY <2>2, <2>3, PoolStepFrame, PoolJobs
  <2>4. CASE UNCHANGED allVars
    <3>1. JobInv'
      BY <2>4 DEF allVars, poolVars, dispatchVars, JobInv, JobKept
    <3> QED
      BY <2>2, <2>4, <3>1 DEF allVars, poolVars
  <2> QED
    BY <2>1, <2>3, <2>4 DEF DispatchNext, Gone
<1> QED
  BY <1>1, <1>2, Stacks, Pools, PTL DEF DispatchSpec

\* No invocation whose transaction has committed is forgotten: some list of hooks or some
\* submission has it until its turn comes, and the pool that accepted it stays open for
\* it, whatever the other threads make of _pool.
THEOREM CommittedCallsAreKept == DispatchSpec => []CommittedIsKept
<1>1. StackInv /\ HeldInv /\ JobInv => CommittedIsKept
  <2> SUFFICES ASSUME StackInv, HeldInv, JobInv, NEW c \in settled
               PROVE  /\ fate[c] \notin {"new", "discarded"}
                      /\ fate[c] = "hooked" => Held(c)
                      /\ route = "local" /\ fate[c] = "handed" => InPool(c)
    BY DEF CommittedIsKept
  <2>1. c \in Calls
    BY DEF StackInv, TypeInv, DispatchTypeOK
  <2>2. route = "local" /\ fate[c] = "handed" => InPool(c)
    BY <2>1 DEF JobInv, JobKept, InPool
  <2> QED
    BY <2>2 DEF HeldInv
<1> QED
  BY <1>1, Stacks, Keeps, PTL
=============================================================================
