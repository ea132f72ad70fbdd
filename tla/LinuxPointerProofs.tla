------------------------- MODULE LinuxPointerProofs -------------------------
(* Theorems about the Linux touch devices and the pen tablet, for every      *)
(* number of contacts, slots and tracking ids, every set of levels and every *)
(* number of failed writes.                                                  *)
EXTENDS LinuxTouch, LinuxPen, FiniteSetTheorems, WellFoundedInduction, TLAPS

-----------------------------------------------------------------------------
(* Scripts.  What a device makes of a script is a fold; it is taken apart    *)
(* into what each event does.                                                *)

(* What the kernel makes of one event, for both devices *)
Effect(device, k, event) ==
  IF device = "pen" THEN FeedPen(k, event) ELSE Feed(k, event)

(* f[e] is what the events numbered in e do, the highest number last *)
Runs(f, n, device, k, script) ==
  f = [e \in SUBSET (1..n) |->
         IF e = {} THEN k ELSE Effect(device, f[e \ {Max(e)}], script[Max(e)])]

(* The recursion has a solution: it is extended from n events to n + 1. *)
LEMMA MaxOf ==
  ASSUME NEW n \in Nat, NEW e \in SUBSET (1..n + 1), n + 1 \in e
  PROVE  Max(e) = n + 1 /\ e \ {n + 1} \in SUBSET (1..n)
<1>1. \A y \in e : y \in Int /\ n + 1 >= y
  OBVIOUS
<1>2. \A x \in e : (\A y \in e : x >= y) => x = n + 1
  BY <1>1
<1>3. Max(e) = n + 1
  <2>1. \E x \in e : \A y \in e : x >= y
    BY <1>1
  <2> QED BY <1>2, <2>1 DEF Max
<1>4. \A y \in e \ {n + 1} : y \in 1..n
  OBVIOUS
<1> QED BY <1>3, <1>4

LEMMA RunExtends ==
  ASSUME NEW n \in Nat, NEW device, NEW k, NEW script, NEW f, Runs(f, n, device, k, script)
  PROVE  \E g : Runs(g, n + 1, device, k, script)
<1> DEFINE g == [e \in SUBSET (1..n + 1) |->
                   IF n + 1 \in e THEN Effect(device, f[e \ {n + 1}], script[n + 1]) ELSE f[e]]
<1> DEFINE Value(e) == IF e = {} THEN k ELSE Effect(device, g[e \ {Max(e)}], script[Max(e)])
<1>1. SUFFICES ASSUME NEW e \in SUBSET (1..n + 1) PROVE g[e] = Value(e)
  <2>1. g = [e \in SUBSET (1..n + 1) |-> Value(e)] => Runs(g, n + 1, device, k, script)
    BY DEF Runs
  <2> HIDE DEF Value
  <2>2. (\A e \in SUBSET (1..n + 1) : g[e] = Value(e))
           => g = [e \in SUBSET (1..n + 1) |-> Value(e)]
    OBVIOUS
  <2> HIDE DEF g
  <2> QED BY <2>1, <2>2
<1>2. CASE n + 1 \in e
  <2>1. e \ {n + 1} \in SUBSET (1..n) /\ e \ {n + 1} \in SUBSET (1..n + 1)
    BY <1>2
  <2>2. Max(e) = n + 1
    BY <1>2, MaxOf
  <2>3. g[e \ {n + 1}] = f[e \ {n + 1}]
    BY <2>1
  <2>4. g[e] = Effect(device, f[e \ {n + 1}], script[n + 1])
    BY <1>2
  <2> QED BY <1>2, <2>2, <2>3, <2>4
<1>3. CASE n + 1 \notin e
  <2>1. e \in SUBSET (1..n)
    BY <1>3
  <2>2. e \ {Max(e)} \in SUBSET (1..n) /\ e \ {Max(e)} \in SUBSET (1..n + 1)
    BY <2>1
  <2>3. g[e] = f[e] /\ g[e \ {Max(e)}] = f[e \ {Max(e)}]
    BY <1>3, <2>2
  <2>4. f[e] = IF e = {} THEN k ELSE Effect(device, f[e \ {Max(e)}], script[Max(e)])
    BY <2>1 DEF Runs
  <2> QED BY <2>3, <2>4
<1> QED BY <1>2, <1>3

(* Hence it has one for scripts of every length: a shortest without would   *)
(* contradict the extension.                                                 *)
LEMMA RunExists ==
  ASSUME NEW n \in Nat, NEW device, NEW k, NEW script
  PROVE  \E f : Runs(f, n, device, k, script)
<1> DEFINE Without == {m \in Nat : ~ \E f : Runs(f, m, device, k, script)}
<1>1. 0 \notin Without
  <2>1. \A e \in SUBSET (1..0) : e = {}
    OBVIOUS
  <2>2. Runs([e \in SUBSET (1..0) |-> k], 0, device, k, script)
    BY <2>1 DEF Runs
  <2> QED BY <2>2
<1>2. ASSUME NEW m \in Nat, m \notin Without PROVE m + 1 \notin Without
  <2>1. PICK f : Runs(f, m, device, k, script)
    BY <1>2
  <2> QED BY <2>1, RunExtends
<1>3. ASSUME Without # {} PROVE FALSE
  <2>1. Without \subseteq Nat
    OBVIOUS
  <2> HIDE DEF Without
  <2>2. PICK m \in Without : \A l \in Without : ~ (<<l, m>> \in OpToRel(<, Nat))
    BY <1>3, <2>1, WFMin, NatLessThanWellFounded
  <2>3. m \in Nat /\ \A l \in Without : ~ (l < m)
    BY <2>1, <2>2 DEF OpToRel
  <2>4. m # 0
    BY <1>1, <2>2
  <2>5. m - 1 \in Nat /\ m - 1 \notin Without
    BY <2>3, <2>4
  <2>6. (m - 1) + 1 = m
    BY <2>3
  <2> QED BY <1>2, <2>2, <2>5, <2>6
<1> QED BY <1>3

(* Two solutions for scripts that begin alike agree on the beginning. *)
LEMMA RunStep ==
  ASSUME NEW n \in Nat, NEW device, NEW k, NEW script, NEW f, Runs(f, n, device, k, script)
  PROVE  /\ f[1..0] = k
         /\ \A m \in 1..n : f[1..m] = Effect(device, f[1..m - 1], script[m])
<1>1. 1..0 = {} /\ 1..0 \in SUBSET (1..n)
  OBVIOUS
<1>2. ASSUME NEW m \in 1..n
      PROVE  f[1..m] = Effect(device, f[1..m - 1], script[m])
  <2>1. 1..m \in SUBSET (1..n) /\ 1..m # {}
    OBVIOUS
  <2>2. Max(1..m) = m
    <3>1. m - 1 \in Nat /\ (m - 1) + 1 = m /\ m \in 1..m
      OBVIOUS
    <3> QED BY <3>1, MaxOf
  <2>3. (1..m) \ {m} = 1..m - 1
    OBVIOUS
  <2> QED BY <2>1, <2>2, <2>3 DEF Runs
<1> QED BY <1>1, <1>2 DEF Runs

LEMMA RunsAgree ==
  ASSUME NEW n \in Nat, NEW l \in Nat, NEW device, NEW k, NEW s, NEW t,
         NEW f, Runs(f, n, device, k, s), NEW g, Runs(g, l, device, k, t),
         n <= l, \A i \in 1..n : s[i] = t[i]
  PROVE  f[1..n] = g[1..n]
<1> DEFINE Differ == {m \in Nat : m <= n /\ f[1..m] # g[1..m]}
<1>1. SUFFICES Differ = {}
  OBVIOUS
<1>2. ASSUME Differ # {} PROVE FALSE
  <2>1. Differ \subseteq Nat
    OBVIOUS
  <2>2. PICK m \in Differ : \A j \in Differ : ~ (<<j, m>> \in OpToRel(<, Nat))
    <3> HIDE DEF Differ
    <3> QED BY <1>2, <2>1, WFMin, NatLessThanWellFounded
  <2>3. m \in Nat /\ m <= n /\ f[1..m] # g[1..m] /\ \A j \in Differ : ~ (j < m)
    BY <2>1, <2>2 DEF OpToRel
  <2>4. m # 0
    BY <2>3, RunStep
  <2>5. m - 1 \in Nat /\ m - 1 <= n /\ m - 1 \notin Differ /\ m \in 1..n /\ m \in 1..l
    BY <2>3, <2>4
  <2>6. f[1..m - 1] = g[1..m - 1]
    BY <2>5
  <2>7. f[1..m] = Effect(device, f[1..m - 1], s[m]) /\ g[1..m] = Effect(device, g[1..m - 1], t[m])
    BY <2>5, RunStep
  <2> QED BY <2>3, <2>5, <2>6, <2>7
<1> QED BY <1>2

(* What a device makes of a script *)
After(device, k, script) ==
  IF device = "pen" THEN FoldLeft(FeedPen, k, script) ELSE FoldLeft(Feed, k, script)

LEMMA AfterRuns ==
  ASSUME NEW device \in {"pen", "touch"}, NEW k, NEW script, NEW n \in Nat, DOMAIN script = 1..n
  PROVE  \E f : Runs(f, n, device, k, script) /\ After(device, k, script) = f[1..n]
<1>1. PICK g : Runs(g, n, device, k, script)
  BY RunExists
<1>2. CASE device = "pen"
  <2> DEFINE Pen(f) == f = [e \in SUBSET (DOMAIN script) |->
                              IF e = {} THEN k ELSE FeedPen(f[e \ {Max(e)}], script[Max(e)])]
  <2>1. FoldLeft(FeedPen, k, script) = (CHOOSE f : Pen(f))[DOMAIN script]
    BY DEF FoldLeft, MapThenFoldSet
  <2>2. \A f : Pen(f) <=> Runs(f, n, device, k, script)
    BY <1>2 DEF Runs, Effect
  <2> HIDE DEF Pen
  <2>3. Pen(CHOOSE f : Pen(f))
    BY <1>1, <2>2
  <2> QED BY <1>2, <2>1, <2>2, <2>3 DEF After
<1>3. CASE device = "touch"
  <2> DEFINE Touch(f) == f = [e \in SUBSET (DOMAIN script) |->
                                IF e = {} THEN k ELSE Feed(f[e \ {Max(e)}], script[Max(e)])]
  <2>1. FoldLeft(Feed, k, script) = (CHOOSE f : Touch(f))[DOMAIN script]
    BY DEF FoldLeft, MapThenFoldSet
  <2>2. \A f : Touch(f) <=> Runs(f, n, device, k, script)
    BY <1>3 DEF Runs, Effect
  <2> HIDE DEF Touch
  <2>3. Touch(CHOOSE f : Touch(f))
    BY <1>1, <2>2
  <2> QED BY <1>3, <2>1, <2>2, <2>3 DEF After
<1> QED BY <1>2, <1>3

LEMMA AfterNothing ==
  ASSUME NEW device \in {"pen", "touch"}, NEW k
  PROVE  After(device, k, <<>>) = k
<1>1. DOMAIN <<>> = 1..0
  OBVIOUS
<1>2. PICK f : Runs(f, 0, device, k, <<>>) /\ After(device, k, <<>>) = f[1..0]
  BY <1>1, AfterRuns
<1> QED BY <1>2, RunStep

LEMMA AfterOneMore ==
  ASSUME NEW device \in {"pen", "touch"}, NEW k, NEW E, NEW s \in Seq(E), NEW event \in E
  PROVE  After(device, k, Append(s, event)) = Effect(device, After(device, k, s), event)
<1> DEFINE n == Len(s)
           t == Append(s, event)
<1>1. /\ n \in Nat /\ DOMAIN s = 1..n /\ DOMAIN t = 1..n + 1
      /\ \A i \in 1..n : s[i] = t[i]
      /\ t[n + 1] = event
  OBVIOUS
<1> HIDE DEF n, t
<1>2. PICK f : Runs(f, n, device, k, s) /\ After(device, k, s) = f[1..n]
  BY <1>1, AfterRuns
<1>3. PICK g : Runs(g, n + 1, device, k, t) /\ After(device, k, t) = g[1..n + 1]
  BY <1>1, AfterRuns
<1>4. n + 1 \in Nat /\ n <= n + 1 /\ (n + 1) - 1 = n /\ n + 1 \in 1..n + 1
  BY <1>1
<1>5. f[1..n] = g[1..n]
  BY <1>1, <1>2, <1>3, <1>4, RunsAgree
<1>6. g[1..n + 1] = Effect(device, g[1..(n + 1) - 1], t[n + 1])
  BY <1>3, <1>4, RunStep
<1> QED BY <1>1, <1>2, <1>3, <1>4, <1>5, <1>6 DEF t

LEMMA AfterBoth ==
  ASSUME NEW device \in {"pen", "touch"}, NEW k, NEW E, NEW s \in Seq(E), NEW t \in Seq(E)
  PROVE  After(device, k, s \o t) = After(device, After(device, k, s), t)
<1> DEFINE Part(m) == SubSeq(t, 1, m)
           Wrong == {m \in Nat : m <= Len(t) /\ After(device, k, s \o Part(m))
                                              # After(device, After(device, k, s), Part(m))}
<1>1. Part(Len(t)) = t /\ Len(t) \in Nat
  OBVIOUS
<1>2. SUFFICES Wrong = {}
  <2>1. Len(t) \notin Wrong
    BY <1>2
  <2> HIDE DEF Part
  <2> QED BY <1>1, <2>1
<1>3. ASSUME Wrong # {} PROVE FALSE
  <2>1. Wrong \subseteq Nat
    OBVIOUS
  <2>2. PICK m \in Wrong : \A j \in Wrong : ~ (<<j, m>> \in OpToRel(<, Nat))
    <3> HIDE DEF Wrong
    <3> QED BY <1>3, <2>1, WFMin, NatLessThanWellFounded
  <2>3. m \in Nat /\ m <= Len(t) /\ \A j \in Wrong : ~ (j < m)
    BY <2>1, <2>2 DEF OpToRel
  <2>4. m # 0
    <3>1. Part(0) = <<>> /\ s \o <<>> = s
      OBVIOUS
    <3> HIDE DEF Part
    <3> QED BY <2>2, <3>1, AfterNothing
  <2>5. m - 1 \in Nat /\ m - 1 <= Len(t) /\ m - 1 \notin Wrong /\ m \in 1..Len(t)
    <3> HIDE DEF Wrong
    <3> QED BY <2>3, <2>4
  <2>6. After(device, k, s \o Part(m - 1)) = After(device, After(device, k, s), Part(m - 1))
    <3> HIDE DEF Part
    <3> QED BY <2>5
  <2>7. /\ Part(m) = Append(Part(m - 1), t[m]) /\ Part(m - 1) \in Seq(E)
        /\ t[m] \in E
    BY <2>5
  <2> HIDE DEF Part
  <2>8. s \o Part(m) = Append(s \o Part(m - 1), t[m]) /\ s \o Part(m - 1) \in Seq(E)
    BY <2>7
  <2>9. After(device, k, s \o Part(m))
          = Effect(device, After(device, k, s \o Part(m - 1)), t[m])
    <3> DEFINE before == s \o Part(m - 1)
    <3>1. before \in Seq(E) /\ s \o Part(m) = Append(before, t[m])
      BY <2>8
    <3> HIDE DEF before
    <3>2. After(device, k, Append(before, t[m])) = Effect(device, After(device, k, before), t[m])
      BY <2>7, <3>1, AfterOneMore
    <3> QED BY <3>1, <3>2 DEF before
  <2>10. After(device, After(device, k, s), Part(m))
           = Effect(device, After(device, After(device, k, s), Part(m - 1)), t[m])
    BY <2>7, AfterOneMore
  <2> QED BY <2>2, <2>6, <2>9, <2>10
<1> QED BY <1>3

LEMMA AfterOne ==
  ASSUME NEW device \in {"pen", "touch"}, NEW k, NEW E, NEW a \in E
  PROVE  After(device, k, <<a>>) = Effect(device, k, a)
<1> DEFINE s == <<>>
<1>1. <<a>> = Append(s, a) /\ s \in Seq(E)
  OBVIOUS
<1> HIDE DEF s
<1>2. After(device, k, Append(s, a)) = Effect(device, After(device, k, s), a)
  BY <1>1, AfterOneMore
<1> QED BY <1>1, <1>2, AfterNothing DEF s

LEMMA AfterTwo ==
  ASSUME NEW device \in {"pen", "touch"}, NEW k, NEW E, NEW a \in E, NEW b \in E
  PROVE  After(device, k, <<a, b>>) = Effect(device, Effect(device, k, a), b)
<1> DEFINE s == <<a>>
<1>1. <<a, b>> = Append(s, b) /\ s \in Seq(E)
  OBVIOUS
<1> HIDE DEF s
<1>2. After(device, k, Append(s, b)) = Effect(device, After(device, k, s), b)
  BY <1>1, AfterOneMore
<1> QED BY <1>1, <1>2, AfterOne DEF s

LEMMA AfterThree ==
  ASSUME NEW device \in {"pen", "touch"}, NEW k, NEW E, NEW a \in E, NEW b \in E, NEW c \in E
  PROVE  After(device, k, <<a, b, c>>)
           = Effect(device, Effect(device, Effect(device, k, a), b), c)
<1> DEFINE s == <<a, b>>
<1>1. <<a, b, c>> = Append(s, c) /\ s \in Seq(E)
  OBVIOUS
<1> HIDE DEF s
<1>2. After(device, k, Append(s, c)) = Effect(device, After(device, k, s), c)
  BY <1>1, AfterOneMore
<1>3. After(device, k, <<a, b>>) = Effect(device, Effect(device, k, a), b)
  BY AfterTwo
<1> QED BY <1>1, <1>2, <1>3 DEF s

LEMMA AfterFour ==
  ASSUME NEW device \in {"pen", "touch"}, NEW k, NEW E,
         NEW a \in E, NEW b \in E, NEW c \in E, NEW d \in E
  PROVE  After(device, k, <<a, b, c, d>>)
           = Effect(device, After(device, k, <<a, b, c>>), d)
<1> DEFINE s == <<a, b, c>>
<1>1. <<a, b, c, d>> = Append(s, d) /\ s \in Seq(E)
  OBVIOUS
<1> HIDE DEF s
<1>2. After(device, k, Append(s, d)) = Effect(device, After(device, k, s), d)
  BY <1>1, AfterOneMore
<1> QED BY <1>1, <1>2 DEF s

LEMMA AfterFive ==
  ASSUME NEW device \in {"pen", "touch"}, NEW k, NEW E,
         NEW a \in E, NEW b \in E, NEW c \in E, NEW d \in E, NEW e \in E
  PROVE  After(device, k, <<a, b, c, d, e>>)
           = Effect(device, After(device, k, <<a, b, c, d>>), e)
<1> DEFINE s == <<a, b, c, d>>
<1>1. <<a, b, c, d, e>> = Append(s, e) /\ s \in Seq(E)
  OBVIOUS
<1> HIDE DEF s
<1>2. After(device, k, Append(s, e)) = Effect(device, After(device, k, s), e)
  BY <1>1, AfterOneMore
<1> QED BY <1>1, <1>2 DEF s

LEMMA AfterSix ==
  ASSUME NEW device \in {"pen", "touch"}, NEW k, NEW E,
         NEW a \in E, NEW b \in E, NEW c \in E, NEW d \in E, NEW e \in E, NEW f \in E
  PROVE  After(device, k, <<a, b, c, d, e, f>>)
           = Effect(device, After(device, k, <<a, b, c, d, e>>), f)
<1> DEFINE s == <<a, b, c, d, e>>
<1>1. <<a, b, c, d, e, f>> = Append(s, f) /\ s \in Seq(E)
  OBVIOUS
<1> HIDE DEF s
<1>2. After(device, k, Append(s, f)) = Effect(device, After(device, k, s), f)
  BY <1>1, AfterOneMore
<1> QED BY <1>1, <1>2 DEF s

-----------------------------------------------------------------------------
(* The pen *)

PenCodes ==
  {"PRESSURE", "DISTANCE", "POSITION", "TILT", "SYN"} \cup ToolKeys \cup PenButtons
PenEvents == PenCodes \X Int
PenKernels == [keys : SUBSET (ToolKeys \cup PenButtons), pressure : Int, distance : Int]
PenKeyed(k, code, down) ==
  [k EXCEPT !.keys = IF down THEN @ \cup {code} ELSE @ \ {code}]

LEMMA PenKeyEffect ==
  ASSUME NEW k \in PenKernels, NEW code \in ToolKeys \cup PenButtons, NEW down \in BOOLEAN
  PROVE  /\ Key(code, down) \in PenEvents
         /\ Effect("pen", k, Key(code, down)) = PenKeyed(k, code, down)
         /\ PenKeyed(k, code, down) \in PenKernels
<1>1. code # "PRESSURE" /\ code # "DISTANCE"
  BY DEF ToolKeys, PenButtons
<1>2. Key(code, down)[1] = code /\ Key(code, down)[2] = (IF down THEN 1 ELSE 0)
  BY DEF Key
<1>3. Key(code, down) \in PenEvents
  BY DEF Key, PenEvents, PenCodes
<1>4. Effect("pen", k, Key(code, down))
        = [k EXCEPT !.keys = KeysAfter(@, Key(code, down))]
  BY <1>1, <1>2 DEF Effect, FeedPen
<1>5. KeysAfter(k.keys, Key(code, down))
        = IF down THEN k.keys \cup {code} ELSE k.keys \ {code}
  BY <1>2 DEF KeysAfter
<1>6. PenKeyed(k, code, down) \in PenKernels
  BY DEF PenKernels, PenKeyed
<1> QED BY <1>3, <1>4, <1>5, <1>6 DEF PenKeyed

LEMMA PenAxisEffect ==
  ASSUME NEW k \in PenKernels, NEW v \in Int
  PROVE  /\ <<"PRESSURE", v>> \in PenEvents /\ <<"DISTANCE", v>> \in PenEvents
         /\ Effect("pen", k, <<"PRESSURE", v>>) = [k EXCEPT !.pressure = v]
         /\ Effect("pen", k, <<"DISTANCE", v>>) = [k EXCEPT !.distance = v]
         /\ [k EXCEPT !.pressure = v] \in PenKernels
         /\ [k EXCEPT !.distance = v] \in PenKernels
<1> DEFINE a == <<"PRESSURE", v>>
           b == <<"DISTANCE", v>>
<1>1. a[1] = "PRESSURE" /\ a[2] = v /\ b[1] = "DISTANCE" /\ b[2] = v
  OBVIOUS
<1>2. a \in PenEvents /\ b \in PenEvents
  BY DEF PenEvents, PenCodes
<1>3. [k EXCEPT !.pressure = v] \in PenKernels /\ [k EXCEPT !.distance = v] \in PenKernels
  BY DEF PenKernels
<1> HIDE DEF a, b
<1> DEFINE others == ToolKeys \cup PenButtons
<1>6. "PRESSURE" \notin others /\ "DISTANCE" \notin others
  BY DEF ToolKeys, PenButtons
<1>4. Effect("pen", k, a) = [k EXCEPT !.pressure = v]
  <2>1. FeedPen(k, a) = [k EXCEPT !.pressure = v]
    BY <1>1, <1>6 DEF FeedPen
  <2> QED BY <2>1 DEF Effect
<1>5. Effect("pen", k, b) = [k EXCEPT !.distance = v]
  <2>1. FeedPen(k, b) = [k EXCEPT !.distance = v]
    BY <1>1, <1>6 DEF FeedPen
  <2> QED BY <2>1 DEF Effect
<1> QED BY <1>2, <1>3, <1>4, <1>5 DEF a, b

LEMMA PenOtherEffect ==
  ASSUME NEW k
  PROVE  /\ <<"POSITION", 0>> \in PenEvents /\ Effect("pen", k, <<"POSITION", 0>>) = k
         /\ <<"TILT", 0>> \in PenEvents /\ Effect("pen", k, <<"TILT", 0>>) = k
         /\ Syn \in PenEvents /\ Effect("pen", k, Syn) = k
<1>1. ASSUME NEW e, e[1] \in {"POSITION", "TILT", "SYN"} PROVE Effect("pen", k, e) = k
  <2>1. e[1] # "PRESSURE" /\ e[1] # "DISTANCE" /\ e[1] \notin ToolKeys \cup PenButtons
    BY <1>1 DEF ToolKeys, PenButtons
  <2> QED BY <2>1 DEF Effect, FeedPen
<1>2. ASSUME NEW code \in {"POSITION", "TILT", "SYN"}
      PROVE  <<code, 0>> \in PenEvents /\ Effect("pen", k, <<code, 0>>) = k
  <2>1. <<code, 0>>[1] = code
    OBVIOUS
  <2> QED BY <1>1, <2>1 DEF PenEvents, PenCodes
<1> QED BY <1>2 DEF Syn

LEMMA ToolKeyOf ==
  ASSUME NEW tool \in Tools \ {"unchanged"}
  PROVE  ToolKey(tool) \in ToolKeys
BY DEF Tools, ToolKey, ToolKeys

(* What a level is on its axis, and that it fits there *)
LEMMA AxisValues ==
  ASSUME NEW level \in Int, NEW max \in Nat
  PROVE  /\ AxisValue(level, max) \in Int
         /\ level >= 0 => AxisValue(level, max) \in 0..max
BY DEF AxisValue

(* What each part of a call's script makes of the kernel *)
WithTool(k, last, tool) ==
  IF tool \in {"unchanged", last} THEN k
  ELSE IF last = "unchanged" THEN PenKeyed(k, ToolKey(tool), TRUE)
  ELSE PenKeyed(PenKeyed(k, ToolKey(tool), TRUE), ToolKey(last), FALSE)
WithPressure(k, p) ==
  IF p < 0 THEN k
  ELSE PenKeyed([k EXCEPT !.pressure = AxisValue(p, PressureMax), !.distance = 0],
                "BTN_TOUCH", p > 0)
WithDistance(k, d) ==
  IF d < 0 THEN k
  ELSE PenKeyed([k EXCEPT !.distance = AxisValue(d, DistanceMax), !.pressure = 0],
                "BTN_TOUCH", FALSE)

LEMMA ToolScriptEffect ==
  ASSUME NEW k \in PenKernels, NEW tool \in Tools, last_tool \in Tools
  PROVE  /\ PenToolScript(tool) \in Seq(PenEvents)
         /\ After("pen", k, PenToolScript(tool)) = WithTool(k, last_tool, tool)
         /\ WithTool(k, last_tool, tool) \in PenKernels
         /\ PenToolScript(tool) # <<>> <=> tool \notin {"unchanged", last_tool}
<1> DEFINE up == Key(ToolKey(tool), TRUE)
           down == Key(ToolKey(last_tool), FALSE)
<1>1. CASE tool \in {"unchanged", last_tool}
  <2>1. PenToolScript(tool) = <<>> /\ WithTool(k, last_tool, tool) = k
    BY <1>1 DEF PenToolScript, WithTool
  <2> QED BY <1>1, <2>1, AfterNothing
<1>2. CASE tool \notin {"unchanged", last_tool} /\ last_tool = "unchanged"
  <2>1. PenToolScript(tool) = <<up>> \o <<>>
    BY <1>2 DEF PenToolScript
  <2>2. /\ up \in PenEvents /\ Effect("pen", k, up) = PenKeyed(k, ToolKey(tool), TRUE)
        /\ PenKeyed(k, ToolKey(tool), TRUE) \in PenKernels
    BY <1>2, ToolKeyOf, PenKeyEffect
  <2> HIDE DEF up
  <2>3. PenToolScript(tool) = <<up>> /\ <<up>> \in Seq(PenEvents) /\ <<up>> # <<>>
    BY <2>1, <2>2
  <2>4. After("pen", k, <<up>>) = Effect("pen", k, up)
    BY <2>2, AfterOne
  <2> QED BY <1>2, <2>2, <2>3, <2>4 DEF WithTool
<1>3. CASE tool \notin {"unchanged", last_tool} /\ last_tool # "unchanged"
  <2>1. PenToolScript(tool) = <<up>> \o <<down>>
    BY <1>3 DEF PenToolScript
  <2> DEFINE k1 == PenKeyed(k, ToolKey(tool), TRUE)
             k2 == PenKeyed(k1, ToolKey(last_tool), FALSE)
  <2>2. up \in PenEvents /\ Effect("pen", k, up) = k1 /\ k1 \in PenKernels
    BY <1>3, ToolKeyOf, PenKeyEffect
  <2>3. down \in PenEvents /\ Effect("pen", k1, down) = k2 /\ k2 \in PenKernels
    <3> HIDE DEF k1
    <3> QED BY <1>3, <2>2, ToolKeyOf, PenKeyEffect
  <2>4. WithTool(k, last_tool, tool) = k2
    BY <1>3 DEF WithTool
  <2> HIDE DEF up, down, k1, k2
  <2> DEFINE first == <<up>>
             last == <<down>>
  <2>5. /\ first \in Seq(PenEvents) /\ last \in Seq(PenEvents)
        /\ Len(first) = 1
        /\ PenToolScript(tool) = first \o last
    BY <2>1, <2>2, <2>3
  <2>6. After("pen", k, first) = k1 /\ After("pen", k1, last) = k2
    BY <2>2, <2>3, AfterOne
  <2> HIDE DEF first, last
  <2>7. After("pen", k, first \o last) = k2
    BY <2>5, <2>6, AfterBoth
  <2>8. first \o last \in Seq(PenEvents) /\ Len(first \o last) # 0
    BY <2>5
  <2>9. Len(<<>>) = 0
    OBVIOUS
  <2> QED BY <1>3, <2>3, <2>4, <2>5, <2>7, <2>8, <2>9
<1> QED BY <1>1, <1>2, <1>3

LEMMA PressureEffect ==
  ASSUME NEW k \in PenKernels, NEW p \in Int
  PROVE  /\ PressureScript(p) \in Seq(PenEvents)
         /\ After("pen", k, PressureScript(p)) = WithPressure(k, p)
         /\ WithPressure(k, p) \in PenKernels
<1>1. CASE p < 0
  BY <1>1, AfterNothing DEF PressureScript, WithPressure
<1>2. CASE ~ (p < 0)
  <2> DEFINE v == AxisValue(p, PressureMax)
             a == <<"PRESSURE", v>>
             b == <<"DISTANCE", 0>>
             down == p > 0
             c == Key("BTN_TOUCH", down)
             k1 == [k EXCEPT !.pressure = v]
             k2 == [k1 EXCEPT !.distance = 0]
             k3 == PenKeyed(k2, "BTN_TOUCH", down)
  <2>0. v \in Int
    BY LevelsAreIntegers, AxisValues DEF LevelsAreIntegers
  <2>1. a \in PenEvents /\ Effect("pen", k, a) = k1 /\ k1 \in PenKernels
    <3> HIDE DEF v
    <3> QED BY <2>0, PenAxisEffect
  <2>2. b \in PenEvents /\ Effect("pen", k1, b) = k2 /\ k2 \in PenKernels
    <3>1. k1 \in PenKernels /\ 0 \in Int
      BY <2>1
    <3> HIDE DEF k1
    <3> QED BY <3>1, PenAxisEffect
  <2>3. c \in PenEvents /\ Effect("pen", k2, c) = k3 /\ k3 \in PenKernels
    <3>1. down \in BOOLEAN /\ "BTN_TOUCH" \in ToolKeys
      BY DEF ToolKeys
    <3> HIDE DEF k2, down
    <3> QED BY <2>2, <3>1, PenKeyEffect
  <2>4. PressureScript(p) = <<a, b, c>>
    BY <1>2 DEF PressureScript
  <2>5. WithPressure(k, p) = k3
    BY <1>2 DEF WithPressure
  <2> HIDE DEF a, b, c, k1, k2, k3
  <2>6. After("pen", k, <<a, b, c>>) = Effect("pen", Effect("pen", Effect("pen", k, a), b), c)
    BY <2>1, <2>2, <2>3, AfterThree
  <2> QED BY <2>1, <2>2, <2>3, <2>4, <2>5, <2>6
<1> QED BY <1>1, <1>2

LEMMA DistanceEffect ==
  ASSUME NEW k \in PenKernels, NEW d \in Int
  PROVE  /\ DistanceScript(d) \in Seq(PenEvents)
         /\ After("pen", k, DistanceScript(d)) = WithDistance(k, d)
         /\ WithDistance(k, d) \in PenKernels
<1>1. CASE d < 0
  BY <1>1, AfterNothing DEF DistanceScript, WithDistance
<1>2. CASE ~ (d < 0)
  <2> DEFINE v == AxisValue(d, DistanceMax)
             a == <<"DISTANCE", v>>
             b == <<"PRESSURE", 0>>
             c == Key("BTN_TOUCH", FALSE)
             k1 == [k EXCEPT !.distance = v]
             k2 == [k1 EXCEPT !.pressure = 0]
             k3 == PenKeyed(k2, "BTN_TOUCH", FALSE)
  <2>0. v \in Int
    BY LevelsAreIntegers, AxisValues DEF LevelsAreIntegers
  <2>1. a \in PenEvents /\ Effect("pen", k, a) = k1 /\ k1 \in PenKernels
    <3> HIDE DEF v
    <3> QED BY <2>0, PenAxisEffect
  <2>2. b \in PenEvents /\ Effect("pen", k1, b) = k2 /\ k2 \in PenKernels
    <3>1. k1 \in PenKernels /\ 0 \in Int
      BY <2>1
    <3> HIDE DEF k1
    <3> QED BY <3>1, PenAxisEffect
  <2>3. c \in PenEvents /\ Effect("pen", k2, c) = k3 /\ k3 \in PenKernels
    <3>1. "BTN_TOUCH" \in ToolKeys
      BY DEF ToolKeys
    <3> HIDE DEF k2
    <3> QED BY <2>2, <3>1, PenKeyEffect
  <2>4. DistanceScript(d) = <<a, b, c>>
    BY <1>2 DEF DistanceScript
  <2>5. WithDistance(k, d) = k3
    BY <1>2 DEF WithDistance
  <2> HIDE DEF a, b, c, k1, k2, k3
  <2>6. After("pen", k, <<a, b, c>>) = Effect("pen", Effect("pen", Effect("pen", k, a), b), c)
    BY <2>1, <2>2, <2>3, AfterThree
  <2> QED BY <2>1, <2>2, <2>3, <2>4, <2>5, <2>6
<1> QED BY <1>1, <1>2

(* A whole call that places the pen *)
PlaceScript(tool, p, d) ==
  PenToolScript(tool) \o << <<"POSITION", 0>> >> \o PressureScript(p)
    \o DistanceScript(d) \o << <<"TILT", 0>>, Syn >>
Placed(k, tool, p, d) == WithDistance(WithPressure(WithTool(k, last_tool, tool), p), d)

LEMMA PlaceEffect ==
  ASSUME NEW k \in PenKernels, NEW tool \in Tools, last_tool \in Tools,
         NEW p \in Int, NEW d \in Int
  PROVE  /\ PlaceScript(tool, p, d) \in Seq(PenEvents)
         /\ After("pen", k, PlaceScript(tool, p, d)) = Placed(k, tool, p, d)
         /\ Placed(k, tool, p, d) \in PenKernels
         /\ Len(PenToolScript(tool)) <= Len(PlaceScript(tool, p, d))
<1> DEFINE change == PenToolScript(tool)
           position == << <<"POSITION", 0>> >>
           pressure == PressureScript(p)
           distance == DistanceScript(d)
           rest == << <<"TILT", 0>>, Syn >>
           k1 == WithTool(k, last_tool, tool)
           k2 == WithPressure(k1, p)
           k3 == WithDistance(k2, d)
<1>1. change \in Seq(PenEvents) /\ After("pen", k, change) = k1 /\ k1 \in PenKernels
  BY ToolScriptEffect
<1>2. position \in Seq(PenEvents) /\ After("pen", k1, position) = k1
  <2>1. <<"POSITION", 0>> \in PenEvents /\ Effect("pen", k1, <<"POSITION", 0>>) = k1
    BY PenOtherEffect
  <2> HIDE DEF k1
  <2>2. After("pen", k1, position) = Effect("pen", k1, <<"POSITION", 0>>)
    BY <2>1, AfterOne
  <2> QED BY <2>1, <2>2
<1>3. pressure \in Seq(PenEvents) /\ After("pen", k1, pressure) = k2 /\ k2 \in PenKernels
  BY <1>1, PressureEffect
<1>4. distance \in Seq(PenEvents) /\ After("pen", k2, distance) = k3 /\ k3 \in PenKernels
  BY <1>3, DistanceEffect
<1>5. rest \in Seq(PenEvents) /\ After("pen", k3, rest) = k3
  <2> DEFINE tilt == <<"TILT", 0>>
  <2>1. /\ tilt \in PenEvents /\ Effect("pen", k3, tilt) = k3
        /\ Syn \in PenEvents /\ Effect("pen", k3, Syn) = k3
    BY PenOtherEffect
  <2>2. rest = <<tilt, Syn>>
    OBVIOUS
  <2> HIDE DEF k3, tilt, rest
  <2>3. After("pen", k3, <<tilt, Syn>>) = Effect("pen", Effect("pen", k3, tilt), Syn)
    BY <2>1, AfterTwo
  <2>4. <<tilt, Syn>> \in Seq(PenEvents)
    BY <2>1
  <2> QED BY <2>1, <2>2, <2>3, <2>4
<1>6. /\ PlaceScript(tool, p, d) = change \o position \o pressure \o distance \o rest
      /\ Placed(k, tool, p, d) = k3
  BY DEF PlaceScript, Placed
<1> HIDE DEF change, position, pressure, distance, rest, k1, k2, k3
<1> DEFINE s1 == change \o position
           s2 == s1 \o pressure
           s3 == s2 \o distance
<1>7. /\ s1 \in Seq(PenEvents) /\ Len(change) <= Len(s1)
      /\ After("pen", k, s1) = k1
  <2>1. After("pen", k, s1) = After("pen", After("pen", k, change), position)
    BY <1>1, <1>2, AfterBoth
  <2>2. s1 \in Seq(PenEvents) /\ Len(change) <= Len(s1)
    BY <1>1, <1>2
  <2> QED BY <1>1, <1>2, <2>1, <2>2
<1> HIDE DEF s1
<1>8. /\ s2 \in Seq(PenEvents) /\ Len(s1) <= Len(s2)
      /\ After("pen", k, s2) = k2
  <2>1. After("pen", k, s2) = After("pen", After("pen", k, s1), pressure)
    BY <1>7, <1>3, AfterBoth
  <2>2. s2 \in Seq(PenEvents) /\ Len(s1) <= Len(s2)
    BY <1>7, <1>3
  <2> QED BY <1>7, <1>3, <2>1, <2>2
<1> HIDE DEF s2
<1>9. /\ s3 \in Seq(PenEvents) /\ Len(s2) <= Len(s3)
      /\ After("pen", k, s3) = k3
  <2>1. After("pen", k, s3) = After("pen", After("pen", k, s2), distance)
    BY <1>8, <1>4, AfterBoth
  <2>2. s3 \in Seq(PenEvents) /\ Len(s2) <= Len(s3)
    BY <1>8, <1>4
  <2> QED BY <1>8, <1>4, <2>1, <2>2
<1> HIDE DEF s3
<1>10. /\ s3 \o rest \in Seq(PenEvents) /\ Len(s3) <= Len(s3 \o rest)
       /\ After("pen", k, s3 \o rest) = k3
  <2>1. After("pen", k, s3 \o rest) = After("pen", After("pen", k, s3), rest)
    BY <1>9, <1>5, AfterBoth
  <2>2. s3 \o rest \in Seq(PenEvents) /\ Len(s3) <= Len(s3 \o rest)
    BY <1>9, <1>5
  <2> QED BY <1>9, <1>5, <2>1, <2>2
<1>11. PlaceScript(tool, p, d) = s3 \o rest
  BY <1>6 DEF s1, s2, s3
<1>12. Len(change) <= Len(s3 \o rest)
  BY <1>1, <1>7, <1>8, <1>9, <1>10
<1> QED BY <1>4, <1>6, <1>10, <1>11, <1>12 DEF change

PenTypes ==
  /\ pen \in {"none", "open", "closed"}
  /\ last_tool \in Tools
  /\ penTouch \in BOOLEAN
  /\ penFailures \in Nat
  /\ penFailures = 0 => penKernel \in PenKernels

(* Both halves of the property, of a kernel k and a last tool; faint: was    *)
(* the last pressure given one that rounds to nothing                        *)
OneTool(k, last) == k.keys \ (PenButtons \cup {"BTN_TOUCH"}) = {last} \ {"unchanged", "touch"}
OneContact(k, faint) ==
  /\ k.pressure > 0 => "BTN_TOUCH" \in k.keys
  /\ "BTN_TOUCH" \in k.keys => k.distance = 0
  /\ "BTN_TOUCH" \in k.keys /\ k.pressure = 0 => faint

PenInv ==
  /\ PenTypes
  /\ pen # "closed" /\ penFailures = 0 =>
       /\ OneTool(penKernel, last_tool)
       /\ ~penTouch => last_tool # "touch" /\ OneContact(penKernel, penFaint)

(* Every part of the script keeps them. *)
LEMMA ToolKeeps ==
  ASSUME NEW k \in PenKernels, NEW last \in Tools, NEW tool \in Tools, NEW faint,
         OneTool(k, last)
  PROVE  /\ OneTool(WithTool(k, last, tool), IF tool \in {"unchanged", last} THEN last ELSE tool)
         /\ last # "touch" /\ tool # "touch" /\ OneContact(k, faint) =>
              OneContact(WithTool(k, last, tool), faint)
<1>1. CASE tool \in {"unchanged", last}
  BY <1>1 DEF WithTool
<1>2. CASE tool \notin {"unchanged", last}
  <2> DEFINE keys == IF last = "unchanged" THEN k.keys \cup {ToolKey(tool)}
                     ELSE (k.keys \cup {ToolKey(tool)}) \ {ToolKey(last)}
  <2>1. WithTool(k, last, tool) = [k EXCEPT !.keys = keys]
    BY <1>2 DEF WithTool, PenKeyed, PenKernels
  <2>2. /\ WithTool(k, last, tool).keys = keys
        /\ WithTool(k, last, tool).pressure = k.pressure
        /\ WithTool(k, last, tool).distance = k.distance
    <3> HIDE DEF keys
    <3> QED BY <2>1 DEF PenKernels
  <2>3. tool \in {"pen", "eraser", "touch"} /\ last \in {"pen", "eraser", "touch", "unchanged"}
    BY <1>2 DEF Tools
  <2>4. keys \ (PenButtons \cup {"BTN_TOUCH"}) = {tool} \ {"unchanged", "touch"}
    BY <1>2, <2>3 DEF OneTool, ToolKey, PenButtons
  <2>5. last # "touch" /\ tool # "touch" => ("BTN_TOUCH" \in keys <=> "BTN_TOUCH" \in k.keys)
    BY <2>3 DEF ToolKey
  <2> HIDE DEF keys
  <2> QED BY <1>2, <2>2, <2>4, <2>5 DEF OneTool, OneContact
<1> QED BY <1>1, <1>2

LEMMA PressureKeeps ==
  ASSUME NEW k \in PenKernels, NEW p \in Int, NEW last, NEW faint
  PROVE  /\ OneTool(k, last) => OneTool(WithPressure(k, p), last)
         /\ OneContact(k, faint) =>
              OneContact(WithPressure(k, p), IF p < 0 THEN faint ELSE Faint(p))
<1>1. CASE p < 0
  BY <1>1 DEF WithPressure
<1>2. CASE ~ (p < 0)
  <2> DEFINE keys == IF p > 0 THEN k.keys \cup {"BTN_TOUCH"} ELSE k.keys \ {"BTN_TOUCH"}
             v == AxisValue(p, PressureMax)
             new == WithPressure(k, p)
  <2>1. new = [k EXCEPT !.pressure = v, !.distance = 0, !.keys = keys]
    BY <1>2 DEF WithPressure, PenKeyed, PenKernels
  <2>2. new.keys = keys /\ new.pressure = v /\ new.distance = 0
    <3> HIDE DEF keys, v
    <3> QED BY <2>1 DEF PenKernels
  <2>3. keys \ (PenButtons \cup {"BTN_TOUCH"}) = k.keys \ (PenButtons \cup {"BTN_TOUCH"})
    OBVIOUS
  <2>4. "BTN_TOUCH" \in keys <=> p > 0
    OBVIOUS
  <2>7. v > 0 => p > 0
    BY LevelsAreIntegers DEF AxisValue, LevelsAreIntegers
  <2>8. p > 0 /\ v = 0 => Faint(p)
    BY DEF Faint
  <2> HIDE DEF keys, new, v
  <2>5. OneContact(new, Faint(p))
    BY <1>2, <2>2, <2>4, <2>7, <2>8 DEF OneContact
  <2>6. OneTool(k, last) => OneTool(new, last)
    BY <2>2, <2>3 DEF OneTool
  <2> QED BY <1>2, <2>5, <2>6 DEF new
<1> QED BY <1>1, <1>2

LEMMA DistanceKeeps ==
  ASSUME NEW k \in PenKernels, NEW d \in Int, NEW last, NEW faint
  PROVE  /\ OneTool(k, last) => OneTool(WithDistance(k, d), last)
         /\ OneContact(k, faint) => OneContact(WithDistance(k, d), faint)
<1>1. CASE d < 0
  BY <1>1 DEF WithDistance
<1>2. CASE ~ (d < 0)
  <2> DEFINE keys == k.keys \ {"BTN_TOUCH"}
             v == AxisValue(d, DistanceMax)
             new == WithDistance(k, d)
  <2>1. new = [k EXCEPT !.distance = v, !.pressure = 0, !.keys = keys]
    BY <1>2 DEF WithDistance, PenKeyed, PenKernels
  <2>2. new.keys = keys /\ new.pressure = 0 /\ new.distance = v
    <3> HIDE DEF keys, v
    <3> QED BY <2>1 DEF PenKernels
  <2>3. keys \ (PenButtons \cup {"BTN_TOUCH"}) = k.keys \ (PenButtons \cup {"BTN_TOUCH"})
    OBVIOUS
  <2>4. "BTN_TOUCH" \notin keys
    OBVIOUS
  <2> HIDE DEF keys, new, v
  <2>5. OneContact(new, faint)
    BY <2>2, <2>4 DEF OneContact
  <2>6. OneTool(k, last) => OneTool(new, last)
    BY <2>2, <2>3 DEF OneTool
  <2> QED BY <2>5, <2>6 DEF new
<1> QED BY <1>1, <1>2

(* Unless one more write failed, all of a script was written. *)
LEMMA PenWritten ==
  ASSUME NEW script \in Seq(PenEvents), NEW n \in Writable(script, PenMayFail),
         PenWrites(script, n), penFailures \in Nat
  PROVE  /\ penFailures' \in Nat
         /\ penFailures' = 0 =>
              /\ penFailures = 0 /\ n = Len(script)
              /\ penKernel' = After("pen", penKernel, script)
<1>1. n \in 0..Len(script) /\ Len(script) \in Nat
  BY DEF Writable
<1>2. penFailures' = penFailures + (IF n < Len(script) THEN 1 ELSE 0)
  BY DEF PenWrites
<1>3. penFailures' \in Nat /\ (penFailures' = 0 => penFailures = 0 /\ n = Len(script))
  BY <1>1, <1>2
<1>4. ASSUME n = Len(script) PROVE penKernel' = After("pen", penKernel, script)
  <2>1. SubSeq(script, 1, Len(script)) = script
    OBVIOUS
  <2> QED BY <1>4, <2>1 DEF PenWrites, Sent, After
<1> QED BY <1>3, <1>4

LEMMA PenStarts == PenInit => PenInv
<1> SUFFICES ASSUME PenInit PROVE PenInv
  OBVIOUS
<1>1. PenTypes
  <2>1. PenReset \in PenKernels
    BY DEF PenReset, PenKernels
  <2>2. last_tool \in Tools
    BY DEF PenInit, Tools
  <2> QED BY <2>1, <2>2 DEF PenInit, PenTypes
<1>2. penKernel.keys = {} /\ penKernel.pressure = 0 /\ penKernel.distance = 0
  BY DEF PenInit, PenReset
<1>3. OneTool(penKernel, last_tool)
  BY <1>2 DEF OneTool, PenInit
<1>4. OneContact(penKernel, penFaint)
  BY <1>2 DEF OneContact
<1> QED BY <1>1, <1>3, <1>4 DEF PenInv, PenInit

LEMMA PenStep == PenInv /\ [PenNext]_penVars => PenInv'
<1> SUFFICES ASSUME PenInv, [PenNext]_penVars PROVE PenInv'
  OBVIOUS
<1> USE DEF PenInv, PenTypes
<1>1. CASE CreatePen
  BY <1>1 DEF CreatePen
<1>2. ASSUME NEW tool \in Tools, NEW p \in Levels, NEW d \in Levels, PlaceTool(tool, p, d)
      PROVE  PenInv'
  <2> DEFINE script == PlaceScript(tool, p, d)
             new == Placed(penKernel, tool, p, d)
  <2>1. p \in Int /\ d \in Int
    BY LevelsAreIntegers DEF LevelsAreIntegers
  <2>2. /\ pen = "open" /\ pen' = "open"
        /\ penTouch' = (penTouch \/ tool = "touch")
        /\ penFaint' = IF p < 0 THEN penFaint ELSE Faint(p)
    BY <1>2 DEF PlaceTool
  <2>3. PICK n \in Writable(script, PenMayFail) :
          /\ PenWrites(script, n)
          /\ last_tool' = IF PenToolScript(tool) # <<>> /\ n >= Len(PenToolScript(tool))
                          THEN tool ELSE last_tool
    BY <1>2 DEF PlaceTool, PlaceScript
  <2>4. last_tool' \in Tools
    BY <2>3
  <2>5. penTouch' \in BOOLEAN
    BY <2>2
  <2>6. script \in Seq(PenEvents)
    <3>1. PenReset \in PenKernels
      BY DEF PenReset, PenKernels
    <3> QED BY <2>1, <3>1, PlaceEffect
  <2>7. /\ penFailures' \in Nat
        /\ penFailures' = 0 =>
             /\ penFailures = 0 /\ n = Len(script)
             /\ penKernel' = After("pen", penKernel, script)
    <3> HIDE DEF script
    <3> QED BY <2>3, <2>6, PenWritten
  <2>8. ASSUME penFailures' = 0
        PROVE  /\ penKernel' \in PenKernels
               /\ OneTool(penKernel', last_tool')
               /\ ~penTouch' => last_tool' # "touch" /\ OneContact(penKernel', penFaint')
    <3>1. /\ penFailures = 0 /\ n = Len(script) /\ penKernel \in PenKernels
          /\ penKernel' = After("pen", penKernel, script)
          /\ OneTool(penKernel, last_tool)
          /\ ~penTouch => last_tool # "touch" /\ OneContact(penKernel, penFaint)
      BY <2>2, <2>7, <2>8
    <3>2. penKernel' = new /\ new \in PenKernels /\ Len(PenToolScript(tool)) <= Len(script)
      BY <2>1, <3>1, PlaceEffect
    <3>3. last_tool' = IF tool \in {"unchanged", last_tool} THEN last_tool ELSE tool
      <4>1. PenToolScript(tool) # <<>> <=> tool \notin {"unchanged", last_tool}
        BY <3>1, ToolScriptEffect
      <4>2. PenToolScript(tool) \in Seq(PenEvents) /\ script \in Seq(PenEvents)
        BY <2>6, <3>1, ToolScriptEffect
      <4>3. n >= Len(PenToolScript(tool))
        <5> HIDE DEF script
        <5> QED BY <3>1, <3>2, <4>2
      <4> QED BY <2>3, <4>1, <4>3
    <3> DEFINE k1 == WithTool(penKernel, last_tool, tool)
               k2 == WithPressure(k1, p)
    <3>4. k1 \in PenKernels
      BY <3>1, ToolScriptEffect
    <3>5. /\ OneTool(k1, last_tool')
          /\ ~penTouch' => last_tool' # "touch" /\ OneContact(k1, penFaint)
      BY <2>2, <3>1, <3>3, ToolKeeps
    <3>6. new = WithDistance(k2, d)
      BY DEF Placed
    <3> HIDE DEF k1
    <3>7. /\ k2 \in PenKernels /\ OneTool(k2, last_tool')
          /\ OneContact(k1, penFaint) => OneContact(k2, penFaint')
      BY <2>2, <2>1, <3>4, <3>5, PressureEffect, PressureKeeps
    <3> HIDE DEF k2, new
    <3>8. OneTool(new, last_tool') /\ (OneContact(k2, penFaint') => OneContact(new, penFaint'))
      BY <2>1, <3>6, <3>7, DistanceKeeps
    <3> QED BY <3>2, <3>5, <3>7, <3>8
  <2> QED BY <2>2, <2>4, <2>5, <2>7, <2>8
<1>3. ASSUME NEW button \in PenButtons, NEW down \in BOOLEAN, PenButton(button, down)
      PROVE  PenInv'
  <2> DEFINE press == Key(button, down)
             script == <<press, Syn>>
             new == PenKeyed(penKernel, button, down)
  <2>1. pen = "open" /\ UNCHANGED <<pen, last_tool, penTouch, penFaint>>
    BY <1>3 DEF PenButton
  <2>2. PICK n \in Writable(script, PenMayFail) : PenWrites(script, n)
    BY <1>3 DEF PenButton
  <2>3. PenReset \in PenKernels
    BY DEF PenReset, PenKernels
  <2>4. press \in PenEvents /\ Syn \in PenEvents
    BY <2>3, PenKeyEffect, PenOtherEffect
  <2>5. script \in Seq(PenEvents)
    <3> HIDE DEF press
    <3> QED BY <2>4
  <2>6. /\ penFailures' \in Nat
        /\ penFailures' = 0 =>
             penFailures = 0 /\ penKernel' = After("pen", penKernel, script)
    <3> HIDE DEF script
    <3> QED BY <2>2, <2>5, PenWritten
  <2>7. ASSUME penFailures' = 0
        PROVE  /\ penKernel' \in PenKernels
               /\ OneTool(penKernel', last_tool)
               /\ ~penTouch => last_tool # "touch" /\ OneContact(penKernel', penFaint')
    <3>1. penKernel \in PenKernels /\ penKernel' = After("pen", penKernel, script)
      BY <2>6, <2>7
    <3>2. Effect("pen", penKernel, press) = new /\ new \in PenKernels
      BY <3>1, PenKeyEffect
    <3>3. Effect("pen", new, Syn) = new
      BY PenOtherEffect
    <3>4. penKernel' = new
      <4> HIDE DEF press, new
      <4>1. After("pen", penKernel, <<press, Syn>>)
              = Effect("pen", Effect("pen", penKernel, press), Syn)
        BY <2>4, AfterTwo
      <4> QED BY <3>1, <3>2, <3>3, <4>1 DEF script
    <3>5. /\ new.keys = (IF down THEN penKernel.keys \cup {button} ELSE penKernel.keys \ {button})
          /\ new.pressure = penKernel.pressure /\ new.distance = penKernel.distance
      BY <3>1 DEF PenKeyed, PenKernels
    <3>6. button # "BTN_TOUCH"
      BY DEF PenButtons
    <3> HIDE DEF new
    <3>7. OneTool(penKernel, last_tool) => OneTool(new, last_tool)
      BY <3>5 DEF OneTool
    <3>8. OneContact(penKernel, penFaint) => OneContact(new, penFaint)
      BY <3>5, <3>6 DEF OneContact
    <3> QED BY <2>1, <2>6, <2>7, <3>2, <3>4, <3>7, <3>8
  <2> QED BY <2>1, <2>6, <2>7
<1>4. CASE ClosePen
  BY <1>4 DEF ClosePen, PenReset, PenKernels
<1>5. CASE UNCHANGED penVars
  BY <1>5 DEF penVars
<1> QED BY <1>1, <1>2, <1>3, <1>4, <1>5 DEF PenNext

(* The pen: one tool and one contact, as long as no write has failed *)
THEOREM OneToolShown == PenSpec => []OneToolInOneContact
<1>1. PenInv => OneToolInOneContact
  BY DEF PenInv, OneToolInOneContact, OneTool, OneContact
<1> QED BY <1>1, PenStarts, PenStep, PTL DEF PenSpec

-----------------------------------------------------------------------------
(* The touch devices *)

TouchCodes == {"SLOT", "TRACKING_ID", "POSITION", "SYN"} \cup KeyCodes
TouchEvents == TouchCodes \X (Int \cup Spots)

(* What the kernel holds, field by field *)
Kernel(slot, track, at, keys) ==
  [slot |-> slot, track |-> track, at |-> at, keys |-> keys]
Tracks == [Slots -> Int]
Places == [Slots -> Spots \cup {Nowhere}]
Kernels == [slot : Slots, track : Tracks, at : Places, keys : SUBSET KeyCodes]
KeyToggled(keys, code, down) == IF down THEN keys \cup {code} ELSE keys \ {code}

LEMMA KernelFields ==
  /\ \A slot, track, at, keys :
       /\ Kernel(slot, track, at, keys).slot = slot
       /\ Kernel(slot, track, at, keys).track = track
       /\ Kernel(slot, track, at, keys).at = at
       /\ Kernel(slot, track, at, keys).keys = keys
  /\ \A slot \in Slots, track \in Tracks, at \in Places, keys \in SUBSET KeyCodes :
       Kernel(slot, track, at, keys) \in Kernels
  /\ \A k \in Kernels :
       /\ k = Kernel(k.slot, k.track, k.at, k.keys)
       /\ k.slot \in Slots /\ k.track \in Tracks /\ k.at \in Places
       /\ k.keys \in SUBSET KeyCodes
BY DEF Kernel, Kernels

LEMMA SlotEffect ==
  ASSUME NEW slot, NEW track, NEW at, NEW keys, NEW new \in Slots
  PROVE  /\ <<"SLOT", new>> \in TouchEvents
         /\ Effect("touch", Kernel(slot, track, at, keys), <<"SLOT", new>>)
              = Kernel(new, track, at, keys)
<1> DEFINE event == <<"SLOT", new>>
<1>1. event[1] = "SLOT" /\ event[2] = new
  OBVIOUS
<1>2. event \in TouchEvents
  BY SlotsAndIds DEF TouchEvents, TouchCodes, Slots, SlotsAndIds
<1> HIDE DEF event
<1>3. "SLOT" \notin KeyCodes
  BY DEF KeyCodes
<1>4. \A k : Feed(k, event) = [k EXCEPT !.slot = new]
  BY <1>1, <1>3 DEF Feed
<1> QED BY <1>2, <1>4 DEF Effect, Kernel, event

LEMMA TrackEffect ==
  ASSUME NEW slot \in Slots, NEW track \in Tracks, NEW at, NEW keys, NEW id \in Int
  PROVE  /\ <<"TRACKING_ID", id>> \in TouchEvents
         /\ Effect("touch", Kernel(slot, track, at, keys), <<"TRACKING_ID", id>>)
              = Kernel(slot, [track EXCEPT ![slot] = id], at, keys)
<1> DEFINE event == <<"TRACKING_ID", id>>
<1>1. event[1] = "TRACKING_ID" /\ event[2] = id
  OBVIOUS
<1>2. event \in TouchEvents
  BY DEF TouchEvents, TouchCodes
<1> HIDE DEF event
<1>3. "TRACKING_ID" \notin KeyCodes
  BY DEF KeyCodes
<1>4. \A k : Feed(k, event) = [k EXCEPT !.track = [k.track EXCEPT ![k.slot] = id]]
  BY <1>1, <1>3 DEF Feed
<1> QED BY <1>2, <1>4 DEF Effect, Kernel, event

LEMMA PlaceEvent ==
  ASSUME NEW slot \in Slots, NEW track, NEW at \in Places, NEW keys, NEW spot \in Spots
  PROVE  /\ <<"POSITION", spot>> \in TouchEvents
         /\ Effect("touch", Kernel(slot, track, at, keys), <<"POSITION", spot>>)
              = Kernel(slot, track, [at EXCEPT ![slot] = spot], keys)
<1> DEFINE event == <<"POSITION", spot>>
<1>1. event[1] = "POSITION" /\ event[2] = spot
  OBVIOUS
<1>2. event \in TouchEvents
  BY DEF TouchEvents, TouchCodes
<1> HIDE DEF event
<1>3. "POSITION" \notin KeyCodes
  BY DEF KeyCodes
<1>4. \A k : Feed(k, event) = [k EXCEPT !.at = [k.at EXCEPT ![k.slot] = spot]]
  BY <1>1, <1>3 DEF Feed
<1> QED BY <1>2, <1>4 DEF Effect, Kernel, event

LEMMA SynEffect ==
  ASSUME NEW k
  PROVE  Syn \in TouchEvents /\ Effect("touch", k, Syn) = k
<1>1. Syn[1] = "SYN"
  BY DEF Syn
<1>2. Syn \in TouchEvents
  BY DEF Syn, TouchEvents, TouchCodes
<1>3. "SYN" \notin KeyCodes
  BY DEF KeyCodes
<1>4. Feed(k, Syn) = k
  BY <1>1, <1>3 DEF Feed
<1> QED BY <1>2, <1>4 DEF Effect

LEMMA KeyEffect ==
  ASSUME NEW slot, NEW track, NEW at, NEW keys \in SUBSET KeyCodes,
         NEW code \in KeyCodes, NEW down \in BOOLEAN
  PROVE  /\ Key(code, down) \in TouchEvents
         /\ Effect("touch", Kernel(slot, track, at, keys), Key(code, down))
              = Kernel(slot, track, at, KeyToggled(keys, code, down))
         /\ KeyToggled(keys, code, down) \in SUBSET KeyCodes
<1> DEFINE event == Key(code, down)
<1>1. event[1] = code /\ event[2] = (IF down THEN 1 ELSE 0)
  BY DEF Key
<1>2. event \in TouchEvents
  BY DEF Key, TouchEvents, TouchCodes
<1> HIDE DEF event
<1>3. code \notin {"SLOT", "TRACKING_ID", "POSITION", "SYN"}
  BY DEF KeyCodes
<1>4. \A k : Feed(k, event) = [k EXCEPT !.keys = KeysAfter(k.keys, event)]
  BY <1>1, <1>3 DEF Feed
<1>5. KeysAfter(keys, event) = KeyToggled(keys, code, down)
  BY <1>1 DEF KeysAfter, KeyToggled
<1>6. Effect("touch", Kernel(slot, track, at, keys), event)
        = Kernel(slot, track, at, KeysAfter(keys, event))
  BY <1>4 DEF Effect, Kernel
<1>7. KeyToggled(keys, code, down) \in SUBSET KeyCodes
  BY DEF KeyToggled
<1> QED BY <1>2, <1>5, <1>6, <1>7 DEF event

(* The keys of a trackpad for a number of contacts *)
TrackpadKeys(keys, count) ==
  KeyToggled(KeyToggled(KeyToggled(KeyToggled(KeyToggled(KeyToggled(keys,
    "BTN_TOUCH", count > 0), "FINGER", count = 1), "DOUBLETAP", count = 2),
    "TRIPLETAP", count = 3), "QUADTAP", count = 4), "QUINTTAP", count >= 5)

LEMMA TrackpadEffect ==
  ASSUME NEW slot \in Slots, NEW track \in Tracks, NEW at \in Places,
         NEW keys \in SUBSET KeyCodes, NEW count \in Nat
  PROVE  /\ ToolScript(count) \in Seq(TouchEvents)
         /\ After("touch", Kernel(slot, track, at, keys), ToolScript(count))
              = Kernel(slot, track, at, TrackpadKeys(keys, count))
         /\ TrackpadKeys(keys, count) \in SUBSET KeyCodes
<1> DEFINE d1 == count > 0
           d2 == count = 1
           d3 == count = 2
           d4 == count = 3
           d5 == count = 4
           d6 == count >= 5
           a == Key("BTN_TOUCH", d1)
           b == Key("FINGER", d2)
           c == Key("DOUBLETAP", d3)
           d == Key("TRIPLETAP", d4)
           e == Key("QUADTAP", d5)
           f == Key("QUINTTAP", d6)
           s1 == KeyToggled(keys, "BTN_TOUCH", d1)
           s2 == KeyToggled(s1, "FINGER", d2)
           s3 == KeyToggled(s2, "DOUBLETAP", d3)
           s4 == KeyToggled(s3, "TRIPLETAP", d4)
           s5 == KeyToggled(s4, "QUADTAP", d5)
           s6 == KeyToggled(s5, "QUINTTAP", d6)
           K(s) == Kernel(slot, track, at, s)
<1>1. /\ d1 \in BOOLEAN /\ d2 \in BOOLEAN /\ d3 \in BOOLEAN /\ d4 \in BOOLEAN
      /\ d5 \in BOOLEAN /\ d6 \in BOOLEAN
  OBVIOUS
<1>2. ToolScript(count) = <<a, b, c, d, e, f>> /\ TrackpadKeys(keys, count) = s6
  BY DEF ToolScript, TrackpadKeys
<1>3. /\ "BTN_TOUCH" \in KeyCodes /\ "FINGER" \in KeyCodes /\ "DOUBLETAP" \in KeyCodes
      /\ "TRIPLETAP" \in KeyCodes /\ "QUADTAP" \in KeyCodes /\ "QUINTTAP" \in KeyCodes
  BY DEF KeyCodes
<1> HIDE DEF d1, d2, d3, d4, d5, d6
<1>4. a \in TouchEvents /\ Effect("touch", K(keys), a) = K(s1) /\ s1 \in SUBSET KeyCodes
  BY <1>1, <1>3, KeyEffect
<1> HIDE DEF a, s1
<1>5. b \in TouchEvents /\ Effect("touch", K(s1), b) = K(s2) /\ s2 \in SUBSET KeyCodes
  BY <1>1, <1>3, <1>4, KeyEffect
<1> HIDE DEF b, s2
<1>6. c \in TouchEvents /\ Effect("touch", K(s2), c) = K(s3) /\ s3 \in SUBSET KeyCodes
  BY <1>1, <1>3, <1>5, KeyEffect
<1> HIDE DEF c, s3
<1>7. d \in TouchEvents /\ Effect("touch", K(s3), d) = K(s4) /\ s4 \in SUBSET KeyCodes
  BY <1>1, <1>3, <1>6, KeyEffect
<1> HIDE DEF d, s4
<1>8. e \in TouchEvents /\ Effect("touch", K(s4), e) = K(s5) /\ s5 \in SUBSET KeyCodes
  BY <1>1, <1>3, <1>7, KeyEffect
<1> HIDE DEF e, s5
<1>9. f \in TouchEvents /\ Effect("touch", K(s5), f) = K(s6) /\ s6 \in SUBSET KeyCodes
  BY <1>1, <1>3, <1>8, KeyEffect
<1> HIDE DEF f, s6, K
<1>10. After("touch", K(keys), <<a, b, c>>) = K(s3)
  <2>1. After("touch", K(keys), <<a, b, c>>)
          = Effect("touch", Effect("touch", Effect("touch", K(keys), a), b), c)
    BY <1>4, <1>5, <1>6, AfterThree
  <2> QED BY <2>1, <1>4, <1>5, <1>6
<1>11. After("touch", K(keys), <<a, b, c, d>>) = K(s4)
  <2>1. After("touch", K(keys), <<a, b, c, d>>)
          = Effect("touch", After("touch", K(keys), <<a, b, c>>), d)
    BY <1>4, <1>5, <1>6, <1>7, AfterFour
  <2> QED BY <2>1, <1>7, <1>10
<1>12. After("touch", K(keys), <<a, b, c, d, e>>) = K(s5)
  <2>1. After("touch", K(keys), <<a, b, c, d, e>>)
          = Effect("touch", After("touch", K(keys), <<a, b, c, d>>), e)
    BY <1>4, <1>5, <1>6, <1>7, <1>8, AfterFive
  <2> QED BY <2>1, <1>8, <1>11
<1>13. After("touch", K(keys), <<a, b, c, d, e, f>>) = K(s6)
  <2>1. After("touch", K(keys), <<a, b, c, d, e, f>>)
          = Effect("touch", After("touch", K(keys), <<a, b, c, d, e>>), f)
    BY <1>4, <1>5, <1>6, <1>7, <1>8, <1>9, AfterSix
  <2> QED BY <2>1, <1>9, <1>12
<1>14. <<a, b, c, d, e, f>> \in Seq(TouchEvents)
  BY <1>4, <1>5, <1>6, <1>7, <1>8, <1>9
<1> QED BY <1>2, <1>9, <1>13, <1>14 DEF K

LEMMA TrackpadShows ==
  ASSUME NEW keys \in SUBSET KeyCodes, NEW count \in Nat
  PROVE  /\ "BTN_TOUCH" \in TrackpadKeys(keys, count) <=> count > 0
         /\ TrackpadKeys(keys, count) \ {"BTN_TOUCH", "BTN_LEFT"} = ToolOf(count)
<1>1. "BTN_TOUCH" \in TrackpadKeys(keys, count) <=> count > 0
  BY DEF TrackpadKeys, KeyToggled
<1> DEFINE tools == <<"FINGER", "DOUBLETAP", "TRIPLETAP", "QUADTAP", "QUINTTAP">>
           left == TrackpadKeys(keys, count) \ {"BTN_TOUCH", "BTN_LEFT"}
<1>2. ASSUME NEW code \in KeyCodes \ {"BTN_TOUCH", "BTN_LEFT"}
      PROVE  code \in left <=> \/ code = "FINGER" /\ count = 1
                               \/ code = "DOUBLETAP" /\ count = 2
                               \/ code = "TRIPLETAP" /\ count = 3
                               \/ code = "QUADTAP" /\ count = 4
                               \/ code = "QUINTTAP" /\ count >= 5
  BY DEF KeyCodes, TrackpadKeys, KeyToggled
<1>3. left \subseteq KeyCodes \ {"BTN_TOUCH", "BTN_LEFT"}
  BY DEF KeyCodes, TrackpadKeys, KeyToggled
<1>4. /\ tools[1] = "FINGER" /\ tools[2] = "DOUBLETAP" /\ tools[3] = "TRIPLETAP"
      /\ tools[4] = "QUADTAP" /\ tools[5] = "QUINTTAP"
  OBVIOUS
<1>5. ToolOf(count) = IF count = 0 THEN {} ELSE {tools[IF count > 5 THEN 5 ELSE count]}
  BY DEF ToolOf
<1>6. /\ "FINGER" \in KeyCodes \ {"BTN_TOUCH", "BTN_LEFT"}
      /\ "DOUBLETAP" \in KeyCodes \ {"BTN_TOUCH", "BTN_LEFT"}
      /\ "TRIPLETAP" \in KeyCodes \ {"BTN_TOUCH", "BTN_LEFT"}
      /\ "QUADTAP" \in KeyCodes \ {"BTN_TOUCH", "BTN_LEFT"}
      /\ "QUINTTAP" \in KeyCodes \ {"BTN_TOUCH", "BTN_LEFT"}
  BY DEF KeyCodes
<1> HIDE DEF tools, left
<1>7. CASE count = 0
  <2>1. left = {}
    BY <1>2, <1>3, <1>7
  <2> QED BY <2>1, <1>1, <1>5, <1>7 DEF left
<1>8. CASE count = 1
  <2>1. left = {"FINGER"}
    BY <1>2, <1>3, <1>6, <1>8
  <2> QED BY <2>1, <1>1, <1>4, <1>5, <1>8 DEF left
<1>9. CASE count = 2
  <2>1. left = {"DOUBLETAP"}
    BY <1>2, <1>3, <1>6, <1>9
  <2> QED BY <2>1, <1>1, <1>4, <1>5, <1>9 DEF left
<1>10. CASE count = 3
  <2>1. left = {"TRIPLETAP"}
    BY <1>2, <1>3, <1>6, <1>10
  <2> QED BY <2>1, <1>1, <1>4, <1>5, <1>10 DEF left
<1>11. CASE count = 4
  <2>1. left = {"QUADTAP"}
    BY <1>2, <1>3, <1>6, <1>11
  <2> QED BY <2>1, <1>1, <1>4, <1>5, <1>11 DEF left
<1>12. CASE count >= 5
  <2>1. left = {"QUINTTAP"}
    BY <1>2, <1>3, <1>6, <1>12
  <2>2. (IF count > 5 THEN 5 ELSE count) = 5 /\ count # 0
    BY <1>12
  <2> QED BY <2>1, <2>2, <1>1, <1>4, <1>5 DEF left
<1> QED BY <1>7, <1>8, <1>9, <1>10, <1>11, <1>12

(* The parts of a call's script.  The slot that is not selected again is the *)
(* one the kernel has.                                                       *)
LEMMA SelectEffect ==
  ASSUME NEW k \in Kernels, NEW slot \in Slots, current_slot = slot => k.slot = slot
  PROVE  /\ SelectScript(slot) \in Seq(TouchEvents)
         /\ After("touch", k, SelectScript(slot)) = Kernel(slot, k.track, k.at, k.keys)
<1>1. k = Kernel(k.slot, k.track, k.at, k.keys)
  BY KernelFields
<1>2. CASE current_slot = slot
  <2>1. SelectScript(slot) = <<>>
    BY <1>2 DEF SelectScript
  <2> QED BY <1>1, <1>2, <2>1, AfterNothing
<1>3. CASE current_slot # slot
  <2> DEFINE event == <<"SLOT", slot>>
  <2>1. SelectScript(slot) = <<event>>
    BY <1>3 DEF SelectScript
  <2>2. event \in TouchEvents /\ Effect("touch", k, event) = Kernel(slot, k.track, k.at, k.keys)
    BY <1>1, SlotEffect
  <2> HIDE DEF event
  <2>3. After("touch", k, <<event>>) = Effect("touch", k, event)
    BY <2>2, AfterOne
  <2>4. <<event>> \in Seq(TouchEvents)
    BY <2>2
  <2> QED BY <2>1, <2>2, <2>3, <2>4
<1> QED BY <1>2, <1>3

(* A script that follows another one, and one event that follows a script *)
LEMMA TouchThen ==
  ASSUME NEW k, NEW s \in Seq(TouchEvents), NEW t \in Seq(TouchEvents), NEW l, NEW m,
         After("touch", k, s) = l, After("touch", l, t) = m
  PROVE  s \o t \in Seq(TouchEvents) /\ After("touch", k, s \o t) = m
         /\ Len(s) <= Len(s \o t)
<1>1. After("touch", k, s \o t) = After("touch", After("touch", k, s), t)
  BY AfterBoth
<1>2. s \o t \in Seq(TouchEvents) /\ Len(s) <= Len(s \o t)
  OBVIOUS
<1> QED BY <1>1, <1>2

LEMMA TouchOne ==
  ASSUME NEW k, NEW event \in TouchEvents
  PROVE  <<event>> \in Seq(TouchEvents) /\ After("touch", k, <<event>>) = Effect("touch", k, event)
<1>1. <<event>> \in Seq(TouchEvents)
  OBVIOUS
<1> QED BY <1>1, AfterOne

ArrivalKeys(keys, count) ==
  IF touchKind = "trackpad" THEN TrackpadKeys(keys, count) ELSE KeyToggled(keys, "BTN_TOUCH", TRUE)

LEMMA TouchDown ==
  ASSUME NEW slot, NEW track, NEW at, NEW keys \in SUBSET KeyCodes, NEW down \in BOOLEAN
  PROVE  /\ << Key("BTN_TOUCH", down) >> \in Seq(TouchEvents)
         /\ After("touch", Kernel(slot, track, at, keys), << Key("BTN_TOUCH", down) >>)
              = Kernel(slot, track, at, KeyToggled(keys, "BTN_TOUCH", down))
         /\ KeyToggled(keys, "BTN_TOUCH", down) \in SUBSET KeyCodes
<1> DEFINE press == Key("BTN_TOUCH", down)
           k == Kernel(slot, track, at, keys)
<1>1. "BTN_TOUCH" \in KeyCodes
  BY DEF KeyCodes
<1>2. /\ press \in TouchEvents
      /\ Effect("touch", k, press) = Kernel(slot, track, at, KeyToggled(keys, "BTN_TOUCH", down))
      /\ KeyToggled(keys, "BTN_TOUCH", down) \in SUBSET KeyCodes
  BY <1>1, KeyEffect
<1> HIDE DEF press
<1>3. <<press>> \in Seq(TouchEvents) /\ After("touch", k, <<press>>) = Effect("touch", k, press)
  BY <1>2, TouchOne
<1> QED BY <1>2, <1>3 DEF press

LEMMA ArrivalKeysEffect ==
  ASSUME NEW slot \in Slots, NEW track \in Tracks, NEW at \in Places,
         NEW keys \in SUBSET KeyCodes, NEW count \in Nat
  PROVE  LET last == IF touchKind = "trackpad" THEN ToolScript(count)
                     ELSE << Key("BTN_TOUCH", TRUE) >>
         IN  /\ last \in Seq(TouchEvents)
             /\ After("touch", Kernel(slot, track, at, keys), last)
                  = Kernel(slot, track, at, ArrivalKeys(keys, count))
             /\ ArrivalKeys(keys, count) \in SUBSET KeyCodes
<1>1. CASE touchKind = "trackpad"
  <2>1. /\ ToolScript(count) \in Seq(TouchEvents)
        /\ After("touch", Kernel(slot, track, at, keys), ToolScript(count))
             = Kernel(slot, track, at, TrackpadKeys(keys, count))
        /\ TrackpadKeys(keys, count) \in SUBSET KeyCodes
    BY TrackpadEffect
  <2> QED BY <1>1, <2>1 DEF ArrivalKeys
<1>2. CASE touchKind # "trackpad"
  <2> DEFINE down == TRUE
  <2>1. down \in BOOLEAN
    OBVIOUS
  <2>2. /\ (IF touchKind = "trackpad" THEN ToolScript(count) ELSE << Key("BTN_TOUCH", TRUE) >>)
             = << Key("BTN_TOUCH", down) >>
        /\ ArrivalKeys(keys, count) = KeyToggled(keys, "BTN_TOUCH", down)
    BY <1>2 DEF ArrivalKeys
  <2> HIDE DEF down
  <2>3. /\ << Key("BTN_TOUCH", down) >> \in Seq(TouchEvents)
        /\ After("touch", Kernel(slot, track, at, keys), << Key("BTN_TOUCH", down) >>)
             = Kernel(slot, track, at, KeyToggled(keys, "BTN_TOUCH", down))
        /\ KeyToggled(keys, "BTN_TOUCH", down) \in SUBSET KeyCodes
    BY ONLY <2>1, keys \in SUBSET KeyCodes, TouchDown
  <2> QED BY <2>2, <2>3
<1> QED BY <1>1, <1>2

LEMMA ArrivalEffect ==
  ASSUME NEW slot \in Slots, NEW track \in Tracks, NEW at \in Places, NEW keys \in SUBSET KeyCodes,
         NEW count \in Nat, next_tracking_id \in Nat
  PROVE  /\ Arrival(count) \in Seq(TouchEvents)
         /\ After("touch", Kernel(slot, track, at, keys), Arrival(count))
              = Kernel(slot, [track EXCEPT ![slot] = next_tracking_id], at,
                       ArrivalKeys(keys, count))
         /\ ArrivalKeys(keys, count) \in SUBSET KeyCodes
<1> DEFINE event == <<"TRACKING_ID", next_tracking_id>>
           first == <<event>>
           last == IF touchKind = "trackpad" THEN ToolScript(count)
                   ELSE << Key("BTN_TOUCH", TRUE) >>
           new == [track EXCEPT ![slot] = next_tracking_id]
           k1 == Kernel(slot, new, at, keys)
           k2 == Kernel(slot, new, at, ArrivalKeys(keys, count))
<1>1. /\ event \in TouchEvents
      /\ Effect("touch", Kernel(slot, track, at, keys), event) = k1
  BY TrackEffect
<1>2. /\ first \in Seq(TouchEvents)
      /\ After("touch", Kernel(slot, track, at, keys), first) = k1
  <2> HIDE DEF event, k1
  <2> QED BY <1>1, TouchOne
<1>3. /\ last \in Seq(TouchEvents) /\ After("touch", k1, last) = k2
      /\ ArrivalKeys(keys, count) \in SUBSET KeyCodes
  <2>1. new \in Tracks
    BY DEF Tracks
  <2> HIDE DEF new
  <2> QED BY <2>1, ArrivalKeysEffect
<1>4. Arrival(count) = first \o last
  BY DEF Arrival
<1> HIDE DEF first, last, k1, k2
<1>5. first \o last \in Seq(TouchEvents)
      /\ After("touch", Kernel(slot, track, at, keys), first \o last) = k2
  BY <1>2, <1>3, TouchThen
<1> QED BY <1>3, <1>4, <1>5 DEF k2

(* A call that places a contact *)
ContactScript(slot, fresh, count, spot) ==
  SelectScript(slot) \o (IF fresh THEN Arrival(count) ELSE <<>>) \o << <<"POSITION", spot>>, Syn >>
WithContact(k, slot, fresh, count, spot) ==
  Kernel(slot, IF fresh THEN [k.track EXCEPT ![slot] = next_tracking_id] ELSE k.track,
         [k.at EXCEPT ![slot] = spot], IF fresh THEN ArrivalKeys(k.keys, count) ELSE k.keys)

LEMMA ContactEffect ==
  ASSUME NEW k \in Kernels, NEW slot \in Slots, current_slot = slot => k.slot = slot,
         NEW fresh \in BOOLEAN, NEW count \in Nat, NEW spot \in Spots, next_tracking_id \in Nat
  PROVE  /\ ContactScript(slot, fresh, count, spot) \in Seq(TouchEvents)
         /\ After("touch", k, ContactScript(slot, fresh, count, spot))
              = WithContact(k, slot, fresh, count, spot)
         /\ WithContact(k, slot, fresh, count, spot) \in Kernels
<1> DEFINE select == SelectScript(slot)
           arrive == IF fresh THEN Arrival(count) ELSE <<>>
           position == <<"POSITION", spot>>
           place == <<position, Syn>>
           track == IF fresh THEN [k.track EXCEPT ![slot] = next_tracking_id] ELSE k.track
           keys == IF fresh THEN ArrivalKeys(k.keys, count) ELSE k.keys
           at == [k.at EXCEPT ![slot] = spot]
           k1 == Kernel(slot, k.track, k.at, k.keys)
           k2 == Kernel(slot, track, k.at, keys)
           k3 == Kernel(slot, track, at, keys)
<1>1. k.track \in Tracks /\ k.at \in Places /\ k.keys \in SUBSET KeyCodes
  BY KernelFields
<1>2. select \in Seq(TouchEvents) /\ After("touch", k, select) = k1
  BY SelectEffect
<1>3. arrive \in Seq(TouchEvents) /\ After("touch", k1, arrive) = k2 /\ keys \in SUBSET KeyCodes
  <2>1. CASE fresh
    <3>1. /\ arrive = Arrival(count) /\ keys = ArrivalKeys(k.keys, count)
          /\ k2 = Kernel(slot, [k.track EXCEPT ![slot] = next_tracking_id], k.at,
                         ArrivalKeys(k.keys, count))
      BY <2>1
    <3>2. /\ Arrival(count) \in Seq(TouchEvents)
          /\ After("touch", Kernel(slot, k.track, k.at, k.keys), Arrival(count))
               = Kernel(slot, [k.track EXCEPT ![slot] = next_tracking_id], k.at,
                        ArrivalKeys(k.keys, count))
          /\ ArrivalKeys(k.keys, count) \in SUBSET KeyCodes
      BY <1>1, ArrivalEffect
    <3> QED BY <3>1, <3>2
  <2>2. CASE ~fresh
    <3>1. arrive = <<>> /\ k2 = k1 /\ keys = k.keys
      BY <2>2
    <3>2. <<>> \in Seq(TouchEvents)
      OBVIOUS
    <3> QED BY <1>1, <3>1, <3>2, AfterNothing
  <2> QED BY <2>1, <2>2
<1>4. track \in Tracks /\ at \in Places
  BY <1>1 DEF Tracks, Places
<1>5. k3 \in Kernels
  <2> HIDE DEF track, at, keys
  <2> QED BY <1>3, <1>4, KernelFields
<1>6. place \in Seq(TouchEvents) /\ After("touch", k2, place) = k3
  <2>1. position \in TouchEvents /\ Effect("touch", k2, position) = k3
    <3> HIDE DEF track, keys
    <3> QED BY <1>1, PlaceEvent
  <2>2. Syn \in TouchEvents /\ Effect("touch", k3, Syn) = k3
    BY SynEffect
  <2> HIDE DEF position, k2, k3
  <2>3. After("touch", k2, <<position, Syn>>)
          = Effect("touch", Effect("touch", k2, position), Syn)
    BY <2>1, <2>2, AfterTwo
  <2>4. <<position, Syn>> \in Seq(TouchEvents)
    BY <2>1, <2>2
  <2> QED BY <2>1, <2>2, <2>3, <2>4
<1>7. /\ ContactScript(slot, fresh, count, spot) = select \o arrive \o place
      /\ WithContact(k, slot, fresh, count, spot) = k3
  BY DEF ContactScript, WithContact
<1> HIDE DEF select, arrive, place, k1, k2, k3
<1>8. select \o arrive \in Seq(TouchEvents) /\ After("touch", k, select \o arrive) = k2
  BY <1>2, <1>3, TouchThen
<1> DEFINE both == select \o arrive
<1>9. both \in Seq(TouchEvents) /\ After("touch", k, both) = k2
  BY <1>8
<1> HIDE DEF both
<1>10. both \o place \in Seq(TouchEvents) /\ After("touch", k, both \o place) = k3
  BY <1>6, <1>9, TouchThen
<1> QED BY <1>5, <1>7, <1>10 DEF both

(* A call that releases a contact and leaves count of them *)
LiftScript(rest, count) ==
  IF touchKind = "trackpad" THEN ToolScript(count)
  ELSE IF rest = <<>> THEN << Key("BTN_TOUCH", FALSE) >> ELSE <<>>
LiftedKeys(keys, rest, count) ==
  IF touchKind = "trackpad" THEN TrackpadKeys(keys, count)
  ELSE IF rest = <<>> THEN KeyToggled(keys, "BTN_TOUCH", FALSE) ELSE keys
ReleaseScript(slot, rest, count) ==
  SelectScript(slot) \o << <<"TRACKING_ID", -1>> >> \o LiftScript(rest, count) \o << Syn >>
WithoutContact(k, slot, rest, count) ==
  Kernel(slot, [k.track EXCEPT ![slot] = -1], k.at, LiftedKeys(k.keys, rest, count))

LEMMA LiftEffect ==
  ASSUME NEW slot \in Slots, NEW track \in Tracks, NEW at \in Places, NEW keys \in SUBSET KeyCodes,
         NEW rest, NEW count \in Nat
  PROVE  /\ LiftScript(rest, count) \in Seq(TouchEvents)
         /\ After("touch", Kernel(slot, track, at, keys), LiftScript(rest, count))
              = Kernel(slot, track, at, LiftedKeys(keys, rest, count))
         /\ LiftedKeys(keys, rest, count) \in SUBSET KeyCodes
<1>1. CASE touchKind = "trackpad"
  <2>1. /\ LiftScript(rest, count) = ToolScript(count)
        /\ LiftedKeys(keys, rest, count) = TrackpadKeys(keys, count)
    BY <1>1 DEF LiftScript, LiftedKeys
  <2>2. /\ ToolScript(count) \in Seq(TouchEvents)
        /\ After("touch", Kernel(slot, track, at, keys), ToolScript(count))
             = Kernel(slot, track, at, TrackpadKeys(keys, count))
        /\ TrackpadKeys(keys, count) \in SUBSET KeyCodes
    BY TrackpadEffect
  <2> QED BY <2>1, <2>2
<1>2. CASE touchKind # "trackpad" /\ rest # <<>>
  <2>1. LiftScript(rest, count) = <<>> /\ LiftedKeys(keys, rest, count) = keys
    BY <1>2 DEF LiftScript, LiftedKeys
  <2> QED BY <2>1, AfterNothing
<1>3. CASE touchKind # "trackpad" /\ rest = <<>>
  <2> DEFINE down == FALSE
  <2>1. down \in BOOLEAN
    OBVIOUS
  <2>2. /\ LiftScript(rest, count) = << Key("BTN_TOUCH", down) >>
        /\ LiftedKeys(keys, rest, count) = KeyToggled(keys, "BTN_TOUCH", down)
    BY <1>3 DEF LiftScript, LiftedKeys
  <2> HIDE DEF down
  <2>3. /\ << Key("BTN_TOUCH", down) >> \in Seq(TouchEvents)
        /\ After("touch", Kernel(slot, track, at, keys), << Key("BTN_TOUCH", down) >>)
             = Kernel(slot, track, at, KeyToggled(keys, "BTN_TOUCH", down))
        /\ KeyToggled(keys, "BTN_TOUCH", down) \in SUBSET KeyCodes
    BY ONLY <2>1, keys \in SUBSET KeyCodes, TouchDown
  <2> QED BY <2>2, <2>3
<1> QED BY <1>1, <1>2, <1>3

LEMMA ReleaseEffect ==
  ASSUME NEW k \in Kernels, NEW slot \in Slots, current_slot = slot => k.slot = slot,
         NEW rest, NEW count \in Nat
  PROVE  /\ ReleaseScript(slot, rest, count) \in Seq(TouchEvents)
         /\ After("touch", k, ReleaseScript(slot, rest, count))
              = WithoutContact(k, slot, rest, count)
         /\ WithoutContact(k, slot, rest, count) \in Kernels
         /\ SelectScript(slot) \in Seq(TouchEvents)
         /\ Len(SelectScript(slot)) <= Len(ReleaseScript(slot, rest, count))
<1> DEFINE select == SelectScript(slot)
           event == <<"TRACKING_ID", -1>>
           leave == <<event>>
           lift == LiftScript(rest, count)
           syn == <<Syn>>
           track == [k.track EXCEPT ![slot] = -1]
           k1 == Kernel(slot, k.track, k.at, k.keys)
           k2 == Kernel(slot, track, k.at, k.keys)
           k3 == Kernel(slot, track, k.at, LiftedKeys(k.keys, rest, count))
<1>1. k.track \in Tracks /\ k.at \in Places /\ k.keys \in SUBSET KeyCodes
  BY KernelFields
<1>2. select \in Seq(TouchEvents) /\ After("touch", k, select) = k1
  BY SelectEffect
<1>3. leave \in Seq(TouchEvents) /\ After("touch", k1, leave) = k2
  <2>1. -1 \in Int
    OBVIOUS
  <2>2. event \in TouchEvents /\ Effect("touch", k1, event) = k2
    BY <1>1, <2>1, TrackEffect
  <2> HIDE DEF event, k1, k2
  <2> QED BY <2>2, TouchOne
<1>4. track \in Tracks
  BY <1>1 DEF Tracks
<1>5. /\ lift \in Seq(TouchEvents) /\ After("touch", k2, lift) = k3
      /\ LiftedKeys(k.keys, rest, count) \in SUBSET KeyCodes
  <2> HIDE DEF track
  <2>1. /\ LiftScript(rest, count) \in Seq(TouchEvents)
        /\ After("touch", Kernel(slot, track, k.at, k.keys), LiftScript(rest, count))
             = Kernel(slot, track, k.at, LiftedKeys(k.keys, rest, count))
        /\ LiftedKeys(k.keys, rest, count) \in SUBSET KeyCodes
    BY <1>1, <1>4, LiftEffect
  <2> QED BY <2>1
<1>6. k3 \in Kernels
  <2> HIDE DEF track
  <2> QED BY <1>1, <1>4, <1>5, KernelFields
<1>7. syn \in Seq(TouchEvents) /\ After("touch", k3, syn) = k3
  <2>1. Syn \in TouchEvents /\ Effect("touch", k3, Syn) = k3
    BY SynEffect
  <2> HIDE DEF k3
  <2> QED BY <2>1, TouchOne
<1>8. /\ ReleaseScript(slot, rest, count) = select \o leave \o lift \o syn
      /\ WithoutContact(k, slot, rest, count) = k3
  BY DEF ReleaseScript, WithoutContact
<1> HIDE DEF select, leave, lift, syn, k1, k2, k3
<1> DEFINE s1 == select \o leave
           s2 == s1 \o lift
           s3 == s2 \o syn
<1>9. s1 \in Seq(TouchEvents) /\ After("touch", k, s1) = k2 /\ Len(select) <= Len(s1)
  BY <1>2, <1>3, TouchThen
<1> HIDE DEF s1
<1>10. s2 \in Seq(TouchEvents) /\ After("touch", k, s2) = k3 /\ Len(s1) <= Len(s2)
  BY <1>5, <1>9, TouchThen
<1> HIDE DEF s2
<1>11. s3 \in Seq(TouchEvents) /\ After("touch", k, s3) = k3 /\ Len(s2) <= Len(s3)
  BY <1>7, <1>10, TouchThen
<1> HIDE DEF s3
<1>12. Len(select) <= Len(s3)
  BY <1>2, <1>9, <1>10, <1>11
<1>13. ReleaseScript(slot, rest, count) = s3
  BY <1>8 DEF s1, s2, s3
<1> QED BY <1>2, <1>6, <1>8, <1>11, <1>12, <1>13 DEF select

-----------------------------------------------------------------------------
(* The invariant of the touch devices                                        *)

TouchTypes ==
  /\ touchKind \in TouchKinds \cup {"none", "closed"}
  /\ DOMAIN contacts \subseteq Contacts
  /\ contacts \in [DOMAIN contacts -> Slots]
  /\ IsFiniteSet(DOMAIN contacts)
  /\ wanted \in [DOMAIN contacts -> Spots]
  /\ current_slot \in Slots \cup {-1}
  /\ next_tracking_id \in Nat
  /\ touchFailures \in Nat
  /\ touchFailures = 0 => kernel \in Kernels

Apart(f) == \A c, d \in DOMAIN f : f[c] = f[d] => c = d

(* The cached slot is the kernel's, and the kernel shows the contacts. *)
Cached(k, slot) == slot \in Slots => k.slot = slot
ShownWhere(k, f, w) ==
  /\ \A s \in Slots : k.track[s] # -1 <=> \E c \in DOMAIN f : f[c] = s
  /\ \A c \in DOMAIN f : k.at[f[c]] = w[c]
ShownKeys(k, f, kind) ==
  /\ "BTN_TOUCH" \in k.keys <=> DOMAIN f # {}
  /\ kind \in {"none", "trackpad"} =>
       k.keys \ {"BTN_TOUCH", "BTN_LEFT"} = ToolOf(Cardinality(DOMAIN f))

TouchInv ==
  /\ TouchTypes
  /\ Apart(contacts)
  /\ touchKind # "closed" /\ touchFailures = 0 =>
       /\ Cached(kernel, current_slot)
       /\ ShownWhere(kernel, contacts, wanted)
       /\ ShownKeys(kernel, contacts, touchKind)

LEMMA EmptyMap ==
  /\ DOMAIN <<>> = {}
  /\ \A T : <<>> \in [{} -> T]
  /\ \A S, T : \A f \in [S -> T] : f = <<>> <=> S = {}
<1>1. DOMAIN <<>> = {}
  OBVIOUS
<1>2. \A T : <<>> \in [{} -> T]
  OBVIOUS
<1>3. ASSUME NEW S, NEW T, NEW f \in [S -> T] PROVE f = <<>> <=> S = {}
  <2>1. DOMAIN f = S
    OBVIOUS
  <2>2. ASSUME S = {} PROVE f = <<>>
    <3>1. f \in [{} -> T] /\ <<>> \in [{} -> T]
      BY <1>2, <2>2
    <3> QED BY <3>1
  <2> QED BY <1>1, <2>1, <2>2
<1> QED BY <1>1, <1>2, <1>3

LEMMA ResetKernel ==
  /\ KernelReset \in Kernels
  /\ KernelReset.track = [s \in Slots |-> -1] /\ KernelReset.keys = {}
<1>1. 0 \in Slots
  BY SlotsAndIds DEF SlotsAndIds, Slots
<1>2. [s \in Slots |-> -1] \in Tracks /\ [s \in Slots |-> Nowhere] \in Places
  BY DEF Tracks, Places
<1> QED BY <1>1, <1>2 DEF KernelReset, Kernels

LEMMA TouchStarts == TouchInit => TouchInv
<1> SUFFICES ASSUME TouchInit PROVE TouchInv
  OBVIOUS
<1>1. DOMAIN contacts = {} /\ contacts = <<>> /\ wanted = <<>>
  BY EmptyMap DEF TouchInit
<1>2. contacts \in [DOMAIN contacts -> Slots] /\ wanted \in [DOMAIN contacts -> Spots]
  BY <1>1, EmptyMap
<1>3. IsFiniteSet(DOMAIN contacts) /\ Cardinality(DOMAIN contacts) = 0
  BY <1>1, FS_EmptySet
<1>4. TouchTypes
  BY <1>2, <1>3, ResetKernel DEF TouchTypes, TouchInit
<1>5. Apart(contacts)
  BY <1>1 DEF Apart
<1>6. Cached(kernel, current_slot)
  BY SlotsAndIds DEF TouchInit, Cached, Slots, SlotsAndIds
<1>7. kernel.track = [s \in Slots |-> -1] /\ kernel.keys = {}
  BY ResetKernel DEF TouchInit
<1>8. ShownWhere(kernel, contacts, wanted)
  BY <1>1, <1>7 DEF ShownWhere
<1>9. ShownKeys(kernel, contacts, touchKind)
  BY <1>1, <1>3, <1>7 DEF ShownKeys, ToolOf
<1> QED BY <1>4, <1>5, <1>6, <1>8, <1>9 DEF TouchInv

(* Unless one more write failed, all of a script was written. *)
LEMMA TouchWritten ==
  ASSUME NEW script \in Seq(TouchEvents), NEW n \in Writable(script, MayFail),
         Writes(script, n), touchFailures \in Nat
  PROVE  /\ touchFailures' \in Nat
         /\ touchFailures' = 0 =>
              /\ touchFailures = 0 /\ n = Len(script)
              /\ kernel' = After("touch", kernel, script)
<1>1. n \in 0..Len(script) /\ Len(script) \in Nat
  BY DEF Writable
<1>2. touchFailures' = touchFailures + (IF n < Len(script) THEN 1 ELSE 0)
  BY DEF Writes
<1>3. touchFailures' \in Nat /\ (touchFailures' = 0 => touchFailures = 0 /\ n = Len(script))
  BY <1>1, <1>2
<1>4. ASSUME n = Len(script) PROVE kernel' = After("touch", kernel, script)
  <2>1. SubSeq(script, 1, Len(script)) = script
    OBVIOUS
  <2> QED BY <1>4, <2>1 DEF Writes, Sent, After
<1> QED BY <1>3, <1>4

(* A kernel that has the slot selected: scripts are sequences whatever the   *)
(* kernel holds                                                              *)
LEMMA SomeKernel ==
  ASSUME NEW slot \in Slots
  PROVE  \E k \in Kernels : k.slot = slot
<1> DEFINE k == Kernel(slot, [s \in Slots |-> -1], [s \in Slots |-> Nowhere], {})
<1>1. [s \in Slots |-> -1] \in Tracks /\ [s \in Slots |-> Nowhere] \in Places
  BY DEF Tracks, Places
<1>2. k \in Kernels /\ k.slot = slot
  BY <1>1, KernelFields
<1> QED BY <1>2

LEMMA FreeSlot ==
  ASSUME FreeSlots # {}
  PROVE  LowestFree \in FreeSlots
<1>1. FreeSlots \subseteq Nat
  BY SlotsAndIds DEF FreeSlots, Slots, SlotsAndIds
<1> HIDE DEF FreeSlots
<1>2. PICK s \in FreeSlots : \A t \in FreeSlots : ~ (<<t, s>> \in OpToRel(<, Nat))
  BY <1>1, WFMin, NatLessThanWellFounded
<1>3. \A t \in FreeSlots : ~ (t < s)
  BY <1>1, <1>2 DEF OpToRel
<1>4. \A t \in FreeSlots : s <= t
  BY <1>1, <1>3
<1> QED BY <1>4 DEF LowestFree

(* What a call makes of the contacts and of where they are *)
LEMMA MapsPlaced ==
  ASSUME contacts \in [DOMAIN contacts -> Slots], wanted \in [DOMAIN contacts -> Spots],
         NEW c \in Contacts, NEW slot \in Slots, NEW spot \in Spots, Apart(contacts),
         c \in DOMAIN contacts => contacts[c] = slot,
         c \notin DOMAIN contacts => \A d \in DOMAIN contacts : contacts[d] # slot
  PROVE  /\ Put(contacts, c, slot) \in [DOMAIN contacts \cup {c} -> Slots]
         /\ Put(wanted, c, spot) \in [DOMAIN contacts \cup {c} -> Spots]
         /\ Apart(Put(contacts, c, slot))
         /\ Put(contacts, c, slot)[c] = slot
         /\ \A d \in DOMAIN contacts : Put(contacts, c, slot)[d] = contacts[d]
         /\ Put(wanted, c, spot)[c] = spot
         /\ \A d \in DOMAIN contacts \ {c} : /\ Put(wanted, c, spot)[d] = wanted[d]
                                            /\ contacts[d] # slot
<1> DEFINE S == DOMAIN contacts
           all == Put(contacts, c, slot)
           at == Put(wanted, c, spot)
<1>1. all = [d \in S \cup {c} |-> IF d = c THEN slot ELSE contacts[d]]
  BY DEF Put
<1>2. at = [d \in S \cup {c} |-> IF d = c THEN spot ELSE wanted[d]]
  BY DEF Put
<1> HIDE DEF all, at
<1>3. all \in [S \cup {c} -> Slots] /\ at \in [S \cup {c} -> Spots]
  BY <1>1, <1>2
<1>4. all[c] = slot /\ \A d \in S : all[d] = contacts[d]
  BY <1>1
<1>5. at[c] = spot /\ \A d \in S \ {c} : at[d] = wanted[d]
  BY <1>2
<1>6. \A d \in S \ {c} : contacts[d] # slot
  BY DEF Apart
<1>7. Apart(all)
  <2>1. DOMAIN all = S \cup {c} /\ DOMAIN contacts = S
    BY <1>1
  <2> QED BY <1>4, <1>6, <2>1 DEF Apart
<1> QED BY <1>3, <1>4, <1>5, <1>6, <1>7 DEF all, at

LEMMA MapsReleased ==
  ASSUME contacts \in [DOMAIN contacts -> Slots], wanted \in [DOMAIN contacts -> Spots],
         NEW c \in DOMAIN contacts, Apart(contacts)
  PROVE  /\ Drop(contacts, c) \in [DOMAIN contacts \ {c} -> Slots]
         /\ Drop(wanted, c) \in [DOMAIN contacts \ {c} -> Spots]
         /\ Apart(Drop(contacts, c))
         /\ \A d \in DOMAIN contacts \ {c} :
              /\ Drop(contacts, c)[d] = contacts[d] /\ Drop(wanted, c)[d] = wanted[d]
              /\ contacts[d] # contacts[c]
<1> DEFINE S == DOMAIN contacts
<1>1. Drop(contacts, c) = [d \in S \ {c} |-> contacts[d]] /\ Drop(wanted, c) = [d \in S \ {c} |-> wanted[d]]
  BY DEF Drop
<1>2. \A d \in S \ {c} : Drop(contacts, c)[d] = contacts[d] /\ Drop(wanted, c)[d] = wanted[d]
  BY <1>1
<1>3. Apart(Drop(contacts, c))
  <2>1. DOMAIN Drop(contacts, c) = S \ {c} /\ DOMAIN contacts = S
    BY <1>1
  <2> QED BY <1>2, <2>1 DEF Apart
<1>4. \A d \in S \ {c} : contacts[d] # contacts[c]
  BY DEF Apart
<1>5. Drop(contacts, c) \in [S \ {c} -> Slots] /\ Drop(wanted, c) \in [S \ {c} -> Spots]
  BY <1>1
<1> QED BY <1>2, <1>3, <1>4, <1>5

(* Both calls keep what the kernel shows in step with the contacts. *)
LEMMA PlacedShows ==
  ASSUME contacts \in [DOMAIN contacts -> Slots], wanted \in [DOMAIN contacts -> Spots],
         NEW c \in Contacts, NEW slot \in Slots, NEW spot \in Spots,
         NEW fresh \in BOOLEAN, fresh <=> c \notin DOMAIN contacts, NEW count \in Nat,
         next_tracking_id \in Nat, Apart(contacts),
         c \in DOMAIN contacts => contacts[c] = slot,
         c \notin DOMAIN contacts => \A d \in DOMAIN contacts : contacts[d] # slot,
         kernel \in Kernels, ShownWhere(kernel, contacts, wanted)
  PROVE  ShownWhere(WithContact(kernel, slot, fresh, count, spot),
                    Put(contacts, c, slot), Put(wanted, c, spot))
<1> DEFINE S == DOMAIN contacts
           all == Put(contacts, c, slot)
           at == Put(wanted, c, spot)
           new == WithContact(kernel, slot, fresh, count, spot)
<1>1. kernel.track \in [Slots -> Int] /\ kernel.at \in [Slots -> Spots \cup {Nowhere}]
  BY KernelFields DEF Tracks, Places
<1>2. /\ new.track = IF fresh THEN [kernel.track EXCEPT ![slot] = next_tracking_id] ELSE kernel.track
      /\ new.at = [kernel.at EXCEPT ![slot] = spot]
  BY KernelFields DEF WithContact
<1>3. /\ DOMAIN all = S \cup {c} /\ all[c] = slot /\ at[c] = spot
      /\ \A d \in S : all[d] = contacts[d]
      /\ \A d \in S \ {c} : at[d] = wanted[d] /\ contacts[d] # slot
  <2>1. /\ all = [d \in S \cup {c} |-> IF d = c THEN slot ELSE contacts[d]]
        /\ at = [d \in S \cup {c} |-> IF d = c THEN spot ELSE wanted[d]]
    BY DEF Put
  <2>2. \A d \in S \ {c} : contacts[d] # slot
    BY DEF Apart
  <2> HIDE DEF all, at
  <2> QED BY <2>1, <2>2
<1> HIDE DEF new, all, at
<1>4. ASSUME NEW s \in Slots
      PROVE  new.track[s] # -1 <=> \E d \in DOMAIN all : all[d] = s
  <2>1. kernel.track[s] # -1 <=> \E d \in S : contacts[d] = s
    BY <1>3 DEF ShownWhere
  <2>2. (\E d \in DOMAIN all : all[d] = s) <=> s = slot \/ \E d \in S : contacts[d] = s
    BY <1>3
  <2>3. next_tracking_id # -1
    OBVIOUS
  <2>4. CASE fresh
    <3>1. new.track[s] = IF s = slot THEN next_tracking_id ELSE kernel.track[s]
      BY <1>1, <1>2, <2>4
    <3> QED BY <2>1, <2>2, <2>3, <3>1
  <2>5. CASE ~fresh
    <3>1. new.track[s] = kernel.track[s] /\ c \in S
      BY <1>2, <2>5
    <3> QED BY <2>1, <2>2, <3>1
  <2> QED BY <2>4, <2>5
<1>5. ASSUME NEW d \in DOMAIN all
      PROVE  new.at[all[d]] = at[d]
  <2>1. CASE d = c
    BY <1>1, <1>2, <1>3, <2>1
  <2>2. CASE d # c
    <3>1. d \in S \ {c} /\ all[d] = contacts[d] /\ at[d] = wanted[d]
          /\ contacts[d] # slot /\ contacts[d] \in Slots
      BY <1>3, <1>5, <2>2
    <3>2. kernel.at[contacts[d]] = wanted[d]
      BY <3>1 DEF ShownWhere
    <3> QED BY <1>1, <1>2, <3>1, <3>2
  <2> QED BY <2>1, <2>2
<1> QED BY <1>4, <1>5 DEF ShownWhere, new, all, at

LEMMA ReleasedShows ==
  ASSUME contacts \in [DOMAIN contacts -> Slots], wanted \in [DOMAIN contacts -> Spots],
         NEW c \in DOMAIN contacts, NEW count \in Nat, Apart(contacts),
         kernel \in Kernels, ShownWhere(kernel, contacts, wanted)
  PROVE  ShownWhere(WithoutContact(kernel, contacts[c], Drop(contacts, c), count),
                    Drop(contacts, c), Drop(wanted, c))
<1> DEFINE S == DOMAIN contacts
           rest == Drop(contacts, c)
           at == Drop(wanted, c)
           slot == contacts[c]
           new == WithoutContact(kernel, slot, rest, count)
<1>1. kernel.track \in [Slots -> Int] /\ kernel.at \in [Slots -> Spots \cup {Nowhere}]
      /\ slot \in Slots
  BY KernelFields DEF Tracks, Places
<1>2. new.track = [kernel.track EXCEPT ![slot] = -1] /\ new.at = kernel.at
  BY KernelFields DEF WithoutContact
<1>3. /\ DOMAIN rest = S \ {c}
      /\ \A d \in S \ {c} : /\ rest[d] = contacts[d] /\ at[d] = wanted[d]
                            /\ contacts[d] # slot
  <2>1. rest \in [S \ {c} -> Slots]
    BY MapsReleased
  <2> QED BY <2>1, MapsReleased
<1> HIDE DEF new, rest, at
<1>4. ASSUME NEW s \in Slots
      PROVE  new.track[s] # -1 <=> \E d \in DOMAIN rest : rest[d] = s
  <2>1. kernel.track[s] # -1 <=> \E d \in S : contacts[d] = s
    BY <1>3 DEF ShownWhere
  <2>2. new.track[s] = IF s = slot THEN -1 ELSE kernel.track[s]
    BY <1>1, <1>2
  <2>3. (\E d \in DOMAIN rest : rest[d] = s) <=> \E d \in S \ {c} : contacts[d] = s
    BY <1>3
  <2>4. (\E d \in S \ {c} : contacts[d] = s) <=> s # slot /\ \E d \in S : contacts[d] = s
    BY <1>3
  <2> QED BY <2>1, <2>2, <2>3, <2>4
<1>5. ASSUME NEW d \in DOMAIN rest
      PROVE  new.at[rest[d]] = at[d]
  BY <1>2, <1>3, <1>5 DEF ShownWhere
<1> QED BY <1>4, <1>5 DEF ShownWhere, new, rest, at

(* The keys agree with the number of contacts. *)
LEMMA PlacedKeys ==
  ASSUME NEW k \in Kernels, NEW slot, NEW spot, NEW fresh \in BOOLEAN, NEW count \in Nat,
         NEW f, NEW g, touchKind \in TouchKinds, IsFiniteSet(DOMAIN g),
         DOMAIN g # {}, count = Cardinality(DOMAIN g),
         ~fresh => DOMAIN g = DOMAIN f, ShownKeys(k, f, touchKind)
  PROVE  ShownKeys(WithContact(k, slot, fresh, count, spot), g, touchKind)
<1> DEFINE new == WithContact(k, slot, fresh, count, spot)
<1>1. new.keys = IF fresh THEN ArrivalKeys(k.keys, count) ELSE k.keys
  BY KernelFields DEF WithContact
<1>2. k.keys \in SUBSET KeyCodes
  BY KernelFields
<1> HIDE DEF new
<1>3. count > 0
  <2>1. count # 0
    BY FS_EmptySet
  <2> QED BY <2>1
<1>4. CASE ~fresh
  BY <1>1, <1>4 DEF ShownKeys, new
<1>5. CASE fresh /\ touchKind = "trackpad"
  <2>1. new.keys = TrackpadKeys(k.keys, count)
    BY <1>1, <1>5 DEF ArrivalKeys
  <2> QED BY <1>2, <1>3, <2>1, TrackpadShows DEF ShownKeys, new
<1>6. CASE fresh /\ touchKind # "trackpad"
  <2>1. new.keys = k.keys \cup {"BTN_TOUCH"}
    BY <1>1, <1>6 DEF ArrivalKeys, KeyToggled
  <2>2. touchKind \notin {"none", "trackpad"}
    BY <1>6 DEF TouchKinds
  <2> QED BY <2>1, <2>2 DEF ShownKeys, new
<1> QED BY <1>4, <1>5, <1>6

LEMMA ReleasedKeys ==
  ASSUME NEW k \in Kernels, NEW slot, NEW f, NEW T, NEW rest \in [T -> Slots], NEW count \in Nat,
         touchKind \in TouchKinds, IsFiniteSet(T), count = Cardinality(T), DOMAIN f # {},
         ShownKeys(k, f, touchKind)
  PROVE  ShownKeys(WithoutContact(k, slot, rest, count), rest, touchKind)
<1> DEFINE new == WithoutContact(k, slot, rest, count)
<1>1. new.keys = LiftedKeys(k.keys, rest, count)
  BY KernelFields DEF WithoutContact
<1>2. k.keys \in SUBSET KeyCodes
  BY KernelFields
<1>3. DOMAIN rest = T /\ (rest = <<>> <=> T = {})
  BY EmptyMap
<1>4. count > 0 <=> T # {}
  <2>1. count = 0 <=> T = {}
    BY FS_EmptySet
  <2> QED BY <2>1
<1> HIDE DEF new
<1>5. CASE touchKind = "trackpad"
  <2>1. new.keys = TrackpadKeys(k.keys, count)
    BY <1>1, <1>5 DEF LiftedKeys
  <2> QED BY <1>2, <1>3, <1>4, <2>1, TrackpadShows DEF ShownKeys, new
<1>6. CASE touchKind # "trackpad"
  <2>1. touchKind \notin {"none", "trackpad"}
    BY <1>6 DEF TouchKinds
  <2>2. "BTN_TOUCH" \in k.keys
    BY DEF ShownKeys
  <2>3. new.keys = IF T = {} THEN k.keys \ {"BTN_TOUCH"} ELSE k.keys
    BY <1>1, <1>3, <1>6 DEF LiftedKeys, KeyToggled
  <2> QED BY <1>3, <2>1, <2>2, <2>3 DEF ShownKeys, new
<1> QED BY <1>5, <1>6

-----------------------------------------------------------------------------
(* The steps *)

LEMMA TouchPlaces ==
  ASSUME TouchInv, NEW c \in Contacts, NEW spot \in Spots, PlaceContact(c, spot)
  PROVE  TouchInv'
<1> DEFINE S == DOMAIN contacts
           slot == SlotForContact(c)
           fresh == c \notin S
           all == Put(contacts, c, slot)
           at == Put(wanted, c, spot)
           count == Cardinality(DOMAIN all)
           script == ContactScript(slot, fresh, count, spot)
           new == WithContact(kernel, slot, fresh, count, spot)
<1>1. /\ touchKind \in TouchKinds /\ touchKind # "closed" /\ touchKind' = touchKind
      /\ c \in S \/ FreeSlots # {}
  BY DEF PlaceContact, TouchKinds
<1>2. PICK n \in Writable(script, MayFail) :
        /\ Writes(script, n)
        /\ next_tracking_id' \in {next_tracking_id, TrackingIdAfter(next_tracking_id)}
  BY DEF PlaceContact, ContactScript
<1>3. contacts' = all /\ current_slot' = slot /\ wanted' = at
  BY DEF PlaceContact
<1>4. /\ S \in SUBSET Contacts /\ contacts \in [S -> Slots] /\ wanted \in [S -> Spots] /\ IsFiniteSet(S)
      /\ Apart(contacts) /\ next_tracking_id \in Nat /\ touchFailures \in Nat
  BY DEF TouchInv, TouchTypes
<1>5. slot \in Slots /\ (c \in S => contacts[c] = slot)
      /\ (c \notin S => \A d \in S : contacts[d] # slot)
  <2>1. CASE c \in S
    BY <1>4, <2>1 DEF SlotForContact
  <2>2. CASE c \notin S
    BY <1>1, <2>2, FreeSlot DEF SlotForContact, FreeSlots
  <2> QED BY <2>1, <2>2
<1>6. fresh \in BOOLEAN /\ (fresh <=> c \notin S)
  OBVIOUS
<1>7. TrackingIdAfter(next_tracking_id) \in Nat
  BY <1>4, SlotsAndIds DEF TrackingIdAfter, SlotsAndIds
<1> HIDE DEF slot, fresh
<1>8. /\ all \in [S \cup {c} -> Slots] /\ at \in [S \cup {c} -> Spots]
      /\ Apart(all)
  BY <1>4, <1>5, MapsPlaced
<1>9. DOMAIN all = S \cup {c} /\ DOMAIN all # {} /\ IsFiniteSet(DOMAIN all)
  BY <1>4, <1>8, FS_AddElement
<1>10. count \in Nat
  BY <1>9, FS_CardinalityType
<1> HIDE DEF all, at, count
<1>11. ASSUME NEW k \in Kernels, current_slot = slot => k.slot = slot
       PROVE  /\ script \in Seq(TouchEvents)
              /\ After("touch", k, script) = WithContact(k, slot, fresh, count, spot)
              /\ WithContact(k, slot, fresh, count, spot) \in Kernels
  BY <1>4, <1>5, <1>6, <1>10, <1>11, ContactEffect
<1>12. script \in Seq(TouchEvents)
  BY <1>5, <1>11, SomeKernel
<1> HIDE DEF script
<1>13. /\ touchFailures' \in Nat
       /\ touchFailures' = 0 =>
            touchFailures = 0 /\ kernel' = After("touch", kernel, script)
  BY <1>2, <1>4, <1>12, TouchWritten
<1>14. ASSUME touchFailures' = 0
       PROVE  /\ kernel' = new /\ new \in Kernels /\ kernel \in Kernels
              /\ ShownWhere(kernel, contacts, wanted) /\ ShownKeys(kernel, contacts, touchKind)
  <2>1. /\ kernel \in Kernels /\ Cached(kernel, current_slot)
        /\ ShownWhere(kernel, contacts, wanted) /\ ShownKeys(kernel, contacts, touchKind)
    BY <1>1, <1>13, <1>14 DEF TouchInv, TouchTypes
  <2>2. current_slot = slot => kernel.slot = slot
    BY <1>5, <2>1 DEF Cached
  <2> QED BY <1>11, <1>13, <1>14, <2>1, <2>2
<1>15. TouchTypes'
  <2>1. DOMAIN contacts' \subseteq Contacts /\ contacts' \in [DOMAIN contacts' -> Slots] /\ wanted' \in [DOMAIN contacts' -> Spots]
        /\ IsFiniteSet(DOMAIN contacts')
    BY <1>3, <1>4, <1>8, <1>9
  <2>2. next_tracking_id' \in Nat
    BY <1>2, <1>4, <1>7
  <2> QED BY <1>1, <1>3, <1>5, <1>13, <1>14, <2>1, <2>2 DEF TouchTypes
<1>16. Apart(contacts)'
  BY <1>3, <1>8 DEF Apart
<1>17. ASSUME touchFailures' = 0
       PROVE  /\ Cached(kernel, current_slot)' /\ ShownWhere(kernel, contacts, wanted)'
              /\ ShownKeys(kernel, contacts, touchKind)'
  <2>1. kernel' = new /\ new \in Kernels /\ kernel \in Kernels
    BY <1>14, <1>17
  <2>2. ShownWhere(kernel, contacts, wanted) /\ ShownKeys(kernel, contacts, touchKind)
    BY <1>14, <1>17
  <2>3. Cached(new, slot)
    BY KernelFields DEF Cached, WithContact
  <2>4. ShownWhere(new, all, at)
    <3> HIDE DEF new
    <3>1. ShownWhere(WithContact(kernel, slot, fresh, count, spot),
                     Put(contacts, c, slot), Put(wanted, c, spot))
      BY <1>4, <1>5, <1>6, <1>10, <2>1, <2>2, PlacedShows
    <3> QED BY <3>1 DEF new, all, at
  <2>5. ~fresh => DOMAIN all = DOMAIN contacts
    BY <1>6, <1>9
  <2>6. ShownKeys(new, all, touchKind)
    BY <1>1, <1>6, <1>9, <1>10, <2>1, <2>2, <2>5, PlacedKeys DEF count
  <2> HIDE DEF new
  <2> QED BY <1>1, <1>3, <2>1, <2>3, <2>4, <2>6 DEF Cached, ShownWhere, ShownKeys
<1> QED BY <1>15, <1>16, <1>17 DEF TouchInv

LEMMA TouchReleases ==
  ASSUME TouchInv, NEW c \in Contacts, ReleaseContact(c)
  PROVE  TouchInv'
<1> DEFINE S == DOMAIN contacts
           slot == contacts[c]
           rest == Drop(contacts, c)
           at == Drop(wanted, c)
           count == Cardinality(DOMAIN rest)
           script == ReleaseScript(slot, rest, count)
           new == WithoutContact(kernel, slot, rest, count)
<1>1. /\ touchKind \in TouchKinds /\ touchKind # "closed" /\ touchKind' = touchKind
      /\ c \in S /\ current_slot' = slot /\ next_tracking_id' = next_tracking_id
  BY DEF ReleaseContact, TouchKinds
<1>2. PICK n \in Writable(script, MayFail) :
        /\ Writes(script, n)
        /\ contacts' = IF n >= Len(SelectScript(slot)) THEN rest ELSE contacts
        /\ wanted' = IF n >= Len(SelectScript(slot)) THEN at ELSE wanted
  BY DEF ReleaseContact, ReleaseScript, LiftScript
<1>3. /\ S \in SUBSET Contacts /\ contacts \in [S -> Slots] /\ wanted \in [S -> Spots] /\ IsFiniteSet(S)
      /\ Apart(contacts) /\ next_tracking_id \in Nat /\ touchFailures \in Nat
      /\ slot \in Slots
  BY <1>1 DEF TouchInv, TouchTypes
<1>4. /\ rest \in [S \ {c} -> Slots] /\ at \in [S \ {c} -> Spots]
      /\ Apart(rest)
  BY <1>1, <1>3, MapsReleased
<1>5. DOMAIN rest = S \ {c} /\ IsFiniteSet(S \ {c})
  BY <1>3, <1>4, FS_RemoveElement
<1>6. count \in Nat /\ count = Cardinality(S \ {c})
  BY <1>5, FS_CardinalityType
<1> HIDE DEF rest, at, count
<1>7. ASSUME NEW k \in Kernels, current_slot = slot => k.slot = slot
      PROVE  /\ script \in Seq(TouchEvents)
             /\ After("touch", k, script) = WithoutContact(k, slot, rest, count)
             /\ WithoutContact(k, slot, rest, count) \in Kernels
             /\ Len(SelectScript(slot)) <= Len(script)
  <2> HIDE DEF slot
  <2> QED BY <1>3, <1>6, <1>7, ReleaseEffect
<1>8. script \in Seq(TouchEvents) /\ Len(SelectScript(slot)) <= Len(script)
  BY <1>3, <1>7, SomeKernel
<1> HIDE DEF script
<1>9. /\ touchFailures' \in Nat
      /\ touchFailures' = 0 =>
           touchFailures = 0 /\ n = Len(script) /\ kernel' = After("touch", kernel, script)
  BY <1>2, <1>3, <1>8, TouchWritten
<1>10. ASSUME touchFailures' = 0
       PROVE  /\ kernel' = new /\ new \in Kernels /\ kernel \in Kernels
              /\ ShownWhere(kernel, contacts, wanted) /\ ShownKeys(kernel, contacts, touchKind)
              /\ contacts' = rest /\ wanted' = at
  <2>1. /\ kernel \in Kernels /\ Cached(kernel, current_slot)
        /\ ShownWhere(kernel, contacts, wanted) /\ ShownKeys(kernel, contacts, touchKind)
    BY <1>1, <1>9, <1>10 DEF TouchInv, TouchTypes
  <2>2. current_slot = slot => kernel.slot = slot
    BY <1>3, <2>1 DEF Cached
  <2>3. contacts' = rest /\ wanted' = at
    BY <1>2, <1>8, <1>9, <1>10
  <2> QED BY <1>7, <1>9, <1>10, <2>1, <2>2, <2>3
<1>11. \/ contacts' = rest /\ wanted' = at
       \/ contacts' = contacts /\ wanted' = wanted
  BY <1>2
<1>12. TouchTypes'
  <2>1. DOMAIN contacts' \subseteq Contacts /\ contacts' \in [DOMAIN contacts' -> Slots] /\ wanted' \in [DOMAIN contacts' -> Spots]
        /\ IsFiniteSet(DOMAIN contacts')
    BY <1>3, <1>4, <1>5, <1>11
  <2> QED BY <1>1, <1>3, <1>9, <1>10, <2>1 DEF TouchTypes
<1>13. Apart(contacts)'
  BY <1>3, <1>4, <1>11 DEF Apart
<1>14. ASSUME touchFailures' = 0
       PROVE  /\ Cached(kernel, current_slot)' /\ ShownWhere(kernel, contacts, wanted)'
              /\ ShownKeys(kernel, contacts, touchKind)'
  <2>1. kernel' = new /\ new \in Kernels /\ kernel \in Kernels /\ contacts' = rest /\ wanted' = at
    BY <1>10, <1>14
  <2>2. ShownWhere(kernel, contacts, wanted) /\ ShownKeys(kernel, contacts, touchKind)
    BY <1>10, <1>14
  <2>3. Cached(new, slot)
    BY KernelFields DEF Cached, WithoutContact
  <2>4. ShownWhere(new, rest, at)
    <3> HIDE DEF new
    <3>1. ShownWhere(WithoutContact(kernel, contacts[c], Drop(contacts, c), count),
                     Drop(contacts, c), Drop(wanted, c))
      BY <1>1, <1>3, <1>6, <2>1, <2>2, ReleasedShows
    <3> QED BY <3>1 DEF new, rest, at
  <2>5. ShownKeys(new, rest, touchKind)
    <3> DEFINE T == S \ {c}
    <3>1. rest \in [T -> Slots] /\ IsFiniteSet(T) /\ count = Cardinality(T) /\ DOMAIN contacts # {}
      BY <1>1, <1>4, <1>5, <1>6
    <3> HIDE DEF T
    <3> QED BY <1>1, <1>6, <2>1, <2>2, <3>1, ReleasedKeys
  <2> HIDE DEF new
  <2> QED BY <1>1, <2>1, <2>3, <2>4, <2>5 DEF Cached, ShownWhere, ShownKeys
<1> QED BY <1>12, <1>13, <1>14 DEF TouchInv

(* The button of the trackpad is not one the contacts are shown with. *)
LEMMA TouchPresses ==
  ASSUME TouchInv, NEW down \in BOOLEAN, TouchButton(down)
  PROVE  TouchInv'
<1> DEFINE press == Key("BTN_LEFT", down)
           script == <<press, Syn>>
           new == Kernel(kernel.slot, kernel.track, kernel.at,
                         KeyToggled(kernel.keys, "BTN_LEFT", down))
<1>1. /\ touchKind = "trackpad" /\ touchKind' = touchKind /\ contacts' = contacts
      /\ current_slot' = current_slot /\ next_tracking_id' = next_tracking_id
      /\ wanted' = wanted
  BY DEF TouchButton
<1>2. PICK n \in Writable(script, MayFail) : Writes(script, n)
  BY DEF TouchButton
<1>3. "BTN_LEFT" \in KeyCodes /\ Syn \in TouchEvents
  BY SynEffect DEF KeyCodes
<1>4. press \in TouchEvents
  BY <1>3, KeyEffect
<1>5. ASSUME kernel \in Kernels
      PROVE  /\ Effect("touch", Effect("touch", kernel, press), Syn) = new
             /\ new \in Kernels
  <2>1. /\ kernel = Kernel(kernel.slot, kernel.track, kernel.at, kernel.keys)
        /\ kernel.slot \in Slots /\ kernel.track \in Tracks /\ kernel.at \in Places
        /\ kernel.keys \in SUBSET KeyCodes
    BY <1>5, KernelFields
  <2>2. /\ Effect("touch", Kernel(kernel.slot, kernel.track, kernel.at, kernel.keys), press) = new
        /\ KeyToggled(kernel.keys, "BTN_LEFT", down) \in SUBSET KeyCodes
    BY <1>3, <2>1, KeyEffect
  <2>3. Effect("touch", new, Syn) = new
    BY SynEffect
  <2>4. new \in Kernels
    BY <2>1, <2>2, KernelFields
  <2> HIDE DEF new, press
  <2> QED BY <2>1, <2>2, <2>3, <2>4
<1> HIDE DEF press, new
<1>6. script \in Seq(TouchEvents)
  BY <1>3, <1>4
<1>7. After("touch", kernel, script) = Effect("touch", Effect("touch", kernel, press), Syn)
  BY <1>3, <1>4, AfterTwo
<1> HIDE DEF script
<1>8. touchFailures \in Nat
  BY DEF TouchInv, TouchTypes
<1>9. /\ touchFailures' \in Nat
      /\ touchFailures' = 0 =>
           touchFailures = 0 /\ kernel' = After("touch", kernel, script)
  BY <1>2, <1>6, <1>8, TouchWritten
<1>10. ASSUME touchFailures' = 0
       PROVE  /\ kernel' = new /\ new \in Kernels /\ kernel \in Kernels
              /\ Cached(kernel, current_slot)
              /\ ShownWhere(kernel, contacts, wanted) /\ ShownKeys(kernel, contacts, touchKind)
  <2>1. /\ kernel \in Kernels /\ Cached(kernel, current_slot)
        /\ ShownWhere(kernel, contacts, wanted) /\ ShownKeys(kernel, contacts, touchKind)
    BY <1>1, <1>9, <1>10 DEF TouchInv, TouchTypes
  <2> QED BY <1>5, <1>7, <1>9, <1>10, <2>1
<1>11. TouchTypes'
  BY <1>1, <1>9, <1>10 DEF TouchInv, TouchTypes
<1>12. Apart(contacts)'
  BY <1>1 DEF TouchInv, Apart
<1>13. ASSUME touchFailures' = 0
       PROVE  /\ Cached(kernel, current_slot)' /\ ShownWhere(kernel, contacts, wanted)'
              /\ ShownKeys(kernel, contacts, touchKind)'
  <2>1. /\ new.slot = kernel.slot /\ new.track = kernel.track /\ new.at = kernel.at
        /\ new.keys = KeyToggled(kernel.keys, "BTN_LEFT", down)
    BY KernelFields DEF new
  <2>2. /\ "BTN_TOUCH" \in new.keys <=> "BTN_TOUCH" \in kernel.keys
        /\ new.keys \ {"BTN_TOUCH", "BTN_LEFT"} = kernel.keys \ {"BTN_TOUCH", "BTN_LEFT"}
    BY <2>1 DEF KeyToggled
  <2> QED BY <1>1, <1>10, <1>13, <2>1, <2>2 DEF Cached, ShownWhere, ShownKeys
<1> QED BY <1>11, <1>12, <1>13 DEF TouchInv

LEMMA TouchStep == TouchInv /\ [TouchNext]_touchVars => TouchInv'
<1> SUFFICES ASSUME TouchInv, [TouchNext]_touchVars PROVE TouchInv'
  OBVIOUS
<1>1. ASSUME NEW k \in TouchKinds, CreateTouch(k) PROVE TouchInv'
  BY <1>1 DEF CreateTouch, TouchKinds, TouchInv, TouchTypes, Apart, Cached, ShownWhere, ShownKeys
<1>2. ASSUME NEW c \in Contacts, NEW spot \in Spots, PlaceContact(c, spot) PROVE TouchInv'
  BY <1>2, TouchPlaces
<1>3. ASSUME NEW c \in Contacts, ReleaseContact(c) PROVE TouchInv'
  BY <1>3, TouchReleases
<1>4. ASSUME NEW down \in BOOLEAN, TouchButton(down) PROVE TouchInv'
  BY <1>4, TouchPresses
<1>5. CASE CloseTouch
  BY <1>5, ResetKernel DEF CloseTouch, TouchKinds, TouchInv, TouchTypes, Apart
<1>6. CASE UNCHANGED touchVars
  BY <1>6 DEF touchVars, TouchInv, TouchTypes, Apart, Cached, ShownWhere, ShownKeys
<1> QED BY <1>1, <1>2, <1>3, <1>4, <1>5, <1>6 DEF TouchNext

(* Two contacts never share a slot, whichever writes failed; as long as none *)
(* has, the kernel shows exactly the contacts the application placed and has *)
(* not released, where they were placed last, and BTN_TOUCH and the trackpad *)
(* tool agree with their number.                                             *)
THEOREM ContactsShown == TouchSpec => []KernelShowsContacts
<1>1. TouchInv => KernelShowsContacts
  <2> SUFFICES ASSUME TouchInv PROVE KernelShowsContacts
    OBVIOUS
  <2>1. \A c, d \in DOMAIN contacts : contacts[c] = contacts[d] => c = d
    BY DEF TouchInv, Apart
  <2>2. ASSUME touchKind \in TouchKinds, touchFailures = 0
        PROVE  /\ {s \in Slots : kernel.track[s] # -1} = {contacts[c] : c \in DOMAIN contacts}
               /\ \A c \in DOMAIN contacts : kernel.at[contacts[c]] = wanted[c]
               /\ "BTN_TOUCH" \in kernel.keys <=> contacts # <<>>
               /\ touchKind = "trackpad" =>
                    kernel.keys \ {"BTN_TOUCH", "BTN_LEFT"} = ToolOf(Cardinality(DOMAIN contacts))
    <3>1. /\ contacts \in [DOMAIN contacts -> Slots]
          /\ ShownWhere(kernel, contacts, wanted) /\ ShownKeys(kernel, contacts, touchKind)
      BY <2>2 DEF TouchInv, TouchTypes, TouchKinds
    <3>2. {s \in Slots : kernel.track[s] # -1} = {contacts[c] : c \in DOMAIN contacts}
      <4>1. \A c \in DOMAIN contacts : contacts[c] \in Slots
        BY <3>1
      <4>2. \A s \in Slots : kernel.track[s] # -1 <=> \E c \in DOMAIN contacts : contacts[c] = s
        BY <3>1 DEF ShownWhere
      <4> QED BY <4>1, <4>2
    <3>3. contacts = <<>> <=> DOMAIN contacts = {}
      BY <3>1, EmptyMap
    <3> QED BY <3>1, <3>2, <3>3 DEF ShownWhere, ShownKeys
  <2> QED BY <2>1, <2>2 DEF KernelShowsContacts
<1> QED BY <1>1, TouchStarts, TouchStep, PTL DEF TouchSpec

-----------------------------------------------------------------------------
(* Types.  Whichever write of a script fails, the events before it leave the *)
(* kernel with values of its types.                                          *)

LEMMA AfterTyped ==
  ASSUME NEW device \in {"pen", "touch"}, NEW k, NEW E, NEW s \in Seq(E)
  PROVE  /\ Len(s) \in Nat /\ \A i \in 1..Len(s) : s[i] \in E
         /\ \E f : Runs(f, Len(s), device, k, s) /\ After(device, k, s) = f[1..Len(s)]
<1>1. Len(s) \in Nat /\ DOMAIN s = 1..Len(s) /\ \A i \in 1..Len(s) : s[i] \in E
  OBVIOUS
<1> QED BY <1>1, AfterRuns

LEMMA AfterKeeps ==
  ASSUME NEW device \in {"pen", "touch"}, NEW T, NEW E, NEW k \in T, NEW s \in Seq(E),
         \A t \in T, e \in E : Effect(device, t, e) \in T
  PROVE  After(device, k, s) \in T
<1>0. /\ Len(s) \in Nat /\ \A i \in 1..Len(s) : s[i] \in E
      /\ \E f : Runs(f, Len(s), device, k, s) /\ After(device, k, s) = f[1..Len(s)]
  BY ONLY device \in {"pen", "touch"}, s \in Seq(E), AfterTyped
<1> DEFINE n == Len(s)
<1>1. n \in Nat /\ \A i \in 1..n : s[i] \in E
  BY <1>0
<1>2. PICK f : Runs(f, n, device, k, s) /\ After(device, k, s) = f[1..n]
  BY <1>0
<1> HIDE DEF n
<1> DEFINE Wrong == {m \in Nat : m <= n /\ f[1..m] \notin T}
<1>3. ASSUME Wrong # {} PROVE FALSE
  <2>1. Wrong \subseteq Nat
    OBVIOUS
  <2>2. PICK m \in Wrong : \A j \in Wrong : ~ (<<j, m>> \in OpToRel(<, Nat))
    <3> HIDE DEF Wrong
    <3> QED BY <1>3, <2>1, WFMin, NatLessThanWellFounded
  <2>3. m \in Nat /\ m <= n /\ f[1..m] \notin T /\ \A j \in Wrong : ~ (j < m)
    BY <2>1, <2>2 DEF OpToRel
  <2>4. m # 0
    BY <1>1, <1>2, <2>3, RunStep
  <2>5. m - 1 \in Nat /\ m - 1 <= n /\ m - 1 \notin Wrong /\ m \in 1..n
    BY <1>1, <2>3, <2>4
  <2>6. f[1..m - 1] \in T
    BY <2>5
  <2>7. f[1..m] = Effect(device, f[1..m - 1], s[m])
    BY <1>1, <1>2, <2>5, RunStep
  <2> QED BY <1>1, <2>3, <2>5, <2>6, <2>7
<1>4. n \notin Wrong
  BY <1>3
<1> QED BY <1>1, <1>2, <1>4

(* The events of the pen's scripts, and what the kernel may hold *)
PenTypedEvents ==
  ({"PRESSURE"} \X (0..PressureMax)) \cup ({"DISTANCE"} \X (0..DistanceMax))
    \cup ((ToolKeys \cup PenButtons) \X {0, 1})
    \cup ({"POSITION", "TILT", "SYN"} \X {0})
PenHolds ==
  [keys : SUBSET (ToolKeys \cup PenButtons), pressure : 0..PressureMax,
   distance : 0..DistanceMax]

PenTyped == penKernel \in PenHolds

LEMMA PenEventKeeps ==
  ASSUME NEW k \in PenHolds, NEW e \in PenTypedEvents
  PROVE  Effect("pen", k, e) \in PenHolds
<1>1. k \in PenKernels
  BY LevelsAreIntegers DEF PenHolds, PenKernels, LevelsAreIntegers
<1>2. CASE e \in {"PRESSURE"} \X (0..PressureMax)
  <2>1. PICK v \in 0..PressureMax : e = <<"PRESSURE", v>>
    BY <1>2
  <2>2. [k EXCEPT !.pressure = v] \in PenHolds
    BY DEF PenHolds
  <2>3. v \in Int
    BY LevelsAreIntegers DEF LevelsAreIntegers
  <2> QED BY <1>1, <2>1, <2>2, <2>3, PenAxisEffect
<1>5. CASE e \in {"DISTANCE"} \X (0..DistanceMax)
  <2>1. PICK v \in 0..DistanceMax : e = <<"DISTANCE", v>>
    BY <1>5
  <2>2. [k EXCEPT !.distance = v] \in PenHolds
    BY DEF PenHolds
  <2>3. v \in Int
    BY LevelsAreIntegers DEF LevelsAreIntegers
  <2> QED BY <1>1, <2>1, <2>2, <2>3, PenAxisEffect
<1>3. CASE e \in (ToolKeys \cup PenButtons) \X {0, 1}
  <2>1. PICK code \in ToolKeys \cup PenButtons, v \in {0, 1} : e = <<code, v>>
    BY <1>3
  <2>2. e = Key(code, v = 1) /\ (v = 1) \in BOOLEAN
    BY <2>1 DEF Key
  <2>3. Effect("pen", k, e) = PenKeyed(k, code, v = 1)
    <3> DEFINE down == v = 1
    <3>1. down \in BOOLEAN /\ e = Key(code, down)
      BY <2>2
    <3> HIDE DEF down
    <3>2. Effect("pen", k, Key(code, down)) = PenKeyed(k, code, down)
      BY <1>1, <3>1, PenKeyEffect
    <3> QED BY <3>1, <3>2 DEF down
  <2> QED BY <2>3 DEF PenKeyed, PenHolds
<1>4. CASE e \in {"POSITION", "TILT", "SYN"} \X {0}
  <2>1. e = <<"POSITION", 0>> \/ e = <<"TILT", 0>> \/ e = Syn
    BY <1>4 DEF Syn
  <2> QED BY <2>1, PenOtherEffect
<1> QED BY <1>2, <1>3, <1>4, <1>5 DEF PenTypedEvents

LEMMA PenPrefix ==
  ASSUME PenTyped, NEW script \in Seq(PenTypedEvents),
         NEW n \in Writable(script, PenMayFail), PenWrites(script, n)
  PROVE  penKernel' \in PenHolds
<1>1. n \in 0..Len(script)
  BY DEF Writable
<1>2. SubSeq(script, 1, n) \in Seq(PenTypedEvents)
  BY <1>1
<1>3. penKernel' = After("pen", penKernel, SubSeq(script, 1, n))
  BY DEF PenWrites, Sent, After
<1> QED BY <1>2, <1>3, AfterKeeps, PenEventKeeps DEF PenTyped

LEMMA PenScripts ==
  ASSUME NEW tool \in Tools, NEW p \in Levels, NEW d \in Levels, last_tool \in Tools
  PROVE  PlaceScript(tool, p, d) \in Seq(PenTypedEvents)
<1>1. \A code \in ToolKeys \cup PenButtons, down \in BOOLEAN : Key(code, down) \in PenTypedEvents
  BY DEF Key, PenTypedEvents
<1>2. Syn \in PenTypedEvents /\ <<"POSITION", 0>> \in PenTypedEvents
      /\ <<"TILT", 0>> \in PenTypedEvents
  BY DEF Syn, PenTypedEvents
<1>3. /\ \A v \in 0..PressureMax : <<"PRESSURE", v>> \in PenTypedEvents
      /\ \A v \in 0..DistanceMax : <<"DISTANCE", v>> \in PenTypedEvents
  BY DEF PenTypedEvents
<1>4. /\ 0 \in 0..PressureMax /\ 0 \in 0..DistanceMax
      /\ p >= 0 => AxisValue(p, PressureMax) \in 0..PressureMax
      /\ d >= 0 => AxisValue(d, DistanceMax) \in 0..DistanceMax
  <2>1. p \in Int /\ d \in Int /\ PressureMax \in Nat /\ DistanceMax \in Nat
    BY LevelsAreIntegers DEF LevelsAreIntegers
  <2>2. 0 \in 0..PressureMax /\ 0 \in 0..DistanceMax
    BY <2>1
  <2>3. p >= 0 => AxisValue(p, PressureMax) \in 0..PressureMax
    BY ONLY <2>1, AxisValues
  <2>4. d >= 0 => AxisValue(d, DistanceMax) \in 0..DistanceMax
    BY ONLY <2>1, AxisValues
  <2> QED BY <2>2, <2>3, <2>4
<1>5. p \in Int /\ d \in Int /\ "BTN_TOUCH" \in ToolKeys
  BY LevelsAreIntegers DEF ToolKeys, LevelsAreIntegers
<1>6. PenToolScript(tool) \in Seq(PenTypedEvents)
  <2>1. CASE tool \in {"unchanged", last_tool}
    BY <2>1 DEF PenToolScript
  <2>2. CASE tool \notin {"unchanged", last_tool} /\ last_tool = "unchanged"
    <3>1. ToolKey(tool) \in ToolKeys
      BY <2>2, ToolKeyOf
    <3> DEFINE a == Key(ToolKey(tool), TRUE)
    <3>2. a \in PenTypedEvents
      BY <1>1, <3>1
    <3>3. PenToolScript(tool) = <<a>> \o <<>>
      BY <2>2 DEF PenToolScript
    <3> HIDE DEF a
    <3>4. <<a>> \o <<>> \in Seq(PenTypedEvents)
      BY <3>2
    <3> QED BY <3>3, <3>4
  <2>3. CASE tool \notin {"unchanged", last_tool} /\ last_tool # "unchanged"
    <3>1. ToolKey(tool) \in ToolKeys /\ ToolKey(last_tool) \in ToolKeys
      BY <2>3, ToolKeyOf
    <3> DEFINE a == Key(ToolKey(tool), TRUE)
               b == Key(ToolKey(last_tool), FALSE)
    <3>2. a \in PenTypedEvents /\ b \in PenTypedEvents
      BY <1>1, <3>1
    <3>3. PenToolScript(tool) = <<a>> \o <<b>>
      BY <2>3 DEF PenToolScript
    <3> HIDE DEF a, b
    <3>4. <<a>> \o <<b>> \in Seq(PenTypedEvents)
      BY <3>2
    <3> QED BY <3>3, <3>4
  <2> QED BY <2>1, <2>2, <2>3
<1>7. PressureScript(p) \in Seq(PenTypedEvents)
  <2>1. CASE p < 0
    BY <2>1 DEF PressureScript
  <2>2. CASE p >= 0
    <3> DEFINE a == <<"PRESSURE", AxisValue(p, PressureMax)>>  b == <<"DISTANCE", 0>>  c == Key("BTN_TOUCH", p > 0)
    <3>1. a \in PenTypedEvents /\ b \in PenTypedEvents
      BY <1>3, <1>4, <2>2
    <3>2. c \in PenTypedEvents
      <4> DEFINE down == p > 0
      <4>1. down \in BOOLEAN /\ c = Key("BTN_TOUCH", down)
        OBVIOUS
      <4> HIDE DEF down
      <4> QED BY <1>1, <1>5, <4>1
    <3>3. PressureScript(p) = <<a, b, c>>
      <4>1. ~(p < 0)
        BY <1>5, <2>2
      <4> QED BY <4>1, Zenon DEF PressureScript
    <3> HIDE DEF a, b, c
    <3> QED BY <3>1, <3>2, <3>3
  <2> QED BY <1>5, <2>1, <2>2
<1>8. DistanceScript(d) \in Seq(PenTypedEvents)
  <2>1. CASE d < 0
    BY <2>1 DEF DistanceScript
  <2>2. CASE d >= 0
    <3> DEFINE a == <<"DISTANCE", AxisValue(d, DistanceMax)>>  b == <<"PRESSURE", 0>>  c == Key("BTN_TOUCH", FALSE)
    <3>1. a \in PenTypedEvents /\ b \in PenTypedEvents
      BY <1>3, <1>4, <2>2
    <3>2. c \in PenTypedEvents
      BY <1>1, <1>5
    <3>3. DistanceScript(d) = <<a, b, c>>
      <4>1. ~(d < 0)
        BY <1>5, <2>2
      <4> QED BY <4>1, Zenon DEF DistanceScript
    <3> HIDE DEF a, b, c
    <3> QED BY <3>1, <3>2, <3>3
  <2> QED BY <1>5, <2>1, <2>2
<1>9. << <<"POSITION", 0>> >> \in Seq(PenTypedEvents)
      /\ << <<"TILT", 0>>, Syn >> \in Seq(PenTypedEvents)
  <2> DEFINE a == <<"POSITION", 0>>  b == <<"TILT", 0>>
  <2>1. a \in PenTypedEvents /\ b \in PenTypedEvents
    BY <1>2
  <2> HIDE DEF a, b
  <2>2. <<a>> \in Seq(PenTypedEvents) /\ <<b, Syn>> \in Seq(PenTypedEvents)
    BY <1>2, <2>1
  <2> QED BY <2>2 DEF a, b
<1> DEFINE s1 == PenToolScript(tool) \o << <<"POSITION", 0>> >>
           s2 == s1 \o PressureScript(p)
           s3 == s2 \o DistanceScript(d)
           s4 == s3 \o << <<"TILT", 0>>, Syn >>
<1>10. s1 \in Seq(PenTypedEvents)
  BY <1>6, <1>9
<1> HIDE DEF s1
<1>11. s2 \in Seq(PenTypedEvents)
  BY <1>7, <1>10
<1> HIDE DEF s2
<1>12. s3 \in Seq(PenTypedEvents)
  BY <1>8, <1>11
<1> HIDE DEF s3
<1>13. s4 \in Seq(PenTypedEvents)
  BY <1>9, <1>12
<1>14. PlaceScript(tool, p, d) = s4
  BY DEF PlaceScript, s1, s2, s3
<1> QED BY <1>13, <1>14

LEMMA PenTypedStep ==
  ASSUME PenInv, PenTyped, [PenNext]_penVars
  PROVE  penKernel' \in PenHolds
<1>1. last_tool \in Tools
  BY DEF PenInv, PenTypes
<1>2. ASSUME NEW tool \in Tools, NEW p \in Levels, NEW d \in Levels, PlaceTool(tool, p, d)
      PROVE  penKernel' \in PenHolds
  <2>1. PICK n \in Writable(PlaceScript(tool, p, d), PenMayFail) :
          PenWrites(PlaceScript(tool, p, d), n)
    BY <1>2 DEF PlaceTool, PlaceScript
  <2> QED BY <1>1, <2>1, PenScripts, PenPrefix
<1>3. ASSUME NEW button \in PenButtons, NEW down \in BOOLEAN, PenButton(button, down)
      PROVE  penKernel' \in PenHolds
  <2> DEFINE press == Key(button, down)
             script == <<press, Syn>>
  <2>1. PICK n \in Writable(script, PenMayFail) : PenWrites(script, n)
    BY <1>3 DEF PenButton
  <2>2. press \in PenTypedEvents /\ Syn \in PenTypedEvents
    BY DEF Key, Syn, PenTypedEvents
  <2>3. script \in Seq(PenTypedEvents)
    <3> HIDE DEF press
    <3> QED BY <2>2
  <2> HIDE DEF script
  <2> QED BY <2>1, <2>3, PenPrefix
<1>4. PenReset \in PenHolds
  BY LevelsAreIntegers DEF PenReset, PenHolds, LevelsAreIntegers
<1>5. CASE CreatePen \/ UNCHANGED penVars
  BY <1>5 DEF CreatePen, penVars, PenTyped
<1>6. CASE ClosePen
  BY <1>4, <1>6 DEF ClosePen
<1> QED BY <1>2, <1>3, <1>5, <1>6 DEF PenNext

(* Whatever was written before a write failed, the pen's keys, pressure and  *)
(* distance are keys and places on their axes, never negative: an axis that   *)
(* a call leaves unchanged is not written.                                   *)
THEOREM PenTypeCorrect == PenSpec => []PenTypeOK
<1>1. PenInit => PenTyped
  BY LevelsAreIntegers DEF PenInit, PenReset, PenHolds, PenTyped, LevelsAreIntegers
<1>2. PenInv /\ PenTyped => PenTypeOK
  BY DEF PenInv, PenTypes, PenHolds, PenTyped, PenTypeOK
<1>3. PenInv /\ PenTyped /\ [PenNext]_penVars => PenTyped'
  BY PenTypedStep DEF PenTyped
<1> QED BY <1>1, <1>2, <1>3, PenStarts, PenStep, PTL DEF PenSpec

(* The events of the touch devices' scripts, and what the kernel may hold *)
TouchTypedEvents ==
  ({"SLOT"} \X Slots)
    \cup ({"TRACKING_ID"} \X (-1 .. TrackingIds - 1))
    \cup ({"POSITION"} \X Spots)
    \cup (KeyCodes \X {0, 1})
    \cup ({"SYN"} \X {0})
TypedTracks == [Slots -> -1 .. TrackingIds - 1]
TouchHolds == [slot : Slots, track : TypedTracks, at : Places, keys : SUBSET KeyCodes]
TouchTyped == kernel \in TouchHolds /\ next_tracking_id \in 0 .. TrackingIds - 1

LEMMA TouchEventKeeps ==
  ASSUME NEW k \in TouchHolds, NEW e \in TouchTypedEvents
  PROVE  Effect("touch", k, e) \in TouchHolds
<1>1. /\ k.slot \in Slots /\ k.track \in TypedTracks /\ k.track \in Tracks /\ k.at \in Places
      /\ k.keys \in SUBSET KeyCodes /\ k = Kernel(k.slot, k.track, k.at, k.keys)
  BY SlotsAndIds DEF TouchHolds, TypedTracks, Tracks, Kernel, SlotsAndIds
<1>2. \A slot \in Slots, track \in TypedTracks, at \in Places, keys \in SUBSET KeyCodes :
        Kernel(slot, track, at, keys) \in TouchHolds
  BY DEF Kernel, TouchHolds
<1>3. ASSUME NEW new \in Slots, e = <<"SLOT", new>> PROVE Effect("touch", k, e) \in TouchHolds
  <2>1. Effect("touch", k, e) = Kernel(new, k.track, k.at, k.keys)
    BY <1>1, <1>3, SlotEffect
  <2> QED BY <1>1, <1>2, <2>1
<1>4. ASSUME NEW id \in -1 .. TrackingIds - 1, e = <<"TRACKING_ID", id>>
      PROVE  Effect("touch", k, e) \in TouchHolds
  <2>1. id \in Int
    BY SlotsAndIds DEF SlotsAndIds
  <2>2. Effect("touch", k, e) = Kernel(k.slot, [k.track EXCEPT ![k.slot] = id], k.at, k.keys)
    BY <1>1, <1>4, <2>1, TrackEffect
  <2>3. [k.track EXCEPT ![k.slot] = id] \in TypedTracks
    BY <1>1 DEF TypedTracks
  <2> QED BY <1>1, <1>2, <2>2, <2>3
<1>5. ASSUME NEW spot \in Spots, e = <<"POSITION", spot>> PROVE Effect("touch", k, e) \in TouchHolds
  <2>1. Effect("touch", k, e) = Kernel(k.slot, k.track, [k.at EXCEPT ![k.slot] = spot], k.keys)
    BY <1>1, <1>5, PlaceEvent
  <2>2. [k.at EXCEPT ![k.slot] = spot] \in Places
    BY <1>1 DEF Places
  <2> QED BY <1>1, <1>2, <2>1, <2>2
<1>6. ASSUME NEW code \in KeyCodes, NEW down \in BOOLEAN, e = Key(code, down)
      PROVE  Effect("touch", k, e) \in TouchHolds
  <2>1. /\ Effect("touch", k, e) = Kernel(k.slot, k.track, k.at, KeyToggled(k.keys, code, down))
        /\ KeyToggled(k.keys, code, down) \in SUBSET KeyCodes
    BY <1>1, <1>6, KeyEffect
  <2> QED BY <1>1, <1>2, <2>1
<1>7. CASE e = Syn
  BY <1>7, SynEffect
<1>8. CASE e \in {"SLOT"} \X Slots
  BY <1>3, <1>8
<1>9. CASE e \in {"TRACKING_ID"} \X (-1 .. TrackingIds - 1)
  BY <1>4, <1>9
<1>10. CASE e \in {"POSITION"} \X Spots
  BY <1>5, <1>10
<1>11. CASE e \in KeyCodes \X {0, 1}
  <2>1. PICK code \in KeyCodes, v \in {0, 1} : e = <<code, v>>
    BY <1>11
  <2> DEFINE down == v = 1
  <2>2. down \in BOOLEAN /\ e = Key(code, down)
    BY <2>1 DEF Key
  <2> HIDE DEF down
  <2> QED BY <1>6, <2>2
<1>12. CASE e \in {"SYN"} \X {0}
  BY <1>7, <1>12 DEF Syn
<1> QED BY <1>8, <1>9, <1>10, <1>11, <1>12 DEF TouchTypedEvents

LEMMA TouchPrefix ==
  ASSUME kernel \in TouchHolds, NEW script \in Seq(TouchTypedEvents),
         NEW n \in Writable(script, MayFail), Writes(script, n)
  PROVE  kernel' \in TouchHolds
<1>1. n \in 0..Len(script)
  BY DEF Writable
<1>2. SubSeq(script, 1, n) \in Seq(TouchTypedEvents)
  BY <1>1
<1>3. kernel' = After("touch", kernel, SubSeq(script, 1, n))
  BY DEF Writes, Sent, After
<1> QED BY <1>2, <1>3, AfterKeeps, TouchEventKeeps

LEMMA TouchEventsTyped ==
  /\ \A code \in KeyCodes, down \in BOOLEAN : Key(code, down) \in TouchTypedEvents
  /\ \A slot \in Slots : <<"SLOT", slot>> \in TouchTypedEvents
  /\ \A id \in -1 .. TrackingIds - 1 : <<"TRACKING_ID", id>> \in TouchTypedEvents
  /\ \A spot \in Spots : <<"POSITION", spot>> \in TouchTypedEvents
  /\ Syn \in TouchTypedEvents
<1>1. \A code \in KeyCodes, down \in BOOLEAN : Key(code, down) \in TouchTypedEvents
  BY DEF Key, TouchTypedEvents
<1> QED BY <1>1 DEF Syn, TouchTypedEvents

LEMMA ToolsTyped ==
  ASSUME NEW count \in Nat
  PROVE  /\ ToolScript(count) \in Seq(TouchTypedEvents)
         /\ \A down \in BOOLEAN : << Key("BTN_TOUCH", down) >> \in Seq(TouchTypedEvents)
<1> DEFINE d1 == count > 0
           d2 == count = 1
           d3 == count = 2
           d4 == count = 3
           d5 == count = 4
           d6 == count >= 5
           a == Key("BTN_TOUCH", d1)
           b == Key("FINGER", d2)
           c == Key("DOUBLETAP", d3)
           d == Key("TRIPLETAP", d4)
           e == Key("QUADTAP", d5)
           f == Key("QUINTTAP", d6)
<1>1. /\ d1 \in BOOLEAN /\ d2 \in BOOLEAN /\ d3 \in BOOLEAN /\ d4 \in BOOLEAN
      /\ d5 \in BOOLEAN /\ d6 \in BOOLEAN
  OBVIOUS
<1>2. ToolScript(count) = <<a, b, c, d, e, f>>
  BY DEF ToolScript
<1>3. /\ "BTN_TOUCH" \in KeyCodes /\ "FINGER" \in KeyCodes /\ "DOUBLETAP" \in KeyCodes
      /\ "TRIPLETAP" \in KeyCodes /\ "QUADTAP" \in KeyCodes /\ "QUINTTAP" \in KeyCodes
  BY DEF KeyCodes
<1> HIDE DEF d1, d2, d3, d4, d5, d6
<1>4. /\ a \in TouchTypedEvents /\ b \in TouchTypedEvents /\ c \in TouchTypedEvents
      /\ d \in TouchTypedEvents /\ e \in TouchTypedEvents /\ f \in TouchTypedEvents
  BY <1>1, <1>3, TouchEventsTyped
<1> HIDE DEF a, b, c, d, e, f
<1>5. <<a, b, c, d, e, f>> \in Seq(TouchTypedEvents)
  BY <1>4
<1>6. ASSUME NEW down \in BOOLEAN PROVE << Key("BTN_TOUCH", down) >> \in Seq(TouchTypedEvents)
  <2> DEFINE press == Key("BTN_TOUCH", down)
  <2>1. press \in TouchTypedEvents
    BY <1>3, TouchEventsTyped
  <2> HIDE DEF press
  <2>2. <<press>> \in Seq(TouchTypedEvents)
    BY <2>1
  <2> QED BY <2>2 DEF press
<1> QED BY <1>2, <1>5, <1>6

LEMMA SelectTyped ==
  ASSUME NEW slot \in Slots
  PROVE  SelectScript(slot) \in Seq(TouchTypedEvents)
<1> DEFINE event == <<"SLOT", slot>>
<1>1. event \in TouchTypedEvents
  BY TouchEventsTyped
<1>2. SelectScript(slot) = <<>> \/ SelectScript(slot) = <<event>>
  BY DEF SelectScript
<1> HIDE DEF event
<1>3. <<>> \in Seq(TouchTypedEvents) /\ <<event>> \in Seq(TouchTypedEvents)
  BY <1>1
<1> QED BY <1>2, <1>3

LEMMA ContactTyped ==
  ASSUME NEW slot \in Slots, NEW fresh \in BOOLEAN, NEW count \in Nat, NEW spot \in Spots,
         next_tracking_id \in 0 .. TrackingIds - 1
  PROVE  ContactScript(slot, fresh, count, spot) \in Seq(TouchTypedEvents)
<1> DEFINE track == <<"TRACKING_ID", next_tracking_id>>
           place == <<"POSITION", spot>>
           tools == IF touchKind = "trackpad" THEN ToolScript(count)
                    ELSE << Key("BTN_TOUCH", TRUE) >>
           select == SelectScript(slot)
           arrive == IF fresh THEN Arrival(count) ELSE <<>>
<1>1. track \in TouchTypedEvents /\ place \in TouchTypedEvents /\ Syn \in TouchTypedEvents
  BY SlotsAndIds, TouchEventsTyped DEF SlotsAndIds
<1>2. tools \in Seq(TouchTypedEvents)
  <2>1. \A down \in BOOLEAN : << Key("BTN_TOUCH", down) >> \in Seq(TouchTypedEvents)
    BY ToolsTyped
  <2>2. << Key("BTN_TOUCH", TRUE) >> \in Seq(TouchTypedEvents)
    BY <2>1
  <2>3. ToolScript(count) \in Seq(TouchTypedEvents)
    BY ToolsTyped
  <2> QED BY <2>2, <2>3
<1>3. Arrival(count) = <<track>> \o tools
  BY DEF Arrival
<1>4. select \in Seq(TouchTypedEvents)
  BY SelectTyped
<1>5. ContactScript(slot, fresh, count, spot) = select \o arrive \o <<place, Syn>>
  BY DEF ContactScript
<1> HIDE DEF track, place, tools, select
<1>6. <<track>> \o tools \in Seq(TouchTypedEvents)
  BY <1>1, <1>2
<1>7. arrive \in Seq(TouchTypedEvents)
  BY <1>3, <1>6
<1> HIDE DEF arrive
<1> DEFINE s == select \o arrive
<1>8. s \in Seq(TouchTypedEvents)
  BY <1>4, <1>7
<1> HIDE DEF s
<1>9. s \o <<place, Syn>> \in Seq(TouchTypedEvents)
  BY <1>1, <1>8
<1> QED BY <1>5, <1>9 DEF s

LEMMA ReleaseTyped ==
  ASSUME NEW slot \in Slots, NEW rest, NEW count \in Nat
  PROVE  ReleaseScript(slot, rest, count) \in Seq(TouchTypedEvents)
<1> DEFINE track == <<"TRACKING_ID", -1>>
           lift == LiftScript(rest, count)
           select == SelectScript(slot)
<1>1. track \in TouchTypedEvents /\ Syn \in TouchTypedEvents
  BY SlotsAndIds, TouchEventsTyped DEF SlotsAndIds
<1>2. lift \in Seq(TouchTypedEvents)
  <2>1. \A down \in BOOLEAN : << Key("BTN_TOUCH", down) >> \in Seq(TouchTypedEvents)
    BY ToolsTyped
  <2>2. << Key("BTN_TOUCH", FALSE) >> \in Seq(TouchTypedEvents)
    BY <2>1
  <2>3. ToolScript(count) \in Seq(TouchTypedEvents) /\ <<>> \in Seq(TouchTypedEvents)
    BY ToolsTyped
  <2> QED BY <2>2, <2>3 DEF LiftScript
<1>3. select \in Seq(TouchTypedEvents)
  BY SelectTyped
<1>4. ReleaseScript(slot, rest, count) = select \o <<track>> \o lift \o <<Syn>>
  BY DEF ReleaseScript
<1> HIDE DEF track, lift, select
<1> DEFINE s1 == select \o <<track>>
           s2 == s1 \o lift
<1>5. s1 \in Seq(TouchTypedEvents)
  BY <1>1, <1>3
<1> HIDE DEF s1
<1>6. s2 \in Seq(TouchTypedEvents)
  BY <1>2, <1>5
<1> HIDE DEF s2
<1>7. s2 \o <<Syn>> \in Seq(TouchTypedEvents)
  BY <1>1, <1>6
<1> QED BY <1>4, <1>7 DEF s1, s2

LEMMA TouchTypedStep ==
  ASSUME TouchInv, TouchTyped, [TouchNext]_touchVars
  PROVE  TouchTyped'
<1>1. /\ DOMAIN contacts \subseteq Contacts /\ contacts \in [DOMAIN contacts -> Slots]
      /\ wanted \in [DOMAIN contacts -> Spots] /\ IsFiniteSet(DOMAIN contacts)
      /\ Apart(contacts) /\ kernel \in TouchHolds
      /\ next_tracking_id \in 0 .. TrackingIds - 1
  BY DEF TouchInv, TouchTypes, TouchTyped
<1>2. ASSUME NEW c \in Contacts, NEW spot \in Spots, PlaceContact(c, spot)
      PROVE  TouchTyped'
  <2> DEFINE slot == SlotForContact(c)
             fresh == c \notin DOMAIN contacts
             all == Put(contacts, c, slot)
             count == Cardinality(DOMAIN all)
             script == ContactScript(slot, fresh, count, spot)
  <2>1. PICK n \in Writable(script, MayFail) :
          /\ Writes(script, n)
          /\ next_tracking_id' \in {next_tracking_id, TrackingIdAfter(next_tracking_id)}
    BY <1>2 DEF PlaceContact, ContactScript
  <2>2. slot \in Slots
    <3>1. CASE c \in DOMAIN contacts
      BY <1>1, <3>1 DEF SlotForContact
    <3>2. CASE c \notin DOMAIN contacts
      BY <1>2, <3>2, FreeSlot DEF PlaceContact, SlotForContact, FreeSlots
    <3> QED BY <3>1, <3>2
  <2>3. fresh \in BOOLEAN
    OBVIOUS
  <2>4. count \in Nat
    <3>1. DOMAIN all = DOMAIN contacts \cup {c}
      BY DEF Put
    <3>2. IsFiniteSet(DOMAIN contacts \cup {c})
      BY <1>1, FS_AddElement
    <3> HIDE DEF all
    <3> QED BY <3>1, <3>2, FS_CardinalityType
  <2> HIDE DEF slot, fresh, count
  <2>5. script \in Seq(TouchTypedEvents)
    BY <1>1, <2>2, <2>3, <2>4, ContactTyped
  <2> HIDE DEF script
  <2>6. kernel' \in TouchHolds
    BY <1>1, <2>1, <2>5, TouchPrefix
  <2>7. TrackingIdAfter(next_tracking_id) \in 0 .. TrackingIds - 1
    BY <1>1, SlotsAndIds DEF TrackingIdAfter, SlotsAndIds
  <2> QED BY <1>1, <2>1, <2>6, <2>7 DEF TouchTyped
<1>3. ASSUME NEW c \in Contacts, ReleaseContact(c) PROVE TouchTyped'
  <2> DEFINE slot == contacts[c]
             rest == Drop(contacts, c)
             count == Cardinality(DOMAIN rest)
             script == ReleaseScript(slot, rest, count)
  <2>1. PICK n \in Writable(script, MayFail) : Writes(script, n)
    BY <1>3 DEF ReleaseContact, ReleaseScript, LiftScript
  <2>2. slot \in Slots /\ UNCHANGED next_tracking_id
    BY <1>1, <1>3 DEF ReleaseContact
  <2>3. count \in Nat
    <3>1. DOMAIN rest = DOMAIN contacts \ {c}
      BY DEF Drop
    <3>2. IsFiniteSet(DOMAIN contacts \ {c})
      BY <1>1, FS_RemoveElement
    <3> HIDE DEF rest
    <3> QED BY <3>1, <3>2, FS_CardinalityType
  <2> HIDE DEF slot, rest, count
  <2>4. script \in Seq(TouchTypedEvents)
    BY <2>2, <2>3, ReleaseTyped
  <2> HIDE DEF script
  <2>5. kernel' \in TouchHolds
    BY <1>1, <2>1, <2>4, TouchPrefix
  <2> QED BY <1>1, <2>2, <2>5 DEF TouchTyped
<1>4. ASSUME NEW down \in BOOLEAN, TouchButton(down) PROVE TouchTyped'
  <2> DEFINE press == Key("BTN_LEFT", down)
             script == <<press, Syn>>
  <2>1. PICK n \in Writable(script, MayFail) : Writes(script, n)
    BY <1>4 DEF TouchButton
  <2>2. press \in TouchTypedEvents /\ Syn \in TouchTypedEvents
    BY TouchEventsTyped DEF KeyCodes
  <2>3. UNCHANGED next_tracking_id
    BY <1>4 DEF TouchButton
  <2> HIDE DEF press
  <2>4. script \in Seq(TouchTypedEvents)
    BY <2>2
  <2> HIDE DEF script
  <2>5. kernel' \in TouchHolds
    BY <1>1, <2>1, <2>4, TouchPrefix
  <2> QED BY <1>1, <2>3, <2>5 DEF TouchTyped
<1>5. KernelReset \in TouchHolds
  <2>1. [s \in Slots |-> -1] \in TypedTracks
    BY SlotsAndIds DEF TypedTracks, SlotsAndIds
  <2>2. 0 \in Slots /\ [s \in Slots |-> Nowhere] \in Places
    BY SlotsAndIds DEF Slots, Places, SlotsAndIds
  <2> QED BY <2>1, <2>2 DEF KernelReset, TouchHolds
<1>6. CASE CloseTouch
  BY <1>1, <1>5, <1>6 DEF CloseTouch, TouchTyped
<1>7. CASE UNCHANGED touchVars \/ \E k \in TouchKinds : CreateTouch(k)
  BY <1>1, <1>7 DEF touchVars, CreateTouch, TouchTyped
<1> QED BY <1>2, <1>3, <1>4, <1>6, <1>7 DEF TouchNext

(* Whatever was written before a write failed, the kernel has a slot, a      *)
(* tracking id or none and a place for every slot, tracking ids wrap around  *)
(* below their number, and contacts and places are kept for the same         *)
(* contacts.                                                                 *)
THEOREM TouchTypeCorrect == TouchSpec => []TouchTypeOK
<1>1. TouchInit => TouchTyped
  <2>1. [s \in Slots |-> -1] \in TypedTracks
    BY SlotsAndIds DEF TypedTracks, SlotsAndIds
  <2>2. 0 \in Slots /\ [s \in Slots |-> Nowhere] \in Places /\ 0 \in 0 .. TrackingIds - 1
    BY SlotsAndIds DEF Slots, Places, SlotsAndIds
  <2> QED BY <2>1, <2>2 DEF TouchInit, KernelReset, TouchHolds, TouchTyped
<1>2. TouchInv /\ TouchTyped => TouchTypeOK
  <2> SUFFICES ASSUME TouchInv, TouchTyped PROVE TouchTypeOK
    OBVIOUS
  <2>1. /\ kernel.slot \in Slots /\ kernel.track \in TypedTracks /\ kernel.at \in Places
        /\ kernel.keys \in SUBSET KeyCodes /\ next_tracking_id \in 0 .. TrackingIds - 1
    BY DEF TouchTyped, TouchHolds
  <2>2. DOMAIN wanted = DOMAIN contacts /\ \A c \in DOMAIN contacts : contacts[c] \in Slots
    BY DEF TouchInv, TouchTypes
  <2> QED BY <2>1, <2>2 DEF TouchInv, TouchTypes, TouchTypeOK, TypedTracks, Places
<1>3. TouchInv /\ TouchTyped /\ [TouchNext]_touchVars => TouchTyped'
  BY TouchTypedStep
<1> QED BY <1>1, <1>2, <1>3, TouchStarts, TouchStep, PTL DEF TouchSpec
=============================================================================
