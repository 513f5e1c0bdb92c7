-------------------------- MODULE SectionCrawlProofs --------------------------
(***************************************************************************)
(* Proofs about the crawl of a course, for any course, any number of       *)
(* workers and tabs, and any faults: its types, its tabs, that both crawls *)
(* come out as a CourseWalk, and that what they leave out was reported.    *)
(***************************************************************************)
EXTENDS SectionCrawl, WellFoundedInduction, SequenceTheorems, FiniteSetTheorems, TLAPS

-----------------------------------------------------------------------------
(* Induction on the natural numbers.  The library's induction theorem      *)
(* takes the property as an operator, which the provers at hand cannot     *)
(* instantiate; here it is a set of numbers, and {n \in Nat : P(n)} stands *)
(* for any property.                                                       *)

(* A set of natural numbers that is not empty has a least element.         *)
LEMMA LeastNatural ==
  ASSUME NEW T, T \subseteq Nat, T # {}
  PROVE  \E n \in T : \A m \in T : n <= m
<1> DEFINE R == OpToRel(<, Nat)
<1>1. IsWellFoundedOn(R, Nat)
  BY NatLessThanWellFounded
<1>2. PICK n \in T : \A m \in T : ~(<<m, n>> \in R)
  <2> HIDE DEF R
  <2> QED
    BY <1>1, WFMin
<1>3. \A m \in T : ~(m < n)
  BY <1>2 DEF OpToRel
<1> HIDE DEF R
<1>4. \A m \in T : n <= m
  <2> TAKE m \in T
  <2>1. ~(m < n)
    BY <1>3
  <2>2. m \in Nat /\ n \in Nat
    OBVIOUS
  <2> QED
    BY <2>1, <2>2
<1> QED
  BY <1>4

(* A set that has 0, and with a number the next, has them all.             *)
LEMMA SetInduction ==
  ASSUME NEW S, 0 \in S, \A n \in Nat : n \in S => n+1 \in S
  PROVE  Nat \subseteq S
<1> SUFFICES ASSUME Nat \ S # {} PROVE FALSE
  OBVIOUS
<1>1. PICK n \in Nat \ S : \A m \in Nat \ S : n <= m
  BY LeastNatural
<1>2. n # 0 /\ n-1 \in Nat /\ n - 1 < n
  BY <1>1
<1>3. n-1 \in S
  BY <1>1, <1>2
<1> QED
  BY <1>1, <1>2, <1>3

-----------------------------------------------------------------------------
(* Lists.                                                                  *)

(* A list with a new entry at its end names each entry once if it did.     *)
LEMMA AppendedOnce ==
  ASSUME NEW S, NEW s \in Seq(S), NEW t \in S,
         t \notin ToSet(s), IsInjective(s)
  PROVE  /\ Append(s, t) \in Seq(S)
         /\ IsInjective(Append(s, t))
         /\ ToSet(Append(s, t)) = ToSet(s) \cup {t}
<1> DEFINE r == Append(s, t)
<1>1. r \in Seq(S) /\ DOMAIN r = DOMAIN s \cup {Len(s) + 1}
  OBVIOUS
<1>2. r[Len(s) + 1] = t /\ \A i \in DOMAIN s : r[i] = s[i]
  OBVIOUS
<1>3. Len(s) + 1 \notin DOMAIN s /\ \A i \in DOMAIN s : s[i] # t
  BY DEF ToSet
<1> HIDE DEF r
<1>4. IsInjective(r)
  BY <1>1, <1>2, <1>3 DEF IsInjective
<1>5. ToSet(r) = ToSet(s) \cup {t}
  BY <1>1, <1>2, <1>3 DEF ToSet
<1> QED
  BY <1>1, <1>4, <1>5 DEF r

(* The lists InOrder goes through, up to place k.                          *)
Keeps(k, g, S, list) ==
  /\ g[0] = <<>>
  /\ \A i \in 1 .. k :
       g[i] = IF list[i] \in S \ ToSet(g[i - 1])
              THEN Append(g[i - 1], list[i]) ELSE g[i - 1]

(* For every list there are such lists, up to its last place.              *)
LEMMA KeptExists ==
  ASSUME NEW A, NEW list \in Seq(A), NEW S
  PROVE  \E g \in [0 .. Len(list) -> Seq(A)] : Keeps(Len(list), g, S, list)
<1> DEFINE K == {k \in Nat : k <= Len(list) =>
                   \E g \in [0 .. k -> Seq(A)] : Keeps(k, g, S, list)}
<1>1. 0 \in K
  <2> DEFINE g == [i \in 0 .. 0 |-> <<>>]
  <2>1. g \in [0 .. 0 -> Seq(A)] /\ Keeps(0, g, S, list)
    BY DEF Keeps
  <2> QED
    BY <2>1
<1>2. ASSUME NEW k \in Nat, k \in K PROVE k + 1 \in K
  <2> SUFFICES ASSUME k + 1 <= Len(list)
               PROVE  \E g \in [0 .. k + 1 -> Seq(A)] : Keeps(k + 1, g, S, list)
    OBVIOUS
  <2>1. PICK g \in [0 .. k -> Seq(A)] : Keeps(k, g, S, list)
    BY <1>2
  <2> HIDE DEF K
  <2> DEFINE last == IF list[k + 1] \in S \ ToSet(g[k])
                     THEN Append(g[k], list[k + 1]) ELSE g[k]
             h == [i \in 0 .. k + 1 |-> IF i <= k THEN g[i] ELSE last]
  <2>2. g[k] \in Seq(A) /\ list[k + 1] \in A
    OBVIOUS
  <2>3. last \in Seq(A)
    BY <2>2
  <2> HIDE DEF last
  <2>4. h \in [0 .. k + 1 -> Seq(A)]
    BY <2>3
  <2>5. \A i \in 0 .. k : h[i] = g[i]
    OBVIOUS
  <2>6. h[k + 1] = last
    OBVIOUS
  <2> HIDE DEF h
  <2>7. Keeps(k + 1, h, S, list)
    <3>1. h[0] = <<>>
      BY <2>1, <2>5 DEF Keeps
    <3>2. ASSUME NEW i \in 1 .. k
          PROVE  h[i] = IF list[i] \in S \ ToSet(h[i - 1])
                        THEN Append(h[i - 1], list[i]) ELSE h[i - 1]
      <4>1. i \in 0 .. k /\ i - 1 \in 0 .. k
        OBVIOUS
      <4>2. h[i] = g[i] /\ h[i - 1] = g[i - 1]
        BY <2>5, <4>1
      <4> QED
        BY <2>1, <4>2 DEF Keeps
    <3>3. h[k + 1] = IF list[k + 1] \in S \ ToSet(h[(k + 1) - 1])
                     THEN Append(h[(k + 1) - 1], list[k + 1])
                     ELSE h[(k + 1) - 1]
      <4>1. (k + 1) - 1 = k /\ h[k] = g[k]
        BY <2>5
      <4> QED BY <2>6, <4>1 DEF last
    <3>4. \A i \in 1 .. k + 1 : i \in 1 .. k \/ i = k + 1
      OBVIOUS
    <3> QED
      BY <3>1, <3>2, <3>3, <3>4 DEF Keeps
  <2> QED
    BY <2>4, <2>7
<1>3. Nat \subseteq K
  <2> HIDE DEF K
  <2> QED
    BY <1>1, <1>2, SetInduction
<1>4. Len(list) \in K
  <2> HIDE DEF K
  <2> QED
    BY <1>3
<1> QED
  BY <1>4

(* What InOrder returns: the named members of S, each once.                *)
LEMMA InOrderFacts ==
  ASSUME NEW A, NEW list \in Seq(A), NEW S
  PROVE  /\ InOrder(S, list) \in Seq(A)
         /\ IsInjective(InOrder(S, list))
         /\ ToSet(InOrder(S, list)) = S \cap ToSet(list)
<1> DEFINE n == Len(list)
           Step(g, i) == IF i = 0 THEN <<>>
                         ELSE IF list[i] \in S \ ToSet(g[i - 1])
                              THEN Append(g[i - 1], list[i]) ELSE g[i - 1]
           kept == CHOOSE g : g = [i \in 0 .. n |-> Step(g, i)]
<1>1. InOrder(S, list) = kept[n]
  BY DEF InOrder
<1>2. PICK g \in [0 .. n -> Seq(A)] : Keeps(n, g, S, list)
  BY KeptExists
<1>3. g = [i \in 0 .. n |-> Step(g, i)]
  <2>1. \A i \in 0 .. n : g[i] = Step(g, i)
    <3> SUFFICES ASSUME NEW i \in 0 .. n PROVE g[i] = Step(g, i)
      OBVIOUS
    <3>1. CASE i = 0
      BY <1>2, <3>1 DEF Keeps
    <3>2. CASE i # 0
      <4>1. i \in 1 .. n
        BY <3>2
      <4>2. g[i] = IF list[i] \in S \ ToSet(g[i - 1])
                   THEN Append(g[i - 1], list[i]) ELSE g[i - 1]
        BY <1>2, <4>1, Zenon DEF Keeps
      <4> QED
        BY <3>2, <4>2, Zenon
    <3> QED
      BY <3>1, <3>2
  <2> HIDE DEF Step
  <2> QED
    BY <1>2, <2>1
<1>4. kept = [i \in 0 .. n |-> Step(kept, i)]
  <2> HIDE DEF Step
  <2> QED
    BY <1>3
<1> HIDE DEF kept
<1>5. kept[0] = <<>>
  BY <1>4
<1>6. \A i \in Nat : i + 1 <= n =>
        kept[i + 1] = IF list[i + 1] \in S \ ToSet(kept[i])
                      THEN Append(kept[i], list[i + 1]) ELSE kept[i]
  <2> SUFFICES ASSUME NEW i \in Nat, i + 1 <= n
               PROVE  kept[i + 1] = IF list[i + 1] \in S \ ToSet(kept[i])
                                    THEN Append(kept[i], list[i + 1])
                                    ELSE kept[i]
    OBVIOUS
  <2>1. i + 1 \in 0 .. n /\ i + 1 # 0 /\ (i + 1) - 1 = i
    OBVIOUS
  <2>2. kept[i + 1] = Step(kept, i + 1)
    <3> HIDE DEF Step
    <3> QED
      BY <1>4, <2>1
  <2> QED
    BY <2>1, <2>2
<1> HIDE DEF Step
<1> DEFINE Named(i) == {list[j] : j \in 1 .. i}
           K == {i \in Nat : i <= n => /\ kept[i] \in Seq(A)
                                      /\ IsInjective(kept[i])
                                      /\ ToSet(kept[i]) = S \cap Named(i)}
<1>7. 0 \in K
  <2>1. <<>> \in Seq(A) /\ IsInjective(<<>>) /\ ToSet(<<>>) = {}
    BY DEF IsInjective, ToSet
  <2>2. Named(0) = {}
    OBVIOUS
  <2> QED
    BY <1>5, <2>1, <2>2
<1>8. ASSUME NEW i \in Nat, i \in K PROVE i + 1 \in K
  <2> SUFFICES ASSUME i + 1 <= n
               PROVE  /\ kept[i + 1] \in Seq(A)
                      /\ IsInjective(kept[i + 1])
                      /\ ToSet(kept[i + 1]) = S \cap Named(i + 1)
    OBVIOUS
  <2>1. kept[i] \in Seq(A) /\ IsInjective(kept[i])
        /\ ToSet(kept[i]) = S \cap Named(i)
    BY <1>8
  <2>2. list[i + 1] \in A
    OBVIOUS
  <2>3. Named(i + 1) = Named(i) \cup {list[i + 1]}
    OBVIOUS
  <2> HIDE DEF K, Named
  <2>4. CASE list[i + 1] \in S \ ToSet(kept[i])
    <3>1. kept[i + 1] = Append(kept[i], list[i + 1])
      BY <1>6, <2>4
    <3>2. /\ Append(kept[i], list[i + 1]) \in Seq(A)
          /\ IsInjective(Append(kept[i], list[i + 1]))
          /\ ToSet(Append(kept[i], list[i + 1]))
               = ToSet(kept[i]) \cup {list[i + 1]}
      BY <2>1, <2>2, <2>4, AppendedOnce
    <3> QED
      BY <2>1, <2>3, <2>4, <3>1, <3>2
  <2>5. CASE list[i + 1] \notin S \ ToSet(kept[i])
    <3>1. kept[i + 1] = kept[i]
      BY <1>6, <2>5
    <3> QED
      BY <2>1, <2>3, <2>5, <3>1
  <2> QED
    BY <2>4, <2>5
<1>9. Nat \subseteq K
  <2> HIDE DEF K
  <2> QED
    BY <1>7, <1>8, SetInduction
<1>10. n \in Nat /\ n \in K
  <2> HIDE DEF K
  <2> QED
    BY <1>9
<1>11. Named(n) = ToSet(list)
  BY DEF ToSet
<1> QED
  BY <1>1, <1>10, <1>11

-----------------------------------------------------------------------------
(* The tabs.                                                               *)

(* The tabs are open from the course's first one to the end of the crawl.  *)
Driving == strategy = "browser" /\ phase \in {"pop", "visiting"}

(* TabsOwned, and what makes it inductive: the pool is a sequence of tabs, *)
(* and only the browser crawl visits with it.                              *)
TabInv ==
  /\ strategy \in {"browser", "http"}
  /\ phase \in {"start", "pop", "visiting", "done", "error"}
  /\ phase = "visiting" => strategy = "browser"
  /\ tabs \in Seq(TabIds)
  /\ TabsOwned

(* A new tab is one nobody has.                                            *)
LEMMA NewTabIsNew ==
  ASSUME Unused # {}
  PROVE  NewTab \in TabIds /\ NewTab \notin open /\ NewTab \notin ToSet(tabs)
BY DEF NewTab, Unused

-----------------------------------------------------------------------------

(* Before the crawl there are no tabs.                                     *)
LEMMA TabInvInit == Init => TabInv
BY DEF Init, TabInv, TabsOwned

(* Every step of a crawl leaves the tabs with their workers.               *)
LEMMA TabInvNext == TabInv /\ [Next]_vars => TabInv'
<1> SUFFICES ASSUME TabInv, [Next]_vars PROVE TabInv'
  OBVIOUS
<1>0. CASE UNCHANGED vars
  BY <1>0 DEF TabInv, TabsOwned, vars, walk, visits, pool
<1>1. ASSUME OpenCourseTab PROVE TabInv'
  <2>1. tabs' = <<NewTab>> /\ open' = {NewTab} /\ phase' = "pop"
        /\ strategy' = "browser" /\ Unused # {}
    BY <1>1 DEF OpenCourseTab
  <2>2. NewTab \in TabIds
    BY <2>1, NewTabIsNew
  <2>3. <<NewTab>> \in Seq(TabIds) /\ DOMAIN <<NewTab>> = {1}
    BY <2>2
  <2>4. IsInjective(<<NewTab>>) /\ ToSet(<<NewTab>>) = {NewTab}
    BY <2>3 DEF IsInjective, ToSet
  <2> QED
    BY <2>1, <2>3, <2>4 DEF TabInv, TabsOwned
<1>2. ASSUME NoCourseTab PROVE TabInv'
  BY <1>2 DEF NoCourseTab, TabInv, TabsOwned, pool
<1>3. ASSUME Pop PROVE TabInv'
  BY <1>3 DEF Pop, TabInv, TabsOwned, pool
<1>4. ASSUME OpenTab PROVE TabInv'
  <2>1. Driving /\ Unused # {} /\ tabs' = Append(tabs, NewTab)
        /\ open' = open \cup {NewTab} /\ UNCHANGED <<strategy, phase>>
    BY <1>4 DEF OpenTab, LevelPopped, Driving
  <2>2. tabs \in Seq(TabIds) /\ open = ToSet(tabs) /\ IsInjective(tabs)
    BY <2>1 DEF TabInv, TabsOwned, Driving
  <2>3. NewTab \in TabIds /\ NewTab \notin ToSet(tabs)
    BY <2>1, NewTabIsNew
  <2>4. tabs' \in Seq(TabIds) /\ IsInjective(tabs') /\ open' = ToSet(tabs')
    BY <2>1, <2>2, <2>3, AppendedOnce
  <2> QED
    BY <2>1, <2>4 DEF TabInv, TabsOwned, Driving
<1>5. ASSUME StartLevel PROVE TabInv'
  BY <1>5 DEF StartLevel, LevelPopped, TabInv, TabsOwned, pool
<1>6. ASSUME Merge PROVE TabInv'
  <2>1. phase = "visiting" /\ phase' \in {"pop", "visiting"}
        /\ UNCHANGED <<strategy, tabs, open>>
    BY <1>6 DEF Merge, LevelEnds, pool
  <2> QED
    BY <2>1 DEF TabInv, TabsOwned
<1>7. ASSUME Finish PROVE TabInv'
  <2>1. Driving /\ phase' \in {"done", "error"} /\ open' = open \ ToSet(tabs)
        /\ UNCHANGED <<strategy, tabs>>
    BY <1>7 DEF Finish, Driving
  <2>2. open = ToSet(tabs)
    BY <2>1 DEF TabInv, TabsOwned, Driving
  <2> QED
    BY <2>1, <2>2 DEF TabInv, TabsOwned
<1>8. ASSUME NEW w \in EveryWorker, VisitAction(w) PROVE TabInv'
  <2>1. phase = "visiting" /\ w \in DOMAIN tabs /\ UNCHANGED <<strategy, phase>>
    BY <1>8 DEF VisitAction, Navigates, NavigationFails, Reads, ReadsNothing,
                ReadsEarly, Expands, ExpansionFails, TabCrashes,
                RecoversTab, CannotRecover, CrashesAgain, At, Dead, Visiting,
                VisitStep
  <2>2. UNCHANGED <<tabs, open>> \/ (Unused # {} /\ ReplaceTab(w))
    BY <1>8 DEF VisitAction, Navigates, NavigationFails, Reads, ReadsNothing,
                ReadsEarly, Expands, ExpansionFails, TabCrashes,
                RecoversTab, CannotRecover, CrashesAgain, pool
  <2>3. CASE UNCHANGED <<tabs, open>>
    BY <2>1, <2>3 DEF TabInv, TabsOwned
  <2>4. CASE Unused # {} /\ ReplaceTab(w)
    <3>0. strategy = "browser"
      BY <2>1 DEF TabInv
    <3>1. tabs \in Seq(TabIds) /\ open = ToSet(tabs) /\ IsInjective(tabs)
      BY <2>1, <3>0 DEF TabInv, TabsOwned
    <3>2. NewTab \in TabIds /\ NewTab \notin ToSet(tabs)
      BY <2>4, NewTabIsNew
    <3>3. tabs' = [tabs EXCEPT ![w] = NewTab]
          /\ open' = (open \ {tabs[w]}) \cup {NewTab}
      BY <2>4 DEF ReplaceTab
    <3>4. tabs' \in Seq(TabIds) /\ IsInjective(tabs') /\ open' = ToSet(tabs')
      <4>1. PICK s, t, r : s = tabs /\ t = NewTab /\ r = tabs'
        OBVIOUS
      <4>2. s \in Seq(TabIds) /\ w \in DOMAIN s /\ t \in TabIds
            /\ t \notin ToSet(s) /\ IsInjective(s) /\ r = [s EXCEPT ![w] = t]
        BY <2>1, <3>1, <3>2, <3>3, <4>1
      <4>3. r \in Seq(TabIds) /\ DOMAIN r = DOMAIN s
        BY <4>2
      <4>4. r[w] = t /\ \A i \in DOMAIN s : i # w => r[i] = s[i]
        BY <4>2
      <4>5. \A i \in DOMAIN s : s[i] # t
        BY <4>2 DEF ToSet
      <4>6. IsInjective(r)
        BY <4>2, <4>3, <4>4, <4>5 DEF IsInjective
      <4>7. ToSet(r) = (ToSet(s) \ {s[w]}) \cup {t}
        BY <4>2, <4>3, <4>4 DEF ToSet, IsInjective
      <4> QED
        BY <3>1, <3>3, <4>1, <4>3, <4>6, <4>7
    <3> QED
      BY <2>1, <3>0, <3>4 DEF TabInv, TabsOwned
  <2> QED
    BY <2>2, <2>3, <2>4
<1>9. ASSUME NEW root \in Answers, NEW group \in Answers, NEW rest \in Answers,
             FetchRoot(root, group, rest)
      PROVE  TabInv'
  <2>1. strategy = "http" /\ phase' \in {"error", "pop"}
        /\ UNCHANGED <<strategy, tabs, open>>
    BY <1>9 DEF FetchRoot, pool
  <2> QED
    BY <2>1 DEF TabInv, TabsOwned
<1>10. ASSUME NEW body \in Answers, NEW rest \in Answers, NEW prose \in Answers,
              FetchSection(body, rest, prose)
       PROVE  TabInv'
  <2>1. strategy = "http" /\ UNCHANGED <<strategy, phase, tabs, open>>
    BY <1>10 DEF FetchSection, pool
  <2> QED
    BY <2>1 DEF TabInv, TabsOwned
<1>11. ASSUME HttpFinish PROVE TabInv'
  BY <1>11 DEF HttpFinish, TabInv, TabsOwned, pool
<1>12. ASSUME Stay PROVE TabInv'
  BY <1>12, <1>0 DEF Stay
<1>13. \/ OpenCourseTab \/ NoCourseTab
       \/ Pop \/ OpenTab \/ StartLevel \/ Merge \/ Finish
       \/ \E w \in EveryWorker : VisitAction(w)
       \/ \E root, group, rest \in Answers : FetchRoot(root, group, rest)
       \/ \E body, rest, prose \in Answers : FetchSection(body, rest, prose)
       \/ HttpFinish \/ Stay \/ UNCHANGED vars
  BY Zenon DEF Next
<1> QED
  BY <1>0, <1>1, <1>2, <1>3, <1>4, <1>5, <1>6, <1>7, <1>8, <1>9, <1>10, <1>11,
     <1>12, <1>13

(* However tabs crash and are replaced, for any number of workers: each    *)
(* worker of the pool drives an open tab that is no other's, no replaced   *)
(* tab stays open, and none is left at the end of the course.              *)
THEOREM TabsAreOwned == Spec => []TabsOwned
<1>1. TabInv => TabsOwned
  BY DEF TabInv
<1> QED
  BY <1>1, TabInvInit, TabInvNext, PTL DEF Spec

(* Two lists that share nothing, one after the other.                      *)
LEMMA Concatenated ==
  ASSUME NEW A, NEW s \in Seq(A), NEW t \in Seq(A)
  PROVE  /\ s \o t \in Seq(A)
         /\ ToSet(s \o t) = ToSet(s) \cup ToSet(t)
         /\ IsInjective(s) /\ IsInjective(t) /\ ToSet(s) \cap ToSet(t) = {}
              => IsInjective(s \o t)
<1> DEFINE r == s \o t
           m == Len(s)
           n == Len(t)
<1>1. /\ r \in Seq(A) /\ DOMAIN r = 1 .. m + n
      /\ DOMAIN s = 1 .. m /\ DOMAIN t = 1 .. n /\ m \in Nat /\ n \in Nat
  OBVIOUS
<1>2. /\ \A i \in 1 .. m : r[i] = s[i]
      /\ \A i \in 1 .. n : r[m + i] = t[i]
  OBVIOUS
<1>3. \A i \in 1 .. m + n : i \in 1 .. m \/ \E j \in 1 .. n : i = m + j
  <2> SUFFICES ASSUME NEW i \in 1 .. m + n, i \notin 1 .. m
               PROVE  \E j \in 1 .. n : i = m + j
    OBVIOUS
  <2>1. i - m \in 1 .. n /\ i = m + (i - m)
    BY <1>1
  <2> QED BY <2>1
<1>4. \A i \in 1 .. m : i \in 1 .. m + n
  BY <1>1
<1>5. \A i \in 1 .. n : m + i \in 1 .. m + n
  BY <1>1
<1> HIDE DEF r, m, n
<1>6. ToSet(r) = ToSet(s) \cup ToSet(t)
  <2>1. ToSet(s) = {s[i] : i \in 1 .. m} /\ ToSet(t) = {t[i] : i \in 1 .. n}
        /\ ToSet(r) = {r[i] : i \in 1 .. m + n}
    BY <1>1 DEF ToSet
  <2>2. ASSUME NEW x \in ToSet(r) PROVE x \in ToSet(s) \cup ToSet(t)
    <3>1. PICK i \in 1 .. m + n : x = r[i]
      BY <2>1
    <3>2. CASE i \in 1 .. m
      BY <1>2, <2>1, <3>1, <3>2
    <3>3. CASE \E j \in 1 .. n : i = m + j
      BY <1>2, <2>1, <3>1, <3>3
    <3> QED
      BY <1>3, <3>2, <3>3
  <2>3. \A x \in ToSet(s) : x \in ToSet(r)
    BY <1>2, <1>4, <2>1
  <2>4. ASSUME NEW x \in ToSet(t) PROVE x \in ToSet(r)
    <3>1. PICK i \in 1 .. n : x = t[i]
      BY <2>1
    <3>2. m + i \in 1 .. m + n /\ x = r[m + i]
      BY <1>2, <1>5, <3>1
    <3> QED
      BY <2>1, <3>2
  <2> QED
    BY <2>2, <2>3, <2>4
<1>7. ASSUME IsInjective(s), IsInjective(t), ToSet(s) \cap ToSet(t) = {}
      PROVE  IsInjective(r)
  <2> SUFFICES ASSUME NEW i \in 1 .. m + n, NEW j \in 1 .. m + n, r[i] = r[j]
               PROVE  i = j
    BY <1>1 DEF IsInjective
  <2>1. \A k \in 1 .. m : r[k] \in ToSet(s)
    BY <1>1, <1>2 DEF ToSet
  <2>2. \A k \in 1 .. n : r[m + k] \in ToSet(t)
    BY <1>1, <1>2 DEF ToSet
  <2>3. CASE i \in 1 .. m /\ j \in 1 .. m
    BY <1>1, <1>2, <1>7, <2>3 DEF IsInjective
  <2>4. CASE i \in 1 .. m /\ j \notin 1 .. m
    BY <1>3, <1>7, <2>1, <2>2, <2>4
  <2>5. CASE i \notin 1 .. m /\ j \in 1 .. m
    BY <1>3, <1>7, <2>1, <2>2, <2>5
  <2>6. CASE i \notin 1 .. m /\ j \notin 1 .. m
    <3>1. PICK k \in 1 .. n : i = m + k
      BY <1>3, <2>6
    <3>2. PICK l \in 1 .. n : j = m + l
      BY <1>3, <2>6
    <3>3. t[k] = t[l]
      BY <1>2, <3>1, <3>2
    <3>4. k = l
      BY <1>1, <1>7, <3>3 DEF IsInjective
    <3> QED
      BY <3>1, <3>2, <3>4
  <2> QED
    BY <2>3, <2>4, <2>5, <2>6
<1> QED
  BY <1>1, <1>6, <1>7 DEF r

(* Taking the first entry off a list.                                      *)
LEMMA Popped ==
  ASSUME NEW A, NEW s \in Seq(A), s # <<>>
  PROVE  /\ Head(s) \in A /\ Tail(s) \in Seq(A)
         /\ ToSet(s) = {Head(s)} \cup ToSet(Tail(s))
         /\ IsInjective(s) =>
              IsInjective(Tail(s)) /\ Head(s) \notin ToSet(Tail(s))
<1> DEFINE n == Len(s)
           t == Tail(s)
<1>1. n \in Nat \ {0} /\ DOMAIN s = 1 .. n /\ Head(s) = s[1]
  OBVIOUS
<1>2. t \in Seq(A) /\ DOMAIN t = 1 .. n - 1
  OBVIOUS
<1>3. \A i \in 1 .. n - 1 : t[i] = s[i + 1] /\ i + 1 \in 1 .. n
  OBVIOUS
<1>4. \A i \in 1 .. n : i = 1 \/ (i - 1 \in 1 .. n - 1 /\ i = (i - 1) + 1)
  BY <1>1
<1>5. 1 \in 1 .. n /\ s[1] \in A /\ \A i \in 1 .. n - 1 : i + 1 # 1
  BY <1>1
<1>6. \A i, j \in 1 .. n - 1 : i + 1 = j + 1 => i = j
  BY <1>1
<1> HIDE DEF n, t
<1>7. ToSet(s) = {Head(s)} \cup ToSet(t)
  <2>1. ToSet(s) = {s[i] : i \in 1 .. n} /\ ToSet(t) = {t[i] : i \in 1 .. n - 1}
    BY <1>1, <1>2 DEF ToSet
  <2>2. ASSUME NEW x \in ToSet(s) PROVE x \in {Head(s)} \cup ToSet(t)
    <3>1. PICK i \in 1 .. n : x = s[i]
      BY <2>1
    <3>2. CASE i = 1
      BY <1>1, <3>1, <3>2
    <3>3. CASE i - 1 \in 1 .. n - 1 /\ i = (i - 1) + 1
      <4>1. x = t[i - 1]
        BY <1>3, <3>1, <3>3
      <4> QED
        BY <2>1, <3>3, <4>1
    <3> QED
      BY <1>4, <3>2, <3>3
  <2>3. Head(s) \in ToSet(s)
    BY <1>1, <1>5, <2>1
  <2>4. \A x \in ToSet(t) : x \in ToSet(s)
    BY <1>3, <2>1
  <2> QED
    BY <2>2, <2>3, <2>4
<1>8. ASSUME IsInjective(s) PROVE IsInjective(t) /\ Head(s) \notin ToSet(t)
  <2>1. IsInjective(t)
    BY <1>1, <1>2, <1>3, <1>6, <1>8 DEF IsInjective
  <2>2. Head(s) \notin ToSet(t)
    BY <1>1, <1>2, <1>3, <1>5, <1>8 DEF IsInjective, ToSet
  <2> QED
    BY <2>1, <2>2
<1> QED
  BY <1>1, <1>2, <1>5, <1>7, <1>8 DEF t

(* What is left of a list once its first entries are merged.               *)
LEMMA RestOfList ==
  ASSUME NEW A, NEW s \in Seq(A), NEW m \in Nat, m < Len(s)
  PROVE  /\ SubSeq(s, m + 1, Len(s)) \in Seq(A)
         /\ SubSeq(s, m + 1, Len(s)) # <<>>
         /\ Head(SubSeq(s, m + 1, Len(s))) = s[m + 1]
         /\ Tail(SubSeq(s, m + 1, Len(s))) = SubSeq(s, m + 2, Len(s))
         /\ IsInjective(s) => IsInjective(SubSeq(s, m + 1, Len(s)))
         /\ ToSet(SubSeq(s, m + 1, Len(s))) \subseteq ToSet(s)
<1> DEFINE n == Len(s)
           u == SubSeq(s, m + 1, n)
<1>1. m + 1 \in 1 .. n /\ n \in m + 1 .. n /\ n \in Nat /\ DOMAIN s = 1 .. n
  OBVIOUS
<1>2. Head(u) = s[m + 1] /\ Tail(u) = SubSeq(s, (m + 1) + 1, n)
  BY <1>1, HeadTailOfSubSeq
<1>3. (m + 1) + 1 = m + 2
  OBVIOUS
<1>4. \A i \in m + 1 .. n : s[i] \in A
  OBVIOUS
<1>5. /\ u \in Seq(A) /\ Len(u) = n - (m + 1) + 1
      /\ \A i \in 1 .. n - (m + 1) + 1 : u[i] = s[(m + 1) + i - 1]
  BY <1>1, <1>4, SubSeqProperties
<1>6. DOMAIN u = 1 .. n - m /\ u # <<>>
  <2>1. DOMAIN u = 1 .. Len(u)
    BY <1>5, LenProperties
  <2>2. m < n /\ n \in Nat
    OBVIOUS
  <2> HIDE DEF u, n
  <2>3. n - (m + 1) + 1 = n - m /\ n - m # 0
    BY <2>2
  <2> QED
    BY <1>5, <2>1, <2>3, EmptySeq
<1>7. \A i \in 1 .. n - m : u[i] = s[m + i] /\ m + i \in 1 .. n
  BY <1>1, <1>5
<1> HIDE DEF u, n
<1>8. ToSet(u) \subseteq ToSet(s)
  BY <1>1, <1>6, <1>7 DEF ToSet
<1>9. ASSUME IsInjective(s) PROVE IsInjective(u)
  <2> SUFFICES ASSUME NEW i \in 1 .. n - m, NEW j \in 1 .. n - m, u[i] = u[j]
               PROVE  i = j
    BY <1>6 DEF IsInjective
  <2>1. m + i = m + j
    BY <1>1, <1>7, <1>9 DEF IsInjective
  <2> QED
    BY <1>1, <2>1
<1> QED
  BY <1>2, <1>3, <1>5, <1>6, <1>8, <1>9 DEF u, n

-----------------------------------------------------------------------------
(* Pages.                                                                  *)

(* Joined pages are a page.                                                *)
LEMMA Joined ==
  ASSUME NEW p \in Pages, NEW q \in Pages, NEW more \in Seq(Files)
  PROVE  /\ Blank \in Pages
         /\ Join(p, q) \in Pages
         /\ [Join(p, q) EXCEPT !.files = @ \o more] \in Pages
<1>1. Blank \in Pages
  BY DEF Blank, Pages
<1>2. p.files \o q.files \in Seq(Files) /\ p.links \o q.links \in Seq(Sections)
  BY ConcatProperties DEF Pages
<1>3. (p.files \o q.files) \o more \in Seq(Files)
  BY <1>2, ConcatProperties
<1> QED
  BY <1>1, <1>2, <1>3 DEF Join, Pages

(* Joining nothing leaves a page as it is.                                 *)
LEMMA JoinedNothing ==
  ASSUME NEW p \in Pages
  PROVE  /\ Join(p, Blank) = p
         /\ [p EXCEPT !.files = @ \o <<>>] = p
<1>1. p = [files |-> p.files, links |-> p.links]
      /\ p.files \in Seq(Files) /\ p.links \in Seq(Sections)
  BY DEF Pages
<1>2. p.files \o <<>> = p.files /\ p.links \o <<>> = p.links
  BY <1>1, ConcatEmptySeq
<1>3. Join(p, Blank) = [files |-> p.files \o <<>>, links |-> p.links \o <<>>]
  BY DEF Join, Blank
<1>4. [p EXCEPT !.files = @ \o <<>>]
        = [files |-> p.files \o <<>>, links |-> p.links]
  BY <1>1
<1> QED
  BY <1>1, <1>2, <1>3, <1>4

(* The pages a place has are pages, and what a visit leaves with is one of *)
(* its readings.                                                           *)
LEMMA PlacePages ==
  ASSUME NEW s \in Places
  PROVE  First[s] \in Pages /\ More[s] \in Pages /\ Prose[s] \in Seq(Files)
BY PagesAssumption

(* The places that are read: the sections, and the course's own page.      *)
LEMMA SectionIsPlace == Sections \subseteq Places /\ Group \in Places
BY DEF Places

(* What a visit leaves with is one of the place's readings.                *)
LEMMA ShownIsPage ==
  ASSUME NEW p \in Pages, NEW s \in Places, p = First[s],
         NEW rest \in Pages, NEW prose \in Seq(Files)
  PROVE  Shown(s, rest, prose) \in Pages
BY Joined DEF Shown

(* What is rendered of a page has a number of its files and of its links.  *)
LEMMA RenderedAre ==
  ASSUME NEW p, NEW x
  PROVE  x \in Rendered(p) <=>
           \E i \in 0 .. Len(p.files), j \in 0 .. Len(p.links) :
             x = [files |-> SubSeq(p.files, 1, i), links |-> SubSeq(p.links, 1, j)]
BY DEF Rendered

(* What is rendered of a page on the way is a page, and so is the end of   *)
(* it; of a list that is expanded it may be what the first page shows.     *)
LEMMA RenderedIsPage ==
  ASSUME NEW p \in Pages
  PROVE  Rendered(p) \subseteq Pages /\ p \in Rendered(p)
<1>1. p = [files |-> p.files, links |-> p.links]
      /\ p.files \in Seq(Files) /\ p.links \in Seq(Sections)
  BY DEF Pages
<1>2. \A i \in 0 .. Len(p.files) : SubSeq(p.files, 1, i) \in Seq(Files)
  BY <1>1, SubSeqProperties
<1>3. \A j \in 0 .. Len(p.links) : SubSeq(p.links, 1, j) \in Seq(Sections)
  BY <1>1, SubSeqProperties
<1>4. Rendered(p) \subseteq Pages
  BY <1>2, <1>3, RenderedAre DEF Pages
<1>5. Len(p.files) \in 0 .. Len(p.files) /\ Len(p.links) \in 0 .. Len(p.links)
  BY <1>1
<1>6. SubSeq(p.files, 1, Len(p.files)) = p.files
      /\ SubSeq(p.links, 1, Len(p.links)) = p.links
  BY <1>1
<1>7. [files |-> SubSeq(p.files, 1, Len(p.files)),
       links |-> SubSeq(p.links, 1, Len(p.links))] \in Rendered(p)
  BY <1>5, RenderedAre
<1> QED
  BY <1>1, <1>4, <1>6, <1>7

LEMMA SameBeginning ==
  ASSUME NEW S, NEW f \in Seq(S), NEW g \in Seq(S), NEW i \in 0 .. Len(f)
  PROVE  SubSeq(f \o g, 1, i) = SubSeq(f, 1, i) /\ i \in 0 .. Len(f \o g)
<1> DEFINE u == SubSeq(f \o g, 1, i)
           v == SubSeq(f, 1, i)
<1>1. f \o g \in Seq(S) /\ Len(f \o g) = Len(f) + Len(g)
      /\ \A k \in 1 .. Len(f) : (f \o g)[k] = f[k]
  OBVIOUS
<1>2. i \in 0 .. Len(f \o g)
  BY <1>1
<1>3. u \in Seq(S) /\ Len(u) = i /\ \A k \in 1 .. i : u[k] = (f \o g)[k]
  BY <1>1, <1>2
<1>4. v \in Seq(S) /\ Len(v) = i /\ \A k \in 1 .. i : v[k] = f[k]
  OBVIOUS
<1> HIDE DEF u, v
<1>5. u = v
  BY <1>1, <1>3, <1>4
<1> QED
  BY <1>2, <1>5 DEF u, v

LEMMA RenderedFirst ==
  ASSUME NEW s \in Places
  PROVE  Rendered(First[s]) \subseteq Rendered(Whole(s))
<1>1. First[s] \in Pages /\ More[s] \in Pages
  BY PlacePages
<1> SUFFICES ASSUME NEW x \in Rendered(First[s]) PROVE x \in Rendered(Whole(s))
  OBVIOUS
<1>0. PICK i \in 0 .. Len(First[s].files), j \in 0 .. Len(First[s].links) :
        x = [files |-> SubSeq(First[s].files, 1, i),
             links |-> SubSeq(First[s].links, 1, j)]
  BY RenderedAre
<1>2. /\ First[s].files \in Seq(Files) /\ More[s].files \in Seq(Files)
      /\ First[s].links \in Seq(Sections) /\ More[s].links \in Seq(Sections)
  BY <1>1 DEF Pages
<1>3. /\ SubSeq(Whole(s).files, 1, i) = SubSeq(First[s].files, 1, i)
      /\ i \in 0 .. Len(Whole(s).files)
  BY <1>2, SameBeginning DEF Whole, Join
<1>4. /\ SubSeq(Whole(s).links, 1, j) = SubSeq(First[s].links, 1, j)
      /\ j \in 0 .. Len(Whole(s).links)
  BY <1>2, SameBeginning DEF Whole, Join
<1> QED
  BY <1>0, <1>3, <1>4, RenderedAre

(* A place read in vain, in part or to the end was read.                   *)
LEMMA ReadingFacts ==
  ASSUME NEW s \in Places
  PROVE  /\ Readings(s) \subseteq Pages
         /\ Blank \in Readings(s)
         /\ First[s] \in Readings(s)
         /\ Rendered(First[s]) \subseteq Readings(s)
         /\ Rendered(Whole(s)) \subseteq Readings(s)
<1>1. First[s] \in Pages /\ More[s] \in Pages /\ Prose[s] \in Seq(Files)
      /\ Blank \in Pages /\ <<>> \in Seq(Files)
  BY PlacePages DEF Blank, Pages
<1>2. \A rest \in {Blank, More[s]}, prose \in {<<>>, Prose[s]} :
        Shown(s, rest, prose) \in Pages
  BY <1>1, ShownIsPage
<1>3. Whole(s) \in Pages
  BY <1>1, Joined DEF Whole
<1>4. Readings(s) \subseteq Pages /\ Blank \in Readings(s)
  BY <1>1, <1>2, <1>3, RenderedIsPage DEF Readings
<1>5. Rendered(Whole(s)) \subseteq Readings(s)
  BY DEF Readings
<1>6. Rendered(First[s]) \subseteq Readings(s) /\ First[s] \in Readings(s)
  BY <1>1, <1>5, RenderedFirst, RenderedIsPage
<1> QED
  BY <1>4, <1>5, <1>6

(* What the HTTP crawl makes of the answers is one of the readings too.    *)
LEMMA PageOfIsReading ==
  ASSUME NEW s \in Places, NEW body, NEW rest, NEW prose
  PROVE  PageOf(s, body, rest, prose) \in Readings(s)
BY DEF PageOf, Readings

(* Files that are added to a listing are filed under the place they come   *)
(* from.                                                                   *)
Listing == Seq([file : Files, section : Places])

(* A page's files leave a listing a listing.                               *)
LEMMA FilesAppended ==
  ASSUME NEW f \in Listing, NEW s \in Places, NEW files \in Seq(Files)
  PROVE  AppendFiles(f, s, files) \in Listing
<1> DEFINE new == InOrder(ToSet(files) \ Listed(f), files)
<1>1. new \in Seq(Files)
  BY InOrderFacts
<1> HIDE DEF new
<1>2. FiledUnder(s, new) \in Listing
  <2> DEFINE R == [file : Files, section : Places]
             g == [i \in DOMAIN new |-> [file |-> new[i], section |-> s]]
  <2>1. DOMAIN new = 1 .. Len(new) /\ Len(new) \in Nat
    BY <1>1, LenProperties
  <2>2. \A i \in DOMAIN new : [file |-> new[i], section |-> s] \in R
    BY <1>1, <2>1
  <2> HIDE DEF R
  <2>3. g \in Seq(R)
    BY <2>1, <2>2
  <2> QED
    BY <2>3 DEF FiledUnder, Listing, R
<1> QED
  BY <1>2, ConcatProperties DEF AppendFiles, Listing, new

-----------------------------------------------------------------------------
(* The queue.                                                              *)

(* Nothing is queued twice, and nothing that was visited.                  *)
QueueSound(q, known, seen) ==
  IsInjective(q) /\ ToSet(q) \subseteq known /\ known \cap seen = {}

(* The links of a page add only sections that are new to the crawl.        *)
LEMMA QueueGrows ==
  ASSUME NEW q \in Seq(Sections), NEW known, NEW seen,
         QueueSound(q, known, seen), NEW s, NEW links \in Seq(Sections)
  PROVE  LET targets == NewTargets(seen \cup known, s, links)
             more == q \o Crawlable(targets, links)
         IN  /\ targets \subseteq Sections
             /\ more \in Seq(Sections)
             /\ QueueSound(more, known \cup targets, seen)
<1> DEFINE targets == NewTargets(seen \cup known, s, links)
           new == Crawlable(targets, links)
<1>1. targets \subseteq ToSet(links) /\ targets \cap (seen \cup known) = {}
  BY DEF NewTargets
<1>2. ToSet(links) \subseteq Sections
  <2>1. \A i \in DOMAIN links : links[i] \in Sections
    OBVIOUS
  <2> QED
    BY <2>1 DEF ToSet
<1> HIDE DEF targets
<1>3. new \in Seq(Sections) /\ IsInjective(new) /\ ToSet(new) \subseteq targets
  BY InOrderFacts DEF Crawlable
<1> HIDE DEF new
<1>4. /\ q \o new \in Seq(Sections)
      /\ ToSet(q \o new) = ToSet(q) \cup ToSet(new)
      /\ IsInjective(q \o new)
  <2>1. ToSet(q) \cap ToSet(new) = {} /\ IsInjective(q)
    BY <1>1, <1>3 DEF QueueSound
  <2> QED
    BY <1>3, <2>1, Concatenated
<1>5. QueueSound(q \o new, known \cup targets, seen)
  BY <1>1, <1>3, <1>4 DEF QueueSound
<1>6. targets \subseteq Sections /\ q \o new \in Seq(Sections)
  BY <1>1, <1>2, <1>4
<1> QED
  BY <1>5, <1>6 DEF targets, new

(* A queue of one section is sound.                                        *)
LEMMA OneQueued ==
  ASSUME NEW s \in Sections
  PROVE  <<s>> \in Seq(Sections) /\ QueueSound(<<s>>, {s}, {})
<1>1. <<s>> \in Seq(Sections) /\ DOMAIN <<s>> = {1}
  OBVIOUS
<1> QED
  BY <1>1 DEF QueueSound, IsInjective, ToSet

(* So is the queue the course's tree gives.                                *)
LEMMA TreeIsQueued ==
  /\ TreeQueue \in Seq(Sections) /\ TreeQueued \subseteq Sections
  /\ QueueSound(TreeQueue, TreeQueued, {})
<1> DEFINE new == Crawlable(TreeTargets, Seed)
           one == <<Root>>
<1>1. Seed \in Seq(Sections) /\ Root \in Sections
  BY PagesAssumption, SectionsAssumption
<1>2. ToSet(Seed) \subseteq Sections
  <2>1. \A i \in DOMAIN Seed : Seed[i] \in Sections
    BY <1>1
  <2> QED
    BY <2>1 DEF ToSet
<1>3. TreeTargets \subseteq Sections /\ Root \notin TreeTargets
  BY <1>2 DEF TreeTargets, NewTargets
<1>4. new \in Seq(Sections) /\ IsInjective(new)
      /\ ToSet(new) \subseteq TreeTargets
  BY <1>1, InOrderFacts DEF Crawlable
<1>5. one \in Seq(Sections) /\ IsInjective(one) /\ ToSet(one) = {Root}
  <2>1. <<Root>> \in Seq(Sections) /\ DOMAIN <<Root>> = {1}
    BY <1>1
  <2> QED
    BY <2>1 DEF IsInjective, ToSet
<1> HIDE DEF new, one
<1>6. /\ one \o new \in Seq(Sections)
      /\ ToSet(one \o new) = {Root} \cup ToSet(new)
      /\ IsInjective(one \o new)
  <2>1. ToSet(one) \cap ToSet(new) = {}
    BY <1>3, <1>4, <1>5
  <2> QED
    BY <1>4, <1>5, <2>1, Concatenated
<1> QED
  BY <1>1, <1>3, <1>4, <1>6 DEF TreeQueue, TreeQueued, QueueSound, new, one

(* Taking the next section off the queue.                                  *)
LEMMA QueuePops ==
  ASSUME NEW q \in Seq(Sections), q # <<>>, NEW known, NEW seen,
         QueueSound(q, known, seen)
  PROVE  /\ Head(q) \in Sections /\ Head(q) \in known /\ Head(q) \notin seen
         /\ Tail(q) \in Seq(Sections)
         /\ QueueSound(Tail(q), known \ {Head(q)}, seen \cup {Head(q)})
BY Popped DEF QueueSound

-----------------------------------------------------------------------------
(* The types, and what a crawl's variables have to do with each other.     *)

(* A level is of sections that were taken off the queue, each once.        *)
LevelTaken == IsInjective(level) /\ ToSet(level) \subseteq visited

(* Only a browser's crawl has a level, and it merges only while visiting.  *)
InPhase ==
  /\ phase = "start" => visited = {} /\ found = <<>>
  /\ strategy = "http" \/ phase \in {"start", "done", "error"} => level = <<>>
  /\ phase # "visiting" => merged = 0
  /\ phase = "visiting" => strategy = "browser" /\ merged < Len(level)

(* No level goes over the cap.                                             *)
CapKept == strategy = "browser" => Cardinality(visited) <= MaxPages

(* What was read of a section is one of its readings.                      *)
PagesRead ==
  phase = "visiting" =>
    \A i \in DOMAIN level : results[i] \in Readings(level[i])

(* All of it: the invariant every step keeps.                              *)
IInv ==
  /\ TypeOK
  /\ QueueSound(queue, queued, visited)
  /\ LevelTaken /\ InPhase /\ CapKept /\ PagesRead

(* It holds before the crawl begins.                                       *)
LEMMA InitInv == Init => IInv
<1> SUFFICES ASSUME Init PROVE IInv
  OBVIOUS
<1>1. queue = <<>> /\ level = <<>> /\ found = <<>> /\ results = <<>>
      /\ tabs = <<>> /\ queued = {} /\ visited = {} /\ open = {} /\ crashed = {}
      /\ merged = 0 /\ phase = "start" /\ strategy \in {"browser", "http"}
      /\ faults = 0
  BY DEF Init
<1>2. IsInjective(<<>>) /\ ToSet(<<>>) = {}
  BY DEF IsInjective, ToSet
<1>3. Cardinality(visited) <= MaxPages
  BY <1>1, FS_EmptySet, BoundsAssumption
<1>4. turn \in [EveryWorker -> Nat] /\ stage \in [EveryWorker -> Stages]
      /\ fate \in [Places -> Fates]
  BY BoundsAssumption DEF Init, EveryWorker, Stages, Fates
<1>5. TypeOK
  BY <1>1, <1>4, BoundsAssumption DEF TypeOK
<1> QED
  BY <1>1, <1>2, <1>3, <1>5
     DEF IInv, QueueSound, LevelTaken, InPhase, CapKept, PagesRead

(* Faults stay within their bound.                                         *)
LEMMA FaultCounted ==
  ASSUME faults \in 0 .. MaxFaults, Fault \/ UNCHANGED faults
  PROVE  faults' \in 0 .. MaxFaults
BY BoundsAssumption DEF Fault

(* What a visit leaves: pages that were read on the sections they are for. *)
VisitsSound ==
  /\ results \in Seq(Pages) /\ Len(results) = Len(level)
  /\ \A i \in DOMAIN level : results[i] \in Readings(level[i])
  /\ turn \in [EveryWorker -> Nat]
  /\ stage \in [EveryWorker -> Stages]
  /\ fate \in [Places -> Fates]

(* Leaving a section with a page of it.                                    *)
LEMMA VisitEnds ==
  ASSUME level \in Seq(Sections), VisitsSound, tabs \in Seq(TabIds),
         NEW w \in EveryWorker, Visiting(w),
         NEW page \in Readings(Section(w)), NEW outcome \in Fates,
         EndVisit(w, page, outcome), UNCHANGED level
  PROVE  VisitsSound'
<1>1. /\ results' = [results EXCEPT ![turn[w]] = page]
      /\ fate' = [fate EXCEPT ![Section(w)] = outcome]
      /\ turn' = [turn EXCEPT ![w] = @ + Len(tabs)]
      /\ stage' = [stage EXCEPT ![w] = "goto"]
  BY DEF EndVisit
<1>2. turn[w] \in DOMAIN level /\ Section(w) = level[turn[w]]
      /\ Section(w) \in Sections
  BY DEF Visiting, Section
<1>3. PICK r, s, i, p : r = results /\ s = results' /\ i = turn[w] /\ p = page
  OBVIOUS
<1>4. r \in Seq(Pages) /\ i \in 1 .. Len(r) /\ Len(r) = Len(level)
      /\ DOMAIN level = 1 .. Len(level)
  BY <1>2, <1>3 DEF VisitsSound
<1>5. p \in Pages /\ p \in Readings(level[i])
  <2>1. Section(w) \in Places
    BY <1>2, SectionIsPlace
  <2> QED
    BY <1>2, <1>3, <2>1, ReadingFacts
<1>6. s = [r EXCEPT ![i] = p]
  BY <1>1, <1>3
<1>7. s \in Seq(Pages) /\ Len(s) = Len(r)
      /\ \A j \in 1 .. Len(r) : s[j] = IF j = i THEN p ELSE r[j]
  BY <1>4, <1>5, <1>6, ExceptSeq
<1>8. \A j \in DOMAIN level : s[j] \in Readings(level[j])
  BY <1>3, <1>4, <1>5, <1>7 DEF VisitsSound
<1>9. turn' \in [EveryWorker -> Nat]
  <2>1. turn[w] \in Nat /\ Len(tabs) \in Nat
    BY DEF VisitsSound
  <2> QED
    BY <1>1, <2>1 DEF VisitsSound
<1>10. stage' \in [EveryWorker -> Stages] /\ fate' \in [Places -> Fates]
  BY <1>1 DEF VisitsSound, Stages
<1> QED
  BY <1>3, <1>4, <1>7, <1>8, <1>9, <1>10 DEF VisitsSound

(* Going on to the visit's next stage.                                     *)
LEMMA VisitGoesOn ==
  ASSUME VisitsSound, NEW w \in EveryWorker, NEW to \in Stages,
         GoOn(w, to), UNCHANGED level
  PROVE  VisitsSound'
BY DEF VisitsSound, GoOn

(* The pool's tabs are tabs.                                               *)
TabsTyped ==
  tabs \in Seq(TabIds) /\ open \subseteq TabIds /\ crashed \subseteq TabIds

(* Replacing a crashed tab leaves the pool's tabs tabs.                    *)
LEMMA TabReplaced ==
  ASSUME TabsTyped, NEW w \in DOMAIN tabs, Unused # {}, ReplaceTab(w)
  PROVE  TabsTyped'
<1>1. NewTab \in TabIds
  BY NewTabIsNew
<1>2. tabs' \in Seq(TabIds)
  <2>1. PICK s, t, r : s = tabs /\ t = NewTab /\ r = tabs'
    OBVIOUS
  <2>2. s \in Seq(TabIds) /\ w \in DOMAIN s /\ t \in TabIds
        /\ r = [s EXCEPT ![w] = t]
    BY <1>1, <2>1 DEF TabsTyped, ReplaceTab
  <2>3. r \in Seq(TabIds)
    BY <2>2
  <2> QED
    BY <2>1, <2>3
<1> QED
  BY <1>1, <1>2 DEF TabsTyped, ReplaceTab

(* Every step of a visit keeps them so.                                    *)
LEMMA VisitSound ==
  ASSUME level \in Seq(Sections), VisitsSound, TabsTyped,
         faults \in 0 .. MaxFaults,
         NEW w \in EveryWorker, VisitAction(w)
  PROVE  VisitsSound' /\ TabsTyped' /\ faults' \in 0 .. MaxFaults /\ VisitStep
<1>1. VisitStep /\ UNCHANGED level
  BY DEF VisitAction, Navigates, NavigationFails, Reads, ReadsNothing, Expands,
         ReadsEarly, ExpansionFails, TabCrashes, RecoversTab,
         CannotRecover, CrashesAgain, VisitStep
<1>2. Visiting(w)
  BY DEF VisitAction, Navigates, NavigationFails, Reads, ReadsNothing, Expands,
         ReadsEarly, ExpansionFails, TabCrashes, RecoversTab,
         CannotRecover, CrashesAgain, At, Dead
<1>3. Fault \/ UNCHANGED faults
  BY DEF VisitAction, Navigates, NavigationFails, Reads, ReadsNothing, Expands,
         ReadsEarly, ExpansionFails, TabCrashes, RecoversTab,
         CannotRecover, CrashesAgain
<1>4. faults' \in 0 .. MaxFaults
  BY <1>3, FaultCounted
<1>5. TabsTyped'
  <2>1. \/ UNCHANGED pool
        \/ UNCHANGED <<tabs, open>> /\ crashed' = crashed \cup {tabs[w]}
        \/ Unused # {} /\ ReplaceTab(w)
    BY DEF VisitAction, Navigates, NavigationFails, Reads, ReadsNothing, Expands,
           ReadsEarly, ExpansionFails, TabCrashes, RecoversTab,
           CannotRecover, CrashesAgain, pool
  <2>2. w \in DOMAIN tabs
    BY <1>2 DEF Visiting
  <2>3. CASE UNCHANGED pool
    BY <2>3 DEF pool, TabsTyped
  <2>4. CASE UNCHANGED <<tabs, open>> /\ crashed' = crashed \cup {tabs[w]}
    <3>1. tabs[w] \in TabIds
      BY <2>2 DEF TabsTyped
    <3> QED
      BY <2>4, <3>1 DEF TabsTyped
  <2> QED
    BY <2>1, <2>2, <2>3, <2>4, TabReplaced
<1>6. Section(w) \in Places
  BY <1>2, SectionIsPlace DEF Visiting, Section
<1>7. /\ Blank \in Readings(Section(w))
      /\ First[Section(w)] \in Readings(Section(w))
      /\ Rendered(First[Section(w)]) \subseteq Readings(Section(w))
      /\ Rendered(Whole(Section(w))) \subseteq Readings(Section(w))
  BY <1>6, ReadingFacts
<1>8. \A page : ExpandedFate(Section(w), page) \in Fates
  BY DEF ExpandedFate, Fates, Warned, Unwarned
<1>9. \/ \E to \in Stages : GoOn(w, to)
      \/ \E page \in Readings(Section(w)), outcome \in Fates :
           EndVisit(w, page, outcome)
      \/ UNCHANGED <<results, turn, stage, fate>>
  BY <1>7, <1>8
     DEF VisitAction, Navigates, NavigationFails, Reads, ReadsNothing, Expands,
         ReadsEarly, ExpansionFails, TabCrashes, RecoversTab,
         CannotRecover, CrashesAgain, AfterReplacement, Fates, Warned, Unwarned,
         Stages
<1>10. VisitsSound'
  <2>1. ASSUME NEW to \in Stages, GoOn(w, to) PROVE VisitsSound'
    BY <1>1, <2>1, VisitGoesOn
  <2>2. ASSUME NEW page \in Readings(Section(w)), NEW outcome \in Fates,
               EndVisit(w, page, outcome)
        PROVE  VisitsSound'
    BY <1>1, <1>2, <2>2, VisitEnds DEF TabsTyped
  <2>3. CASE UNCHANGED <<results, turn, stage, fate>>
    BY <1>1, <2>3 DEF VisitsSound
  <2> QED
    BY <1>9, <2>1, <2>2, <2>3
<1> QED
  BY <1>1, <1>4, <1>5, <1>10

(* The parts of the invariant a visit needs.                               *)
LEMMA VisitsInvolved ==
  ASSUME IInv, phase = "visiting"
  PROVE  level \in Seq(Sections) /\ VisitsSound /\ TabsTyped
         /\ faults \in 0 .. MaxFaults
BY DEF IInv, TypeOK, PagesRead, VisitsSound, TabsTyped

(* One page is added to the crawl's result.                                *)
LEMMA AbsorbSound ==
  ASSUME IInv, NEW s \in Sections, NEW page \in Pages, Absorb(s, page, queue)
  PROVE  /\ queue' \in Seq(Sections) /\ queued' \subseteq Sections
         /\ found' \in Listing
         /\ QueueSound(queue', queued', visited)
<1> DEFINE targets == NewTargets(visited \cup queued, s, page.links)
<1>1. /\ queue' = queue \o Crawlable(targets, page.links)
      /\ queued' = queued \cup targets
      /\ found' = AppendFiles(found, s, page.files)
  BY DEF Absorb
<1>2. page.links \in Seq(Sections) /\ page.files \in Seq(Files)
  BY DEF Pages
<1>3. queue \in Seq(Sections) /\ queued \subseteq Sections
      /\ QueueSound(queue, queued, visited) /\ found \in Listing
  BY DEF IInv, TypeOK, Listing
<1>4. /\ targets \subseteq Sections
      /\ queue \o Crawlable(targets, page.links) \in Seq(Sections)
      /\ QueueSound(queue \o Crawlable(targets, page.links),
                    queued \cup targets, visited)
  BY <1>2, <1>3, QueueGrows
<1>5. found' \in Listing
  BY <1>1, <1>2, <1>3, SectionIsPlace, FilesAppended
<1> HIDE DEF targets
<1> QED
  BY <1>1, <1>3, <1>4, <1>5

-----------------------------------------------------------------------------
(* Each step keeps the invariant.                                          *)

(* The browser's crawl begins.                                             *)
LEMMA OpenCourseTabInv == IInv /\ OpenCourseTab => IInv'
<1> SUFFICES ASSUME IInv, OpenCourseTab PROVE IInv'
  OBVIOUS
<1>1. /\ phase = "start" /\ strategy = "browser" /\ phase' = "pop"
      /\ tabs' = <<NewTab>> /\ open' = {NewTab} /\ NewTab \in TabIds
      /\ queue' = <<Root>> /\ queued' = {Root}
      /\ UNCHANGED <<strategy, visited, found, level, results, merged, turn,
                     stage, crashed, fate, faults>>
  BY NewTabIsNew DEF OpenCourseTab, visits
<1>2. Root \in Sections
  BY SectionsAssumption
<1>3. <<Root>> \in Seq(Sections) /\ QueueSound(<<Root>>, {Root}, {})
  BY <1>2, OneQueued
<1>4. visited = {}
  BY <1>1 DEF IInv, InPhase
<1>5. QueueSound(queue', queued', visited')
  BY <1>1, <1>3, <1>4
<1>6. tabs' \in Seq(TabIds)
  BY <1>1
<1>7. TypeOK'
  BY <1>1, <1>2, <1>3, <1>6 DEF IInv, TypeOK
<1> QED
  BY <1>1, <1>5, <1>7 DEF IInv, LevelTaken, InPhase, CapKept, PagesRead

(* The browser's crawl cannot begin.                                       *)
LEMMA NoCourseTabInv == IInv /\ NoCourseTab => IInv'
<1> SUFFICES ASSUME IInv, NoCourseTab PROVE IInv'
  OBVIOUS
<1>1. /\ phase = "start" /\ phase' = "error"
      /\ UNCHANGED <<strategy, walk, visits, pool, fate>>
  BY DEF NoCourseTab
<1>2. faults' \in 0 .. MaxFaults
  BY FaultCounted DEF NoCourseTab, IInv, TypeOK
<1> QED
  BY <1>1, <1>2 DEF IInv, TypeOK, walk, visits, pool, QueueSound, LevelTaken,
                    InPhase, CapKept, PagesRead

(* A level grows by the section at the head of the queue, under the cap.   *)
LEMMA PopInv == IInv /\ Pop => IInv'
<1> SUFFICES ASSUME IInv, Pop PROVE IInv'
  OBVIOUS
<1> DEFINE s == Head(queue)
<1>1. /\ strategy = "browser" /\ phase = "pop" /\ queue # <<>>
      /\ Cardinality(visited) < MaxPages
      /\ queue' = Tail(queue) /\ queued' = queued \ {s}
      /\ visited' = visited \cup {s}
      /\ level' = IF s \in visited THEN level ELSE Append(level, s)
      /\ UNCHANGED <<strategy, phase, found, results, merged, turn, stage,
                     tabs, open, crashed, fate, faults>>
  BY DEF Pop, MoreToPop, pool
<1>2. queue \in Seq(Sections) /\ level \in Seq(Sections)
      /\ visited \subseteq Sections
      /\ QueueSound(queue, queued, visited) /\ queued \subseteq Sections
  BY DEF IInv, TypeOK
<1>3. /\ s \in Sections /\ s \in queued /\ s \notin visited
      /\ Tail(queue) \in Seq(Sections)
      /\ QueueSound(Tail(queue), queued \ {s}, visited \cup {s})
  BY <1>1, <1>2, QueuePops
<1> HIDE DEF s
<1>4. level' = Append(level, s)
  BY <1>1, <1>3
<1>5. s \notin ToSet(level)
  BY <1>3 DEF IInv, LevelTaken
<1>6. level' \in Seq(Sections) /\ IsInjective(level')
      /\ ToSet(level') = ToSet(level) \cup {s}
  BY <1>2, <1>3, <1>4, <1>5, AppendedOnce DEF IInv, LevelTaken
<1>7. LevelTaken'
  BY <1>1, <1>6 DEF IInv, LevelTaken
<1>8. CapKept'
  <2>1. IsFiniteSet(visited)
    BY <1>2, FS_Subset, SectionsAssumption
  <2>2. Cardinality(visited) \in Nat
        /\ Cardinality(visited \cup {s}) = Cardinality(visited) + 1
    BY <1>3, <2>1, FS_AddElement, FS_CardinalityType
  <2> QED
    BY <1>1, <2>2, BoundsAssumption DEF CapKept
<1>9. merged = 0 /\ merged' = 0
  BY <1>1 DEF IInv, InPhase
<1>10. Len(level') \in Nat
  BY <1>6
<1>11. TypeOK'
  BY <1>1, <1>2, <1>3, <1>6, <1>9, <1>10 DEF IInv, TypeOK
<1>12. InPhase' /\ PagesRead'
  BY <1>1, <1>9 DEF IInv, InPhase, PagesRead
<1> QED
  BY <1>1, <1>3, <1>7, <1>8, <1>11, <1>12 DEF IInv

(* A worker's tab is opened.                                               *)
LEMMA OpenTabInv == IInv /\ OpenTab => IInv'
<1> SUFFICES ASSUME IInv, OpenTab PROVE IInv'
  OBVIOUS
<1>1. /\ NewTab \in TabIds /\ tabs' = Append(tabs, NewTab)
      /\ open' = open \cup {NewTab}
      /\ UNCHANGED <<strategy, phase, walk, visits, crashed, fate, faults>>
  BY NewTabIsNew DEF OpenTab
<1>2. tabs' \in Seq(TabIds) /\ open' \subseteq TabIds
  BY <1>1, AppendProperties DEF IInv, TypeOK
<1> QED
  BY <1>1, <1>2 DEF IInv, TypeOK, walk, visits, QueueSound, LevelTaken,
                    InPhase, CapKept, PagesRead

(* The workers set out for a level.                                        *)
LEMMA StartLevelInv == IInv /\ StartLevel => IInv'
<1> SUFFICES ASSUME IInv, StartLevel PROVE IInv'
  OBVIOUS
<1>1. /\ strategy = "browser" /\ phase = "pop" /\ level # <<>>
      /\ phase' = "visiting"
      /\ results' = [i \in DOMAIN level |-> Blank]
      /\ turn' = [w \in EveryWorker |-> w]
      /\ UNCHANGED <<strategy, queue, queued, visited, found, level, merged,
                     stage, tabs, open, crashed, fate>>
  BY DEF StartLevel, LevelPopped, walk, pool
<1>2. faults' \in 0 .. MaxFaults
  BY FaultCounted DEF StartLevel, IInv, TypeOK
<1>3. level \in Seq(Sections) /\ merged = 0 /\ Len(level) \in Nat \ {0}
      /\ DOMAIN level = 1 .. Len(level)
  BY <1>1 DEF IInv, TypeOK, InPhase
<1>4. Blank \in Pages
  BY DEF Blank, Pages
<1>5. results' \in Seq(Pages) /\ Len(results') = Len(level)
      /\ \A i \in DOMAIN level : results'[i] = Blank
  BY <1>1, <1>3, <1>4
<1>6. \A i \in DOMAIN level : Blank \in Readings(level[i])
  BY DEF Readings
<1>7. turn' \in [EveryWorker -> Nat]
  BY <1>1, BoundsAssumption DEF EveryWorker
<1>8. TypeOK'
  BY <1>1, <1>2, <1>5, <1>7 DEF IInv, TypeOK
<1>9. InPhase' /\ PagesRead'
  BY <1>1, <1>3, <1>5, <1>6 DEF InPhase, PagesRead
<1> QED
  BY <1>1, <1>8, <1>9 DEF IInv, QueueSound, LevelTaken, CapKept

(* Any step of a visit.                                                    *)
LEMMA VisitInv ==
  ASSUME IInv, NEW w \in EveryWorker, VisitAction(w)
  PROVE  IInv'
<1>1. phase = "visiting"
  BY DEF VisitAction, Navigates, NavigationFails, Reads, ReadsNothing, Expands,
         ReadsEarly, ExpansionFails, TabCrashes, RecoversTab,
         CannotRecover, CrashesAgain, At, Dead, Visiting
<1>2. VisitsSound' /\ TabsTyped' /\ faults' \in 0 .. MaxFaults
      /\ UNCHANGED <<strategy, phase, queue, queued, visited, found, level, merged>>
  BY <1>1, VisitsInvolved, VisitSound DEF VisitStep, walk
<1>3. TypeOK'
  BY <1>2 DEF IInv, TypeOK, VisitsSound, TabsTyped
<1>4. PagesRead'
  BY <1>2 DEF PagesRead, VisitsSound
<1> QED
  BY <1>2, <1>3, <1>4 DEF IInv, QueueSound, LevelTaken, InPhase, CapKept

(* One of the level's pages is merged; with the last one, the level is     *)
(* over.                                                                   *)
LEMMA MergeInv == IInv /\ Merge => IInv'
<1> SUFFICES ASSUME IInv, Merge PROVE IInv'
  OBVIOUS
<1> DEFINE i == merged + 1
<1>1. /\ phase = "visiting" /\ Absorb(level[i], results[i], queue)
      /\ UNCHANGED <<strategy, visited, turn, stage, tabs, open, crashed, fate,
                     faults>>
  BY DEF Merge, Merges, pool
<1>2. \/ i < Len(level) /\ merged' = i /\ UNCHANGED <<phase, level, results>>
      \/ level' = <<>> /\ results' = <<>> /\ phase' = "pop" /\ merged' = 0
  BY DEF Merge, LevelEnds
<1>3. level \in Seq(Sections) /\ results \in Seq(Pages)
      /\ Len(results) = Len(level)
      /\ merged \in Nat /\ merged < Len(level) /\ strategy = "browser"
  BY <1>1 DEF IInv, TypeOK, InPhase
<1>4. level[i] \in Sections /\ results[i] \in Pages
  BY <1>3
<1>5. /\ queue' \in Seq(Sections) /\ queued' \subseteq Sections
      /\ found' \in Listing
      /\ QueueSound(queue', queued', visited)
  BY <1>1, <1>4, AbsorbSound
<1>6. CASE i < Len(level) /\ merged' = i /\ UNCHANGED <<phase, level, results>>
  <2>1. TypeOK'
    BY <1>1, <1>3, <1>5, <1>6 DEF IInv, TypeOK, Listing
  <2> QED
    BY <1>1, <1>3, <1>5, <1>6, <2>1
       DEF IInv, LevelTaken, InPhase, CapKept, PagesRead
<1>7. CASE level' = <<>> /\ results' = <<>> /\ phase' = "pop" /\ merged' = 0
  <2>1. TypeOK'
    BY <1>1, <1>5, <1>7 DEF IInv, TypeOK, Listing
  <2>2. LevelTaken'
    BY <1>7 DEF LevelTaken, IsInjective, ToSet
  <2> QED
    BY <1>1, <1>3, <1>5, <1>7, <2>1, <2>2 DEF IInv, InPhase, CapKept, PagesRead
<1> QED
  BY <1>2, <1>6, <1>7

(* The browser's crawl returns.                                            *)
LEMMA FinishInv == IInv /\ Finish => IInv'
<1> SUFFICES ASSUME IInv, Finish PROVE IInv'
  OBVIOUS
<1>1. /\ phase = "pop" /\ level = <<>> /\ phase' \in {"error", "done"}
      /\ open' = open \ ToSet(tabs)
      /\ UNCHANGED <<strategy, walk, visits, tabs, crashed, fate, faults>>
  BY DEF Finish
<1> QED
  BY <1>1 DEF IInv, TypeOK, walk, visits, QueueSound, LevelTaken,
              InPhase, CapKept, PagesRead

(* The HTTP crawl has no level, so no pages of its own to keep.            *)
LEMMA NoVisits ==
  ASSUME IInv, strategy = "http"
  PROVE  phase # "visiting" /\ level = <<>> /\ merged = 0
BY DEF IInv, InPhase

(* The HTTP crawl begins.                                                  *)
LEMMA FetchRootInv ==
  ASSUME IInv, NEW root \in Answers, NEW group \in Answers, NEW rest \in Answers,
         FetchRoot(root, group, rest)
  PROVE  IInv'
<1>1. /\ strategy = "http" /\ phase = "start" /\ phase' \in {"error", "pop"}
      /\ UNCHANGED <<strategy, visited, level, results, merged, turn, stage,
                     tabs, open, crashed>>
      /\ Fault \/ UNCHANGED faults
  BY DEF FetchRoot, Suffers, walk, visits, pool
<1>2. /\ phase # "visiting" /\ level = <<>> /\ merged = 0
      /\ visited = {} /\ found = <<>>
  BY <1>1, NoVisits DEF IInv, InPhase
<1>3. faults' \in 0 .. MaxFaults
  BY <1>1, FaultCounted DEF IInv, TypeOK
<1>4. fate' \in [Places -> Fates]
  BY DEF FetchRoot, FateOf, Fates, Warned, Unwarned, IInv, TypeOK
<1>5. /\ queue' \in Seq(Sections) /\ queued' \subseteq Sections
      /\ QueueSound(queue', queued', visited')
  <2>1. CASE root = "error"
    BY <1>1, <2>1 DEF FetchRoot, walk, IInv, TypeOK
  <2>2. CASE root # "error" /\ root = "page"
    <3>1. queue' = TreeQueue /\ queued' = TreeQueued
      BY <2>2 DEF FetchRoot
    <3> QED
      BY <1>1, <1>2, <3>1, TreeIsQueued
  <2>3. CASE root # "error" /\ root # "page"
    <3>1. queue' = <<Root>> /\ queued' = {Root} /\ Root \in Sections
      BY <2>3, SectionsAssumption DEF FetchRoot
    <3> QED
      BY <1>1, <1>2, <3>1, OneQueued
  <2> QED
    BY <2>1, <2>2, <2>3
<1>6. found' \in Listing
  <2>1. <<>> \in Listing
    BY DEF Listing
  <2>2. CASE root = "page"
    <3> DEFINE page == PageOf(Group, group, rest, "page")
    <3>1. found' = AppendFiles(<<>>, Group, page.files)
      BY <2>2 DEF FetchRoot
    <3>2. page \in Pages
      BY SectionIsPlace, PageOfIsReading, ReadingFacts
    <3> HIDE DEF page
    <3>3. page.files \in Seq(Files)
      BY <3>2 DEF Pages
    <3> QED
      BY <2>1, <3>1, <3>3, SectionIsPlace, FilesAppended
  <2>3. CASE root # "page"
    BY <1>2, <2>1, <2>3 DEF FetchRoot, walk
  <2> QED
    BY <2>2, <2>3
<1>7. TypeOK'
  BY <1>1, <1>2, <1>3, <1>4, <1>5, <1>6 DEF IInv, TypeOK, Listing
<1> QED
  BY <1>1, <1>2, <1>5, <1>7
     DEF IInv, LevelTaken, InPhase, CapKept, PagesRead

(* The HTTP crawl visits the section at the head of its queue.             *)
LEMMA FetchSectionInv ==
  ASSUME IInv, NEW body \in Answers, NEW rest \in Answers, NEW prose \in Answers,
         FetchSection(body, rest, prose)
  PROVE  IInv'
<1> DEFINE s == Head(queue)
           now == visited \cup {s}
           left == queued \ {s}
           page == PageOf(s, body, rest, prose)
           targets == NewTargets(now \cup left, s, page.links)
<1>1. /\ strategy = "http" /\ phase = "pop" /\ queue # <<>>
      /\ visited' = now
      /\ found' = AppendFiles(found, s, page.files)
      /\ queue' = Tail(queue) \o Crawlable(targets, page.links)
      /\ queued' = left \cup targets
      /\ UNCHANGED <<strategy, phase, level, results, merged, turn, stage,
                     tabs, open, crashed>>
      /\ Fault \/ UNCHANGED faults
  BY DEF FetchSection, Suffers, visits, pool
<1>2. fate' \in [Places -> Fates]
  BY DEF FetchSection, Worse, FateOf, Fates, Warned, Unwarned, IInv, TypeOK
<1>3. phase # "visiting" /\ level = <<>> /\ merged = 0
  BY <1>1, NoVisits
<1>4. faults' \in 0 .. MaxFaults
  BY <1>1, FaultCounted DEF IInv, TypeOK
<1>5. /\ s \in Sections
      /\ Tail(queue) \in Seq(Sections)
      /\ QueueSound(Tail(queue), left, now)
  BY <1>1, QueuePops DEF IInv, TypeOK
<1>6. page \in Pages
  BY <1>5, SectionIsPlace, PageOfIsReading, ReadingFacts
<1> HIDE DEF page, s
<1>7. page.links \in Seq(Sections) /\ page.files \in Seq(Files)
  BY <1>6 DEF Pages
<1> HIDE DEF now, left
<1>8. /\ targets \subseteq Sections
      /\ Tail(queue) \o Crawlable(targets, page.links) \in Seq(Sections)
      /\ QueueSound(Tail(queue) \o Crawlable(targets, page.links),
                    left \cup targets, now)
  BY <1>5, <1>7, QueueGrows
<1>9. found' \in Listing
  BY <1>1, <1>5, <1>7, SectionIsPlace, FilesAppended DEF IInv, TypeOK, Listing
<1>10. now \subseteq Sections /\ left \subseteq Sections
  BY <1>5 DEF IInv, TypeOK, now, left
<1> HIDE DEF targets
<1>11. TypeOK'
  BY <1>1, <1>2, <1>3, <1>4, <1>8, <1>9, <1>10 DEF IInv, TypeOK, Listing
<1>12. QueueSound(queue', queued', visited')
  BY <1>1, <1>8
<1>13. LevelTaken'
  BY <1>1, <1>3 DEF LevelTaken, IsInjective, ToSet
<1> QED
  BY <1>1, <1>3, <1>11, <1>12, <1>13 DEF IInv, InPhase, CapKept, PagesRead

(* The HTTP crawl returns.                                                 *)
LEMMA HttpFinishInv == IInv /\ HttpFinish => IInv'
<1> SUFFICES ASSUME IInv, HttpFinish PROVE IInv'
  OBVIOUS
<1>1. /\ strategy = "http" /\ phase = "pop" /\ phase' = "done"
      /\ UNCHANGED <<strategy, walk, visits, pool, fate, faults>>
  BY DEF HttpFinish
<1> QED
  BY <1>1 DEF IInv, TypeOK, walk, visits, pool, QueueSound, LevelTaken,
              InPhase, CapKept, PagesRead

(* The steps of a crawl, as cases.                                         *)
LEMMA Steps ==
  ASSUME [Next]_vars
  PROVE  \/ OpenCourseTab \/ NoCourseTab
         \/ Pop \/ OpenTab \/ StartLevel \/ Merge \/ Finish
         \/ \E w \in EveryWorker : VisitAction(w)
         \/ \E root, group, rest \in Answers : FetchRoot(root, group, rest)
         \/ \E body, rest, prose \in Answers : FetchSection(body, rest, prose)
         \/ HttpFinish \/ UNCHANGED vars
BY Zenon DEF Next, Stay

(* Every step keeps the invariant.                                         *)
LEMMA NextInv == IInv /\ [Next]_vars => IInv'
<1> SUFFICES ASSUME IInv, [Next]_vars PROVE IInv'
  OBVIOUS
<1>1. CASE UNCHANGED vars
  BY <1>1 DEF IInv, TypeOK, vars, walk, visits, pool, QueueSound, LevelTaken,
              InPhase, CapKept, PagesRead
<1>2. ASSUME NEW w \in EveryWorker, VisitAction(w) PROVE IInv'
  BY <1>2, VisitInv
<1>3. ASSUME NEW root \in Answers, NEW group \in Answers, NEW rest \in Answers,
             FetchRoot(root, group, rest)
      PROVE  IInv'
  BY <1>3, FetchRootInv
<1>4. ASSUME NEW body \in Answers, NEW rest \in Answers, NEW prose \in Answers,
             FetchSection(body, rest, prose)
      PROVE  IInv'
  BY <1>4, FetchSectionInv
<1> QED
  BY <1>1, <1>2, <1>3, <1>4, Steps, OpenCourseTabInv, NoCourseTabInv, PopInv,
     OpenTabInv, StartLevelInv, MergeInv, FinishInv, HttpFinishInv

(* Every variable of the two crawls keeps its type, for every course and   *)
(* any number of workers, tabs and faults.                                 *)
THEOREM TypeCorrect == Spec => []TypeOK
<1>1. IInv => TypeOK
  BY DEF IInv
<1> QED
  BY <1>1, InitInv, NextInv, PTL DEF Spec

-----------------------------------------------------------------------------
(* The crawl comes out as a CourseWalk.                                    *)

(* The two modules mean the same by the words they share.                  *)
LEMMA SameWords ==
  /\ \A k, s, links : Walk!NewTargets(k, s, links) = NewTargets(k, s, links)
  /\ \A t, links : Walk!Crawlable(t, links) = Crawlable(t, links)
  /\ \A f, s, files : Walk!AppendFiles(f, s, files) = AppendFiles(f, s, files)
  /\ \A s : Walk!Readings(s) = Readings(s)
  /\ Walk!TreeQueue = TreeQueue /\ Walk!TreeQueued = TreeQueued
  /\ Walk!Group = Group
  /\ \A S : Walk!Cardinality(S) = Cardinality(S)
<1>0. \A S, list : Walk!InOrder(S, list) = InOrder(S, list)
  BY DEF Walk!InOrder, InOrder, Walk!ToSet, ToSet
<1>1. \A k, s, links : Walk!NewTargets(k, s, links) = NewTargets(k, s, links)
  BY DEF Walk!NewTargets, NewTargets, Walk!ToSet, ToSet
<1>2. \A t, links : Walk!Crawlable(t, links) = Crawlable(t, links)
  BY <1>0 DEF Walk!Crawlable, Crawlable
<1>3. \A f, s, files : Walk!AppendFiles(f, s, files) = AppendFiles(f, s, files)
  BY <1>0 DEF Walk!AppendFiles, AppendFiles, Walk!FiledUnder, FiledUnder,
              Walk!Listed, Listed, Walk!ToSet, ToSet
<1>4. \A s : Walk!Readings(s) = Readings(s)
  BY DEF Walk!Readings, Readings, Walk!Shown, Shown, Walk!Join, Join,
         Walk!Blank, Blank, Walk!Rendered, Rendered, Walk!Whole, Whole
<1>5. Walk!TreeTargets = TreeTargets
  BY <1>1 DEF Walk!TreeTargets, TreeTargets
<1>6. Walk!TreeQueue = TreeQueue /\ Walk!TreeQueued = TreeQueued
  BY <1>2, <1>5 DEF Walk!TreeQueue, TreeQueue, Walk!TreeQueued, TreeQueued
<1>7. Walk!Group = Group
  BY DEF Walk!Group, Group
<1>8. \A S : Walk!Cardinality(S) = Cardinality(S)
  BY DEF Walk!Cardinality, Cardinality
<1> QED
  BY <1>1, <1>2, <1>3, <1>4, <1>6, <1>7, <1>8

(* The variables of the walk.                                              *)
Status == IF phase = "start" THEN "starting"
          ELSE IF Over THEN "over" ELSE "crawling"
WalkQueue == Unmerged \o queue
WalkQueued == queued \cup ToSet(Unmerged)
WalkVisited == visited \ ToSet(Unmerged)

(* With no level at hand they are the crawl's own.                         *)
LEMMA NoneUnmerged ==
  ASSUME IInv, level = <<>>
  PROVE  /\ Unmerged = <<>> /\ WalkQueue = queue
         /\ WalkQueued = queued /\ WalkVisited = visited
<1>1. Len(level) = 0 /\ merged = 0
  BY DEF IInv, TypeOK
<1>2. SubSeq(level, 1, 0) = <<>>
  BY SubSeqEmpty
<1>3. Unmerged = <<>>
  BY <1>1, <1>2 DEF Unmerged
<1>4. ToSet(<<>>) = {}
  BY DEF ToSet
<1>5. queue \in Seq(Sections)
  BY DEF IInv, TypeOK
<1> QED
  BY <1>3, <1>4, <1>5, ConcatEmptySeq DEF WalkQueue, WalkQueued, WalkVisited

(* Both begin alike.                                                       *)
LEMMA WalkInit == Init => Walk!Init
<1> SUFFICES ASSUME Init PROVE Walk!Init
  OBVIOUS
<1>1. IInv /\ level = <<>> /\ phase = "start"
  BY InitInv DEF Init
<1>2. WalkQueue = <<>> /\ WalkQueued = {} /\ WalkVisited = {}
  BY <1>1, NoneUnmerged DEF Init
<1> QED
  BY <1>1, <1>2 DEF Init, Walk!Init, WalkQueue, WalkQueued, WalkVisited

(* The steps that show nothing: the walk's variables stay as they are.     *)
Unseen ==
  UNCHANGED <<Status, strategy, WalkQueue, WalkQueued, WalkVisited, found>>

(* For the walk they are no step.                                          *)
LEMMA UnseenStutters == Unseen => UNCHANGED Walk!vars
BY DEF Unseen, Walk!vars, Status, WalkQueue, WalkQueued, WalkVisited

(* A popped section leaves the queue for the end of the level, which for   *)
(* the walk is the front of its queue.                                     *)
LEMMA PopUnseen == IInv /\ Pop => Unseen
<1> SUFFICES ASSUME IInv, Pop PROVE Unseen
  OBVIOUS
<1> DEFINE s == Head(queue)
<1>1. /\ phase = "pop" /\ queue # <<>>
      /\ queue' = Tail(queue) /\ queued' = queued \ {s}
      /\ visited' = visited \cup {s}
      /\ level' = IF s \in visited THEN level ELSE Append(level, s)
      /\ UNCHANGED <<strategy, phase, found, merged>>
  BY DEF Pop, MoreToPop, pool
<1>2. queue \in Seq(Sections) /\ level \in Seq(Sections)
      /\ QueueSound(queue, queued, visited) /\ merged = 0
      /\ LevelTaken
  BY <1>1 DEF IInv, TypeOK, InPhase
<1>3. s \in Sections /\ s \in queued /\ s \notin visited
      /\ Tail(queue) \in Seq(Sections)
  BY <1>1, <1>2, QueuePops
<1>4. s \notin ToSet(level)
  BY <1>2, <1>3 DEF LevelTaken
<1>5. queue = <<s>> \o Tail(queue)
  BY <1>1, <1>2
<1> HIDE DEF s
<1>6. level' = level \o <<s>> /\ <<s>> \in Seq(Sections)
      /\ level' \in Seq(Sections)
  BY <1>1, <1>2, <1>3, AppendIsConcat
<1>7. Unmerged = level /\ Unmerged' = level'
  <2>1. SubSeq(level, 1, Len(level)) = level
        /\ SubSeq(level', 1, Len(level')) = level'
    BY <1>2, <1>6, SubSeqFull
  <2> QED
    BY <1>1, <1>2, <2>1 DEF Unmerged
<1>8. ToSet(level') = ToSet(level) \cup {s}
  <2>1. level' = Append(level, s)
    BY <1>1, <1>3
  <2> QED
    BY <1>2, <1>3, <1>4, <2>1, AppendedOnce DEF LevelTaken
<1>9. (level \o <<s>>) \o Tail(queue) = level \o (<<s>> \o Tail(queue))
  BY <1>2, <1>3, <1>6, ConcatAssociative
<1>10. WalkQueue' = WalkQueue
  BY <1>1, <1>5, <1>6, <1>7, <1>9 DEF WalkQueue
<1>11. WalkQueued' = WalkQueued /\ WalkVisited' = WalkVisited
  BY <1>1, <1>3, <1>4, <1>7, <1>8 DEF WalkQueued, WalkVisited
<1> QED
  BY <1>1, <1>10, <1>11 DEF Unseen, Status, Over

(* Steps that touch neither the queue nor the level show nothing.          *)
LEMMA QuietUnseen ==
  ASSUME UNCHANGED <<strategy, walk, level, merged>>,
         phase' = phase \/ (phase = "pop" /\ phase' = "visiting")
  PROVE  Unseen
BY DEF Unseen, Status, Over, WalkQueue, WalkQueued, WalkVisited, Unmerged, walk

(* A crawl without a level, before and after a step: what the walk has is    *)
(* what the crawl has.                                                       *)
LEMMA NoneUnmergedAfter ==
  ASSUME IInv, level = <<>>, IInv', level' = <<>>
  PROVE  /\ WalkQueue = queue /\ WalkQueued = queued /\ WalkVisited = visited
         /\ WalkQueue' = queue' /\ WalkQueued' = queued'
         /\ WalkVisited' = visited'
<1>1. (IInv /\ level = <<>> => WalkQueue = queue /\ WalkQueued = queued
                               /\ WalkVisited = visited)'
  BY NoneUnmerged, PTL
<1> QED
  BY <1>1, NoneUnmerged

(* The beginning and the end, in both crawls.                              *)
LEMMA OpenCourseTabWalks == IInv /\ OpenCourseTab => Walk!BeginAtRoot
<1> SUFFICES ASSUME IInv, OpenCourseTab PROVE Walk!BeginAtRoot
  OBVIOUS
<1>1. /\ phase = "start" /\ phase' = "pop" /\ queue' = <<Root>> /\ queued' = {Root}
      /\ UNCHANGED <<strategy, visited, found, level, merged>>
  BY DEF OpenCourseTab, visits
<1>2. level = <<>> /\ level' = <<>> /\ IInv'
  BY <1>1, OpenCourseTabInv DEF IInv, InPhase
<1>3. /\ WalkQueue' = queue' /\ WalkQueued' = queued'
      /\ WalkVisited' = WalkVisited
  BY <1>1, <1>2, NoneUnmergedAfter
<1> QED
  BY <1>1, <1>3
     DEF Walk!BeginAtRoot, WalkQueue, WalkQueued, WalkVisited, Over

(* A page is merged: the walk visits the section at the head of its queue. *)
LEMMA MergeWalks == IInv /\ Merge => Walk!Visit
<1> SUFFICES ASSUME IInv, Merge PROVE Walk!Visit
  OBVIOUS
<1> DEFINE i == merged + 1
           s == level[i]
           page == results[i]
           rest == SubSeq(level, merged + 2, Len(level))
           targets == NewTargets(visited \cup queued, s, page.links)
<1>1. /\ phase = "visiting"
      /\ found' = AppendFiles(found, s, page.files)
      /\ queue' = queue \o Crawlable(targets, page.links)
      /\ queued' = queued \cup targets
      /\ UNCHANGED <<strategy, visited>>
  BY DEF Merge, Merges, Absorb
<1>2. \/ i < Len(level) /\ merged' = i /\ UNCHANGED <<phase, level>>
      \/ ~(i < Len(level)) /\ level' = <<>> /\ phase' = "pop" /\ merged' = 0
  BY DEF Merge, LevelEnds
<1>3. /\ level \in Seq(Sections) /\ merged \in Nat /\ merged < Len(level)
      /\ Len(level) \in Nat /\ queue \in Seq(Sections)
      /\ IsInjective(level) /\ ToSet(level) \subseteq visited
      /\ QueueSound(queue, queued, visited)
  BY <1>1 DEF IInv, TypeOK, InPhase, LevelTaken
<1>4. i \in DOMAIN level /\ s \in Sections /\ page \in Readings(s)
  BY <1>1, <1>3 DEF IInv, PagesRead
<1>5. /\ Unmerged \in Seq(Sections) /\ Unmerged # <<>>
      /\ Head(Unmerged) = s /\ Tail(Unmerged) = rest
      /\ IsInjective(Unmerged) /\ ToSet(Unmerged) \subseteq ToSet(level)
  BY <1>3, RestOfList DEF Unmerged
<1>6. Unmerged' = rest
  <2>1. CASE i < Len(level) /\ merged' = i /\ UNCHANGED <<phase, level>>
    <3>1. i + 1 = merged + 2
      BY <1>3
    <3> QED
      BY <2>1, <3>1 DEF Unmerged
  <2>2. CASE ~(i < Len(level)) /\ level' = <<>> /\ phase' = "pop" /\ merged' = 0
    <3>1. Len(level) < merged + 2
      BY <1>3, <2>2
    <3>2. rest = <<>>
      BY <1>3, <3>1, SubSeqEmpty
    <3>3. SubSeq(<<>>, 0 + 1, Len(<<>>)) = <<>>
      BY SubSeqEmpty
    <3> QED
      BY <2>2, <3>2, <3>3 DEF Unmerged
  <2> QED
    BY <1>2, <2>1, <2>2
<1> HIDE DEF rest, page, s
<1>7. /\ rest \in Seq(Sections) /\ s \notin ToSet(rest)
      /\ ToSet(Unmerged) = {s} \cup ToSet(rest)
  BY <1>5, Popped
<1>8. Unmerged = <<s>> \o rest /\ <<s>> \in Seq(Sections)
  BY <1>4, <1>5
<1>9. /\ WalkQueue # <<>> /\ Head(WalkQueue) = s
      /\ Tail(WalkQueue) = rest \o queue
  <2>1. WalkQueue = <<s>> \o (rest \o queue)
    BY <1>3, <1>7, <1>8, ConcatAssociative DEF WalkQueue
  <2>2. rest \o queue \in Seq(Sections)
    BY <1>3, <1>7, ConcatProperties
  <2> QED
    BY <1>4, <2>1, <2>2
<1>10. /\ s \in visited /\ s \notin queued
       /\ WalkVisited \cup {s} = visited \ ToSet(rest)
       /\ WalkQueued \ {s} = queued \cup ToSet(rest)
  <2>1. s \in ToSet(Unmerged)
    BY <1>7
  <2>2. s \in visited /\ s \notin queued
    BY <1>3, <1>5, <2>1 DEF QueueSound
  <2> QED
    BY <1>7, <2>2 DEF WalkVisited, WalkQueued
<1> DEFINE now == WalkVisited \cup {s}
           left == WalkQueued \ {s}
<1>11. now \cup left = visited \cup queued
  <2>1. ToSet(rest) \subseteq visited
    BY <1>3, <1>5, <1>7
  <2> QED
    BY <1>10, <2>1
<1>12. Cardinality(WalkVisited) < MaxPages
  <2>1. visited \subseteq Sections /\ Cardinality(visited) <= MaxPages
    BY <1>1 DEF IInv, TypeOK, CapKept, InPhase
  <2>2. IsFiniteSet(visited)
    BY <2>1, FS_Subset, SectionsAssumption
  <2>3. WalkVisited \subseteq visited /\ WalkVisited # visited
    BY <1>7, <1>10 DEF WalkVisited
  <2>4. /\ Cardinality(WalkVisited) <= Cardinality(visited)
        /\ Cardinality(WalkVisited) # Cardinality(visited)
        /\ Cardinality(WalkVisited) \in Nat /\ Cardinality(visited) \in Nat
    BY <2>2, <2>3, FS_Subset, FS_CardinalityType
  <2> QED
    BY <2>1, <2>4, BoundsAssumption
<1>13. /\ WalkVisited' = now
       /\ WalkQueue' = Tail(WalkQueue) \o Crawlable(targets, page.links)
       /\ WalkQueued' = left \cup targets
  <2>1. page.links \in Seq(Sections)
    <3>1. page \in Pages
      BY <1>4, ReadingFacts, SectionIsPlace
    <3> QED
      BY <3>1 DEF Pages
  <2>2. Crawlable(targets, page.links) \in Seq(Sections)
    BY <2>1, InOrderFacts DEF Crawlable
  <2> HIDE DEF targets
  <2>3. (rest \o queue) \o Crawlable(targets, page.links)
          = rest \o (queue \o Crawlable(targets, page.links))
    BY <1>3, <1>7, <2>2, ConcatAssociative
  <2> QED
    BY <1>1, <1>6, <1>9, <1>10, <2>3 DEF WalkVisited, WalkQueue, WalkQueued
<1>14. targets = NewTargets(now \cup left, s, page.links)
  BY <1>11
<1>15. Status = "crawling" /\ Status' = "crawling"
  BY <1>1, <1>2 DEF Status, Over
<1>16. ~Walk!Enough
  <2>1. ~(Cardinality(WalkVisited) >= MaxPages)
    <3>1. Cardinality(WalkVisited) \in Nat
      <4>1. WalkVisited \subseteq Sections
        BY DEF WalkVisited, IInv, TypeOK
      <4> QED
        BY <4>1, FS_Subset, FS_CardinalityType, SectionsAssumption
    <3> QED
      BY <1>12, <3>1, BoundsAssumption
  <2> QED
    BY <1>9, <2>1, SameWords DEF Walk!Enough, WalkQueue, WalkVisited
<1> HIDE DEF targets, now, left
<1>17. /\ WalkVisited' = WalkVisited \cup {Head(WalkQueue)}
       /\ \E p \in Walk!Readings(Head(WalkQueue)) :
            LET t == Walk!NewTargets((WalkVisited \cup {Head(WalkQueue)})
                                       \cup (WalkQueued \ {Head(WalkQueue)}),
                                     Head(WalkQueue), p.links)
            IN  /\ WalkQueue' = Tail(WalkQueue) \o Walk!Crawlable(t, p.links)
                /\ WalkQueued' = (WalkQueued \ {Head(WalkQueue)}) \cup t
                /\ found' = Walk!AppendFiles(found, Head(WalkQueue), p.files)
  BY <1>1, <1>4, <1>9, <1>13, <1>14, SameWords DEF now, left
<1> QED
  BY <1>1, <1>15, <1>16, <1>17
     DEF Walk!Visit, Status, WalkQueue, WalkQueued, WalkVisited

(* Without a tab for the course neither can begin.                         *)
LEMMA NoCourseTabWalks == IInv /\ NoCourseTab => Walk!CannotBegin
<1> SUFFICES ASSUME IInv, NoCourseTab PROVE Walk!CannotBegin
  OBVIOUS
<1>1. phase = "start" /\ phase' = "error"
      /\ UNCHANGED <<strategy, queue, queued, visited, found, level, merged>>
  BY DEF NoCourseTab, walk, visits
<1> QED
  BY <1>1 DEF Walk!CannotBegin, Over, Unmerged

(* The browser's crawl returns where the walk has enough.                  *)
LEMMA FinishWalks == IInv /\ Finish => Walk!Return
<1> SUFFICES ASSUME IInv, Finish PROVE Walk!Return
  OBVIOUS
<1>1. /\ phase = "pop" /\ level = <<>> /\ ~MoreToPop /\ strategy = "browser"
      /\ phase' \in {"error", "done"}
      /\ UNCHANGED <<strategy, queue, queued, visited, found, level, merged>>
  BY DEF Finish, walk, visits
<1>2. WalkQueue = queue /\ WalkVisited = visited
  BY <1>1, NoneUnmerged
<1>3. Walk!Enough
  <2>1. queue = <<>> \/ Cardinality(visited) >= MaxPages
    <3>1. IsFiniteSet(visited)
      BY FS_Subset, SectionsAssumption DEF IInv, TypeOK
    <3>2. Cardinality(visited) \in Nat
      BY <3>1, FS_CardinalityType
    <3> QED
      BY <1>1, <3>2, BoundsAssumption DEF MoreToPop
  <2> QED
    BY <1>1, <1>2, <2>1, SameWords DEF Walk!Enough, WalkQueue, WalkVisited
<1> QED
  BY <1>1, <1>3 DEF Walk!Return, Over, Unmerged

(* The HTTP crawl begins as the walk does, with or without the tree.       *)
LEMMA FetchRootWalks ==
  ASSUME IInv, NEW root \in Answers, NEW group \in Answers, NEW rest \in Answers,
         FetchRoot(root, group, rest)
  PROVE  Walk!BeginAtRoot \/ Walk!BeginWithTree \/ Walk!CannotBegin
<1>1. /\ strategy = "http" /\ phase = "start"
      /\ UNCHANGED <<strategy, visited, level, merged>>
  BY DEF FetchRoot, walk, visits
<1>2. level = <<>> /\ level' = <<>> /\ found = <<>> /\ IInv'
  BY <1>1, NoVisits, FetchRootInv DEF IInv, InPhase
<1>3. /\ WalkQueue' = queue' /\ WalkQueued' = queued'
      /\ WalkVisited' = WalkVisited
  BY <1>1, <1>2, NoneUnmergedAfter
<1>4. CASE root = "error"
  <2>1. phase' = "error" /\ UNCHANGED <<queue, queued, found>>
    BY <1>4 DEF FetchRoot, walk
  <2> QED
    BY <1>1, <2>1 DEF Walk!CannotBegin, Over, Unmerged
<1>5. CASE root # "error" /\ root = "page"
  <2> DEFINE page == PageOf(Group, group, rest, "page")
  <2>1. /\ phase' = "pop" /\ queue' = TreeQueue /\ queued' = TreeQueued
        /\ found' = AppendFiles(<<>>, Group, page.files)
    BY <1>5 DEF FetchRoot
  <2>2. page \in Readings(Group)
    BY SectionIsPlace, PageOfIsReading
  <2> HIDE DEF page
  <2>3. \E p \in Walk!Readings(Walk!Group) :
          found' = Walk!AppendFiles(<<>>, Walk!Group, p.files)
    BY <2>1, <2>2, SameWords
  <2>4. WalkQueue' = Walk!TreeQueue /\ WalkQueued' = Walk!TreeQueued
    BY <1>3, <2>1, SameWords
  <2>5. Walk!BeginWithTree
    BY <1>1, <1>3, <2>1, <2>3, <2>4
       DEF Walk!BeginWithTree, Over, WalkQueue, WalkQueued, WalkVisited
  <2> QED
    BY <2>5
<1>6. CASE root # "error" /\ root # "page"
  <2>1. phase' = "pop" /\ queue' = <<Root>> /\ queued' = {Root} /\ found' = <<>>
    BY <1>6 DEF FetchRoot
  <2>2. Walk!BeginAtRoot
    BY <1>1, <1>2, <1>3, <2>1
       DEF Walk!BeginAtRoot, Over, WalkQueue, WalkQueued, WalkVisited
  <2> QED
    BY <2>2
<1> QED
  BY <1>4, <1>5, <1>6

(* Each request of the HTTP crawl is a visit of the walk.                  *)
LEMMA FetchSectionWalks ==
  ASSUME IInv, NEW body \in Answers, NEW rest \in Answers, NEW prose \in Answers,
         FetchSection(body, rest, prose)
  PROVE  Walk!Visit
<1> DEFINE s == Head(queue)
           page == PageOf(s, body, rest, prose)
           targets == NewTargets((visited \cup {s}) \cup (queued \ {s}), s,
                                 page.links)
<1>1. /\ strategy = "http" /\ phase = "pop" /\ queue # <<>>
      /\ visited' = visited \cup {s}
      /\ found' = AppendFiles(found, s, page.files)
      /\ queue' = Tail(queue) \o Crawlable(targets, page.links)
      /\ queued' = (queued \ {s}) \cup targets
      /\ UNCHANGED <<strategy, phase, level, merged>>
  BY DEF FetchSection, visits
<1>2. level = <<>> /\ level' = <<>> /\ IInv'
  BY <1>1, NoVisits, FetchSectionInv
<1>3. /\ WalkQueue = queue /\ WalkQueued = queued /\ WalkVisited = visited
      /\ WalkQueue' = queue' /\ WalkQueued' = queued' /\ WalkVisited' = visited'
  BY <1>2, NoneUnmergedAfter
<1>4. s \in Sections
  BY <1>1, QueuePops DEF IInv, TypeOK
<1>5. page \in Readings(s)
  BY <1>4, SectionIsPlace, PageOfIsReading
<1> HIDE DEF page
<1>6. \E p \in Walk!Readings(Head(WalkQueue)) :
        LET t == Walk!NewTargets((WalkVisited \cup {Head(WalkQueue)})
                                   \cup (WalkQueued \ {Head(WalkQueue)}),
                                 Head(WalkQueue), p.links)
        IN  /\ WalkVisited' = WalkVisited \cup {Head(WalkQueue)}
            /\ WalkQueue' = Tail(WalkQueue) \o Walk!Crawlable(t, p.links)
            /\ WalkQueued' = (WalkQueued \ {Head(WalkQueue)}) \cup t
            /\ found' = Walk!AppendFiles(found, Head(WalkQueue), p.files)
  BY <1>1, <1>3, <1>5, SameWords
<1>7. ~Walk!Enough
  BY <1>1, <1>3 DEF Walk!Enough, WalkQueue
<1> QED
  BY <1>1, <1>6, <1>7
     DEF Walk!Visit, Over, WalkQueue, WalkQueued, WalkVisited

(* The HTTP crawl returns when nothing is queued.                          *)
LEMMA HttpFinishWalks == IInv /\ HttpFinish => Walk!Return
<1> SUFFICES ASSUME IInv, HttpFinish PROVE Walk!Return
  OBVIOUS
<1>1. /\ phase = "pop" /\ phase' = "done" /\ strategy = "http" /\ queue = <<>>
      /\ UNCHANGED <<strategy, queue, queued, visited, found, level, merged>>
  BY DEF HttpFinish, walk, visits
<1>2. WalkQueue = <<>>
  BY <1>1, NoVisits, NoneUnmerged
<1> QED
  BY <1>1, <1>2 DEF Walk!Return, Walk!Enough, Over, Unmerged, WalkQueue

(* Every step of the two crawls is a step of the walk, or none.            *)
LEMMA WalkNext == IInv /\ [Next]_vars => [Walk!Next]_(Walk!vars)
<1> SUFFICES ASSUME IInv, [Next]_vars PROVE Walk!Next \/ UNCHANGED Walk!vars
  OBVIOUS
<1>1. ASSUME OpenTab \/ StartLevel \/ UNCHANGED vars PROVE Unseen
  <2>1. UNCHANGED <<strategy, walk, level, merged>>
        /\ (phase' = phase \/ (phase = "pop" /\ phase' = "visiting"))
    BY <1>1 DEF OpenTab, StartLevel, LevelPopped, visits, vars
  <2> QED
    BY <2>1, QuietUnseen
<1>2. ASSUME NEW w \in EveryWorker, VisitAction(w) PROVE Unseen
  <2>1. VisitStep
    BY <1>2 DEF VisitAction, Navigates, NavigationFails, Reads, ReadsNothing,
                ReadsEarly, Expands, ExpansionFails, TabCrashes,
                RecoversTab, CannotRecover, CrashesAgain
  <2> QED
    BY <2>1, QuietUnseen DEF VisitStep
<1>3. CASE Unseen
  BY <1>3, UnseenStutters
<1>4. CASE Pop
  BY <1>4, PopUnseen, <1>3
<1>5. CASE OpenCourseTab
  BY <1>5, OpenCourseTabWalks DEF Walk!Next
<1>6. CASE NoCourseTab
  BY <1>6, NoCourseTabWalks DEF Walk!Next
<1>7. CASE Merge
  BY <1>7, MergeWalks DEF Walk!Next
<1>8. CASE Finish
  BY <1>8, FinishWalks DEF Walk!Next
<1>9. CASE HttpFinish
  BY <1>9, HttpFinishWalks DEF Walk!Next
<1>10. ASSUME NEW root \in Answers, NEW group \in Answers, NEW rest \in Answers,
              FetchRoot(root, group, rest)
       PROVE  Walk!Next
  BY <1>10, FetchRootWalks DEF Walk!Next
<1>11. ASSUME NEW body \in Answers, NEW rest \in Answers, NEW prose \in Answers,
              FetchSection(body, rest, prose)
       PROVE  Walk!Next
  BY <1>11, FetchSectionWalks DEF Walk!Next
<1> QED
  BY <1>1, <1>2, <1>3, <1>4, <1>5, <1>6, <1>7, <1>8, <1>9, <1>10, <1>11, Steps

(* The two crawls implement the walk of one section at a time, for every   *)
(* course, any number of workers and tabs, and whatever fails: the         *)
(* concurrent crawl's result does not depend on which tab is faster.       *)
THEOREM CrawlImplementsWalk == Spec => ImplementsCourseWalk
BY WalkInit, InitInv, NextInv, WalkNext, PTL
   DEF Spec, ImplementsCourseWalk, Walk!Spec

-----------------------------------------------------------------------------
(* Only the known losses are missing.                                      *)

(* What a visit owes to a set of files and of links, by how it went: all   *)
(* that the section has if it went well, the first page's rows if a crash  *)
(* cut it short, and these and one more if its list was expanded in part   *)
(* without a warning.                                                      *)
AllOf(how, s) ==
  IF how = "http" THEN [Whole(s) EXCEPT !.files = @ \o Prose[s]] ELSE Whole(s)

Owes(how, s, outcome, files, links) ==
  /\ outcome # "unseen"
  /\ outcome = "read" =>
       /\ ToSet(AllOf(how, s).files) \subseteq files
       /\ ToSet(AllOf(how, s).links) \subseteq links
  /\ how = "browser" =>
       /\ outcome = "cut" =>
            /\ ToSet(First[s].files) \subseteq files
            /\ ToSet(First[s].links) \subseteq links
       /\ outcome = "partial" /\ First[s].files # <<>> =>
            ToSet(First[s].files) \cup {Head(More[s].files)} \subseteq files

(* The visit of a section that was merged: what it owes is in the listing, *)
(* and known to the crawl.                                                 *)
Settled(s) ==
  Owes(strategy, s, fate[s], Listed(found), visited \cup queued)

(* The visit at a place of the level is over: what it owes is in the       *)
(* result it left.                                                         *)
Done(i) ==
  Owes(strategy, level[i], fate[level[i]],
       ToSet(results[i].files), ToSet(results[i].links))

(* Some worker is yet to come to the place.                                *)
Ahead(i) == \E w \in DOMAIN tabs, k \in Nat : i = turn[w] + k * Len(tabs)

(* Each place of the level is done or ahead of a worker, and nothing is    *)
(* merged before all is done.                                              *)
LevelCovered ==
  /\ phase = "visiting" =>
       /\ \A i \in DOMAIN level : Done(i) \/ Ahead(i)
       /\ merged > 0 => AllVisited
  /\ Driving => Len(tabs) \in 1 .. Workers

(* The sections that were visited are settled, but for those of the level  *)
(* that are still to be merged.                                            *)
ToBeMerged(s) == \E i \in DOMAIN level : i > merged /\ level[i] = s
SectionsSettled == \A s \in visited : ToBeMerged(s) \/ Settled(s)

(* The crawl begins with the root.                                         *)
RootFirst ==
  /\ phase \in {"pop", "visiting"} =>
       Root \in visited \/ (visited = {} /\ queue # <<>> /\ Head(queue) = Root)
  /\ phase = "done" => Root \in visited /\ (strategy = "http" => queue = <<>>)

(* What is known as queued is queued, unless it can hold no file.          *)
QueueKept == queued \ NonFile \subseteq ToSet(queue)

(* What the HTTP crawl took from the root page before its loop.            *)
TreeSettled ==
  strategy = "http" /\ phase \in {"pop", "done"} =>
    /\ fate[Root] # "unseen"
    /\ fate[Root] \in {"read", "truncated"} => ToSet(Seed) \subseteq visited \cup queued
    /\ fate[Group] = "read" => ToSet(Content(Group).files) \subseteq Listed(found)

ReportInv ==
  LevelCovered /\ SectionsSettled /\ RootFirst /\ QueueKept /\ TreeSettled

-----------------------------------------------------------------------------
(* Places and workers.                                                     *)

(* Going through the places by the number of workers, from each worker's   *)
(* own number, meets all of them.                                          *)
LEMMA EveryPlaceIsSomebodys ==
  ASSUME NEW n \in Nat \ {0}
  PROVE  \A i \in Nat \ {0} : \E w \in 1 .. n, k \in Nat : i = w + k * n
<1> DEFINE S == {i \in Nat : \E w \in 1 .. n, k \in Nat : i + 1 = w + k * n}
<1>1. 0 \in S
  <2>1. 1 \in 1 .. n /\ 0 \in Nat /\ 0 + 1 = 1 + 0 * n
    OBVIOUS
  <2> QED BY <2>1
<1>2. ASSUME NEW i \in Nat, i \in S PROVE i + 1 \in S
  <2>1. PICK w \in 1 .. n, k \in Nat : i + 1 = w + k * n
    BY <1>2
  <2>2. k * n \in Nat /\ (k + 1) * n = k * n + n
    OBVIOUS
  <2> SUFFICES \E v \in 1 .. n, l \in Nat : (i + 1) + 1 = v + l * n
    OBVIOUS
  <2>3. CASE w < n
    <3>1. w + 1 \in 1 .. n /\ (i + 1) + 1 = (w + 1) + k * n
      BY <2>1, <2>2, <2>3
    <3> QED BY Zenon, <3>1
  <2>4. CASE w = n
    <3>1. 1 \in 1 .. n /\ k + 1 \in Nat /\ (i + 1) + 1 = 1 + (k + 1) * n
      BY <2>1, <2>2, <2>4
    <3> QED BY Zenon, <3>1
  <2> QED BY <2>3, <2>4
<1>3. Nat \subseteq S
  <2> HIDE DEF S
  <2> QED BY <1>1, <1>2, SetInduction
<1> QED
  <2> SUFFICES ASSUME NEW i \in Nat \ {0}
               PROVE  \E w \in 1 .. n, k \in Nat : i = w + k * n
    OBVIOUS
  <2>1. i - 1 \in Nat /\ (i - 1) + 1 = i
    OBVIOUS
  <2>2. i - 1 \in S
    BY <1>3, <2>1
  <2> QED BY <2>1, <2>2

-----------------------------------------------------------------------------
(* What a page adds.                                                       *)

(* A page's files are in the listing once it is added, and nothing leaves. *)
LEMMA ListingGrows ==
  ASSUME NEW f \in Listing, NEW s \in Places, NEW files \in Seq(Files)
  PROVE  Listed(AppendFiles(f, s, files)) = Listed(f) \cup ToSet(files)
<1> DEFINE new == InOrder(ToSet(files) \ Listed(f), files)
           R == [file : Files, section : Places]
           g == FiledUnder(s, new)
<1>1. new \in Seq(Files) /\ ToSet(new) = ToSet(files) \ Listed(f)
  <2>1. new \in Seq(Files) /\ ToSet(new) = (ToSet(files) \ Listed(f)) \cap ToSet(files)
    BY InOrderFacts
  <2> QED BY <2>1
<1> HIDE DEF new
<1>2. /\ g \in Seq(R) /\ DOMAIN g = DOMAIN new
      /\ \A i \in DOMAIN new : g[i].file = new[i]
  <2>1. DOMAIN new = 1 .. Len(new) /\ Len(new) \in Nat
    BY <1>1, LenProperties
  <2>2. \A i \in DOMAIN new : [file |-> new[i], section |-> s] \in R
    BY <1>1, <2>1
  <2> HIDE DEF R
  <2> QED BY <2>1, <2>2 DEF FiledUnder
<1> HIDE DEF g
<1>3. f \in Seq(R) /\ AppendFiles(f, s, files) = f \o g
  BY DEF Listing, AppendFiles, g, new
<1>4. ToSet(f \o g) = ToSet(f) \cup ToSet(g)
  <2> HIDE DEF R
  <2> QED BY <1>2, <1>3, Concatenated
<1>5. \A h : Listed(h) = {x.file : x \in ToSet(h)}
  BY DEF Listed, ToSet
<1>6. Listed(g) = ToSet(new)
  BY <1>2 DEF Listed, ToSet
<1> HIDE DEF R
<1>7. Listed(f \o g) = Listed(f) \cup Listed(g)
  BY <1>4, <1>5
<1> QED BY <1>1, <1>3, <1>6, <1>7

(* The sections it links to are known then, and queued unless they can     *)
(* hold no file.                                                           *)
LEMMA LinksAreKept ==
  ASSUME NEW q \in Seq(Sections), NEW known, NEW seen, known \ NonFile \subseteq ToSet(q),
         NEW s, s \in seen \cup known, Root \in seen \cup known,
         NEW links \in Seq(Sections)
  PROVE  LET targets == NewTargets(seen \cup known, s, links)
         IN  /\ (known \cup targets) \ NonFile \subseteq ToSet(q \o Crawlable(targets, links))
             /\ ToSet(links) \subseteq seen \cup (known \cup targets)
<1> DEFINE targets == NewTargets(seen \cup known, s, links)
           new == Crawlable(targets, links)
<1>1. targets = ToSet(links) \ ((seen \cup known) \cup {s, Root})
  BY DEF NewTargets
<1> HIDE DEF targets
<1>2. new \in Seq(Sections) /\ ToSet(new) = (targets \ NonFile) \cap ToSet(links)
  BY InOrderFacts DEF Crawlable
<1> HIDE DEF new
<1>3. ToSet(q \o new) = ToSet(q) \cup ToSet(new)
  BY <1>2, Concatenated
<1> QED BY <1>1, <1>2, <1>3 DEF targets, new

(* What is owed stays owed and paid while the two sets grow.               *)
LEMMA OwesMore ==
  ASSUME NEW how, NEW s, NEW outcome, NEW files, NEW links, NEW more, NEW others,
         Owes(how, s, outcome, files, links),
         files \subseteq more, links \subseteq others
  PROVE  Owes(how, s, outcome, more, others)
BY DEF Owes

(* A settled section stays so while the listing and what is known grow.    *)
LEMMA StaysSettled ==
  ASSUME NEW s, Settled(s), fate'[s] = fate[s], strategy' = strategy,
         Listed(found) \subseteq Listed(found'),
         visited \cup queued \subseteq visited' \cup queued'
  PROVE  Settled(s)'
<1>1. Owes(strategy, s, fate[s], Listed(found'), visited' \cup queued')
  BY OwesMore DEF Settled
<1>2. Listed(found)' = Listed(found')
  OBVIOUS
<1> QED BY <1>1, <1>2 DEF Settled

(* A list that was expanded beyond the first page's files has kept these,  *)
(* and the first of the others.                                            *)
LEMMA BeyondTheFirstPage ==
  ASSUME NEW S, NEW f \in Seq(S), NEW g \in Seq(S),
         NEW i \in 0 .. Len(f \o g), Len(SubSeq(f \o g, 1, i)) > Len(f)
  PROVE  ToSet(f) \cup {Head(g)} \subseteq ToSet(SubSeq(f \o g, 1, i))
<1> DEFINE all == f \o g
           u == SubSeq(all, 1, i)
<1>1. all \in Seq(S) /\ Len(all) = Len(f) + Len(g)
      /\ (\A k \in 1 .. Len(f) : all[k] = f[k])
      /\ (Len(g) > 0 => all[Len(f) + 1] = g[1] /\ Head(g) = g[1])
  OBVIOUS
<1>2. u \in Seq(S) /\ Len(u) = i /\ DOMAIN u = 1 .. i
      /\ \A k \in 1 .. i : u[k] = all[k]
  BY <1>1
<1>3. i > Len(f) /\ i <= Len(f) + Len(g) /\ Len(f) \in Nat /\ Len(g) \in Nat
      /\ i \in Nat /\ DOMAIN f = 1 .. Len(f)
  BY <1>1, <1>2
<1> HIDE DEF all, u
<1>4. ASSUME NEW k \in DOMAIN f PROVE f[k] \in ToSet(u)
  <2>1. k \in DOMAIN u /\ u[k] = f[k]
    BY <1>1, <1>2, <1>3
  <2> QED BY <2>1 DEF ToSet
<1>5. Head(g) \in ToSet(u)
  <2>1. Len(f) + 1 \in DOMAIN u /\ u[Len(f) + 1] = Head(g)
    BY <1>1, <1>2, <1>3
  <2> QED BY <2>1 DEF ToSet
<1>6. ToSet(f) \subseteq ToSet(u)
  BY <1>4 DEF ToSet
<1> QED BY <1>5, <1>6 DEF u, all

-----------------------------------------------------------------------------
(* Each step keeps the reports complete.                                   *)

LEMMA ReportInit == Init => ReportInv
BY DEF Init, ReportInv, LevelCovered, SectionsSettled, RootFirst, QueueKept,
       TreeSettled, Driving, ToSet

(* The browser's crawl begins, or cannot.                                  *)
LEMMA BeginReports ==
  IInv /\ ReportInv /\ (OpenCourseTab \/ NoCourseTab) => ReportInv'
<1> SUFFICES ASSUME IInv, ReportInv, OpenCourseTab \/ NoCourseTab PROVE ReportInv'
  OBVIOUS
<1>1. visited = {} /\ UNCHANGED visited
  BY DEF OpenCourseTab, NoCourseTab, IInv, InPhase, walk
<1>2. SectionsSettled'
  BY <1>1 DEF SectionsSettled
<1>3. TreeSettled'
  BY DEF OpenCourseTab, NoCourseTab, TreeSettled
<1>4. CASE OpenCourseTab
  <2>1. phase' = "pop" /\ queue' = <<Root>> /\ queued' = {Root} /\ tabs' = <<NewTab>>
    BY <1>4 DEF OpenCourseTab
  <2>2. LevelCovered'
    BY <2>1, BoundsAssumption DEF LevelCovered
  <2>3. RootFirst'
    BY <1>1, <2>1 DEF RootFirst
  <2>4. QueueKept'
    <3>1. DOMAIN <<Root>> = {1} /\ <<Root>>[1] = Root
      OBVIOUS
    <3> QED BY <2>1, <3>1 DEF QueueKept, ToSet
  <2> QED BY <1>2, <1>3, <2>2, <2>3, <2>4 DEF ReportInv
<1>5. CASE NoCourseTab
  BY <1>2, <1>3, <1>5 DEF NoCourseTab, ReportInv, LevelCovered, RootFirst, QueueKept, Driving, walk
<1> QED BY <1>4, <1>5

(* A section is taken for the level: it is to be merged.                   *)
LEMMA PopReports == IInv /\ ReportInv /\ Pop => ReportInv'
<1> SUFFICES ASSUME IInv, ReportInv, Pop PROVE ReportInv'
  OBVIOUS
<1> DEFINE s == Head(queue)
<1>1. /\ strategy = "browser" /\ phase = "pop" /\ queue # <<>>
      /\ queue' = Tail(queue) /\ queued' = queued \ {s}
      /\ visited' = visited \cup {s}
      /\ level' = IF s \in visited THEN level ELSE Append(level, s)
      /\ UNCHANGED <<strategy, phase, found, results, merged, turn, stage,
                     tabs, open, crashed, fate, faults>>
  BY DEF Pop, MoreToPop, pool
<1>2. queue \in Seq(Sections) /\ level \in Seq(Sections) /\ merged = 0
      /\ QueueSound(queue, queued, visited)
  BY <1>1 DEF IInv, TypeOK, InPhase
<1>3. s \in queued /\ s \notin visited /\ ToSet(queue) = {s} \cup ToSet(Tail(queue))
  BY <1>1, <1>2, QueuePops, Popped
<1> HIDE DEF s
<1>4. level' = Append(level, s)
  BY <1>1, <1>3
<1>5. Len(level) \in Nat /\ DOMAIN level = 1 .. Len(level)
      /\ DOMAIN level' = 1 .. Len(level) + 1 /\ level'[Len(level) + 1] = s
      /\ \A i \in DOMAIN level : level'[i] = level[i]
  BY <1>2, <1>4
<1>6. SectionsSettled'
  <2> SUFFICES ASSUME NEW t \in visited' PROVE ToBeMerged(t)' \/ Settled(t)'
    BY DEF SectionsSettled
  <2>1. CASE t = s
    <3>1. Len(level) + 1 \in DOMAIN level' /\ Len(level) + 1 > merged'
      BY <1>1, <1>2, <1>5
    <3> QED BY <1>5, <2>1, <3>1 DEF ToBeMerged
  <2>2. CASE t # s /\ ToBeMerged(t)
    BY <1>1, <1>5, <2>2 DEF ToBeMerged
  <2>3. CASE t # s /\ Settled(t)
    BY <1>1, <1>3, <2>3, StaysSettled
  <2> QED BY <1>1, <2>1, <2>2, <2>3 DEF ReportInv, SectionsSettled
<1>7. RootFirst'
  BY <1>1 DEF ReportInv, RootFirst, s
<1>8. QueueKept'
  BY <1>1, <1>3 DEF ReportInv, QueueKept
<1>9. LevelCovered'
  BY <1>1 DEF ReportInv, LevelCovered, Driving
<1>10. TreeSettled'
  BY <1>1 DEF TreeSettled
<1> QED BY <1>6, <1>7, <1>8, <1>9, <1>10 DEF ReportInv

(* A worker's tab is opened, within the pool's number.                     *)
LEMMA OpenTabReports == IInv /\ ReportInv /\ OpenTab => ReportInv'
<1> SUFFICES ASSUME IInv, ReportInv, OpenTab PROVE ReportInv'
  OBVIOUS
<1>1. /\ strategy = "browser" /\ phase = "pop" /\ Len(tabs) < Workers
      /\ tabs' = Append(tabs, NewTab) /\ NewTab \in TabIds
      /\ UNCHANGED <<strategy, phase, queue, queued, visited, found, level, results,
                     merged, turn, stage, fate>>
  BY NewTabIsNew DEF OpenTab, LevelPopped, WantsTab, walk, visits
<1>2. LevelCovered'
  <2>1. tabs \in Seq(TabIds) /\ Len(tabs) \in 1 .. Workers
    BY <1>1 DEF IInv, TypeOK, ReportInv, LevelCovered, Driving
  <2>2. Len(tabs') = Len(tabs) + 1
    BY <1>1, <2>1
  <2>3. Len(tabs') \in 1 .. Workers
    BY <1>1, <2>1, <2>2, BoundsAssumption
  <2> QED BY <1>1, <2>3 DEF LevelCovered
<1>3. SectionsSettled'
  BY <1>1 DEF ReportInv, SectionsSettled, ToBeMerged, Settled
<1> QED
  BY <1>1, <1>2, <1>3 DEF ReportInv, RootFirst, QueueKept, TreeSettled

(* The workers set out: every place is ahead of one.                       *)
LEMMA StartReports == IInv /\ ReportInv /\ StartLevel => ReportInv'
<1> SUFFICES ASSUME IInv, ReportInv, StartLevel PROVE ReportInv'
  OBVIOUS
<1>1. /\ strategy = "browser" /\ phase = "pop" /\ level # <<>> /\ phase' = "visiting"
      /\ turn' = [w \in EveryWorker |-> w]
      /\ UNCHANGED <<strategy, queue, queued, visited, found, level, merged, tabs, fate>>
  BY DEF StartLevel, LevelPopped, walk, pool
<1>2. level \in Seq(Sections) /\ merged = 0 /\ tabs \in Seq(TabIds)
      /\ Len(tabs) \in 1 .. Workers
  BY <1>1 DEF IInv, TypeOK, InPhase, ReportInv, LevelCovered, Driving
<1>3. DOMAIN tabs = 1 .. Len(tabs) /\ DOMAIN tabs \subseteq EveryWorker
  BY <1>2, BoundsAssumption DEF EveryWorker
<1>4. LevelCovered'
  <2>1. ASSUME NEW i \in DOMAIN level PROVE Ahead(i)'
    <3>1. i \in Nat \ {0} /\ Len(tabs) \in Nat \ {0}
      BY <1>2
    <3>2. PICK w \in 1 .. Len(tabs), k \in Nat : i = w + k * Len(tabs)
      BY <3>1, EveryPlaceIsSomebodys
    <3>3. w \in DOMAIN tabs' /\ turn'[w] = w /\ Len(tabs') = Len(tabs)
      BY <1>1, <1>3
    <3> QED BY Zenon, <3>2, <3>3 DEF Ahead
  <2> QED BY <1>1, <1>2, <2>1 DEF LevelCovered
<1>5. SectionsSettled'
  BY <1>1 DEF ReportInv, SectionsSettled, ToBeMerged, Settled
<1> QED
  BY <1>1, <1>4, <1>5 DEF ReportInv, RootFirst, QueueKept, TreeSettled

(* How a visit ends: with what it owes.                                    *)
Honest(w, page, outcome) ==
  Owes(strategy, Section(w), outcome, ToSet(page.files), ToSet(page.links))

(* An expanded list, whole or in part, is as its fate says.                *)
LEMMA ExpansionIsHonest ==
  ASSUME strategy = "browser", NEW w, Section(w) \in Places,
         NEW page \in Rendered(Whole(Section(w)))
  PROVE  Honest(w, page, ExpandedFate(Section(w), page))
<1> DEFINE s == Section(w)
           outcome == ExpandedFate(s, page)
<1>1. outcome \in {"truncated", "read", "partial"}
  BY DEF ExpandedFate
<1>2. outcome = "read" => page = AllOf(strategy, s)
  BY DEF ExpandedFate, AllOf
<1>3. outcome = "partial" /\ First[s].files # <<>> =>
        ToSet(First[s].files) \cup {Head(More[s].files)} \subseteq ToSet(page.files)
  <2> SUFFICES ASSUME outcome = "partial", First[s].files # <<>>
               PROVE  ToSet(First[s].files) \cup {Head(More[s].files)}
                        \subseteq ToSet(page.files)
    OBVIOUS
  <2>1. /\ First[s].files \in Seq(Files) /\ More[s].files \in Seq(Files)
    BY PlacePages DEF Pages
  <2>2. Whole(s).files = First[s].files \o More[s].files
    BY DEF Whole, Join
  <2>3. PICK i \in 0 .. Len(Whole(s).files) : page.files = SubSeq(Whole(s).files, 1, i)
    BY DEF Rendered
  <2>4. ~(Len(page.files) <= Len(First[s].files))
    BY DEF ExpandedFate
  <2>5. Len(page.files) \in Nat /\ Len(First[s].files) \in Nat
    BY <2>1, <2>2, <2>3
  <2>6. Len(page.files) > Len(First[s].files)
    BY <2>4, <2>5
  <2> HIDE DEF s
  <2> QED BY <2>1, <2>2, <2>3, <2>6, BeyondTheFirstPage
<1> HIDE DEF s, outcome
<1>4. Owes(strategy, s, outcome, ToSet(page.files), ToSet(page.links))
  BY <1>1, <1>2, <1>3 DEF Owes
<1> QED BY <1>4 DEF Honest, s, outcome

LEMMA VisitIsHonest ==
  ASSUME IInv, phase = "visiting", NEW w \in EveryWorker, VisitAction(w)
  PROVE  \/ UNCHANGED <<results, turn, fate>>
         \/ \E page, outcome : EndVisit(w, page, outcome) /\ Honest(w, page, outcome)
<1> DEFINE s == Section(w)
<1>1. s \in Sections
  <2>1. Visiting(w)
    BY DEF VisitAction, Navigates, NavigationFails, Reads, ReadsNothing, Expands,
           ReadsEarly, ExpansionFails, TabCrashes, RecoversTab,
           CannotRecover, CrashesAgain, At, Dead
  <2> QED BY <2>1 DEF IInv, TypeOK, Visiting, Section
<1>2. strategy = "browser"
  BY DEF IInv, InPhase
<1>3. ~Paginated(s) => AllOf(strategy, s) = First[s]
  <2>1. First[s] \in Pages
    BY <1>1, SectionIsPlace, PlacePages
  <2> QED BY <1>2, <2>1, JoinedNothing DEF Paginated, AllOf, Whole
<1> HIDE DEF s
<1>4. \A page : /\ Honest(w, page, "failed") /\ Honest(w, page, "unread")
                /\ Honest(w, page, "truncated") /\ Honest(w, page, "early")
  BY DEF Honest, Owes
<1>5. Honest(w, First[s], "cut")
  BY <1>2 DEF Honest, Owes, s
<1>6. CASE Reads(w)
  <2>1. CASE Paginated(s)
    BY <1>6, <2>1 DEF Reads, GoOn, s
  <2>2. CASE ~Paginated(s)
    <3>1. EndVisit(w, First[s], "read")
      BY <1>6, <2>2 DEF Reads, s
    <3>2. Honest(w, First[s], "read")
      BY <1>3, <2>2 DEF Honest, Owes, s
    <3> QED BY <3>1, <3>2
  <2> QED BY <2>1, <2>2
<1>7. CASE ReadsEarly(w)
  BY <1>4, <1>7 DEF ReadsEarly
<1>8. CASE Expands(w)
  <2>1. PICK page \in Rendered(Whole(s)) : EndVisit(w, page, ExpandedFate(s, page))
    BY <1>8 DEF Expands, s
  <2>2. Honest(w, page, ExpandedFate(s, page))
    BY <1>1, <1>2, <2>1, ExpansionIsHonest, SectionIsPlace DEF s
  <2> QED BY <2>1, <2>2
<1>9. CASE Navigates(w) \/ TabCrashes(w)
  BY <1>9 DEF Navigates, TabCrashes, GoOn
<1>10. CASE NavigationFails(w) \/ RecoversTab(w)
  <2>1. \/ UNCHANGED <<results, turn, fate>>
        \/ EndVisit(w, Blank, "failed") \/ EndVisit(w, First[s], "cut")
    BY <1>10 DEF NavigationFails, RecoversTab, AfterReplacement, GoOn, s
  <2> QED BY <1>4, <1>5, <2>1
<1>11. CASE ReadsNothing(w) \/ CannotRecover(w) \/ CrashesAgain(w)
  <2>1. \/ EndVisit(w, Blank, "unread") \/ EndVisit(w, Blank, "failed")
        \/ EndVisit(w, First[s], "cut")
    BY <1>11 DEF ReadsNothing, CannotRecover, CrashesAgain, s
  <2> QED BY <1>4, <1>5, <2>1
<1>12. CASE ExpansionFails(w)
  BY <1>4, <1>12 DEF ExpansionFails
<1> QED
  BY <1>6, <1>7, <1>8, <1>9, <1>10, <1>11, <1>12 DEF VisitAction

(* A replaced tab takes the place of the crashed one.                      *)
LEMMA SameTabs ==
  ASSUME IInv, NEW w \in EveryWorker, VisitAction(w)
  PROVE  DOMAIN tabs' = DOMAIN tabs /\ Len(tabs') = Len(tabs)
<1>1. UNCHANGED tabs \/ tabs' = [tabs EXCEPT ![w] = NewTab]
  BY DEF VisitAction, Navigates, NavigationFails, Reads, ReadsNothing, Expands,
         ReadsEarly, ExpansionFails, TabCrashes, RecoversTab,
         CannotRecover, CrashesAgain, ReplaceTab, pool
<1>2. tabs' \in Seq(TabIds)
  <2>1. IInv'
    BY VisitInv
  <2> QED BY <2>1 DEF IInv, TypeOK
<1>3. tabs \in Seq(TabIds) /\ DOMAIN tabs' = DOMAIN tabs
  BY <1>1 DEF IInv, TypeOK
<1> QED BY <1>2, <1>3

(* A step of a visit: a place that is left is done.                        *)
LEMMA VisitReports ==
  ASSUME IInv, ReportInv, NEW w \in EveryWorker, VisitAction(w)
  PROVE  ReportInv'
<1>1. /\ phase = "visiting" /\ Visiting(w) /\ strategy = "browser"
      /\ UNCHANGED <<strategy, phase, queue, queued, visited, found, level, merged>>
  BY DEF VisitAction, Navigates, NavigationFails, Reads, ReadsNothing, Expands,
         ReadsEarly, ExpansionFails, TabCrashes, RecoversTab, CannotRecover,
         CrashesAgain, At, Dead, Visiting, VisitStep, walk, IInv, InPhase
<1>2. w \in DOMAIN tabs /\ turn[w] \in DOMAIN level /\ turn[w] \in Nat
      /\ level \in Seq(Sections) /\ DOMAIN level = 1 .. Len(level)
      /\ results \in Seq(Pages) /\ Len(results) = Len(level)
      /\ fate \in [Places -> Fates] /\ turn \in [EveryWorker -> Nat]
      /\ IsInjective(level) /\ tabs \in Seq(TabIds)
  BY <1>1 DEF Visiting, IInv, TypeOK, LevelTaken
<1>3. merged = 0
  <2>1. ~AllVisited
    BY <1>2 DEF AllVisited
  <2>2. merged \in 0 .. Len(level)
    BY DEF IInv, TypeOK
  <2> QED BY <1>1, <1>2, <2>1, <2>2 DEF ReportInv, LevelCovered
<1>4. DOMAIN tabs' = DOMAIN tabs /\ Len(tabs') = Len(tabs) /\ Len(tabs) \in Nat
  BY <1>2, SameTabs
<1>5. CASE UNCHANGED <<results, turn, fate>>
  <2>0. \A j \in DOMAIN level : (Done(j) => Done(j)') /\ (Ahead(j) => Ahead(j)')
    BY <1>1, <1>4, <1>5 DEF Done, Ahead
  <2>1. LevelCovered'
    BY <1>1, <1>3, <1>4, <2>0 DEF ReportInv, LevelCovered, Driving
  <2>2. SectionsSettled'
    BY <1>1, <1>5 DEF ReportInv, SectionsSettled, ToBeMerged, Settled
  <2> QED
    BY <1>1, <2>1, <2>2 DEF ReportInv, RootFirst, QueueKept, TreeSettled
<1>6. ASSUME NEW page, NEW outcome, EndVisit(w, page, outcome), Honest(w, page, outcome)
      PROVE  ReportInv'
  <2> DEFINE i == turn[w]
             s == level[i]
  <2>1. /\ results' = [results EXCEPT ![i] = page]
        /\ fate' = [fate EXCEPT ![s] = outcome]
        /\ turn' = [turn EXCEPT ![w] = @ + Len(tabs)]
    BY <1>6 DEF EndVisit, Section
  <2>2. s \in Places /\ i \in DOMAIN results
    BY <1>2, SectionIsPlace
  <2>3. fate'[s] = outcome /\ results'[i] = page
    BY <1>2, <2>1, <2>2
  <2>4. \A j \in DOMAIN level : j # i =>
          level[j] # s /\ fate'[level[j]] = fate[level[j]] /\ results'[j] = results[j]
    BY <1>2, <2>1, <2>2 DEF IsInjective
  <2>5. turn'[w] = i + Len(tabs) /\ \A v \in DOMAIN tabs : v # w => turn'[v] = turn[v]
    BY <1>2, <2>1
  <2>6. Section(w) = s
    BY DEF Section
  <2> HIDE DEF i, s
  <2>7. ASSUME NEW j \in DOMAIN level PROVE Done(j)' \/ Ahead(j)'
    <3>1. CASE j = i
      <4>1. level'[j] = s
        BY <1>1, <3>1 DEF s
      <4> QED BY <1>1, <1>6, <2>3, <2>6, <3>1, <4>1 DEF Done, Honest
    <3>2. CASE j # i /\ Done(j)
      <4>1. level'[j] = level[j] /\ fate'[level'[j]] = fate[level[j]]
            /\ results'[j] = results[j]
        BY <1>1, <2>4, <3>2
      <4> QED BY <1>1, <3>2, <4>1 DEF Done
    <3>3. CASE j # i /\ Ahead(j)
      <4>1. PICK v \in DOMAIN tabs, k \in Nat : j = turn[v] + k * Len(tabs)
        BY <3>3 DEF Ahead
      <4>2. CASE v # w
        <5>1. v \in DOMAIN tabs' /\ j = turn'[v] + k * Len(tabs')
          BY <1>4, <2>5, <4>1, <4>2
        <5> QED BY Zenon, <5>1 DEF Ahead
      <4>3. CASE v = w
        <5>0. j = i + k * Len(tabs) /\ i \in Nat
          BY <1>2, <4>1, <4>3 DEF i
        <5>1. k # 0
          <6>1. 0 * Len(tabs) = 0
            BY <1>4
          <6> QED BY <3>3, <5>0, <6>1
        <5>2. k - 1 \in Nat /\ k * Len(tabs) = Len(tabs) + (k - 1) * Len(tabs)
              /\ (k - 1) * Len(tabs) \in Nat
          BY <1>4, <5>1
        <5>3. j = turn'[w] + (k - 1) * Len(tabs')
          <6>1. turn'[w] = i + Len(tabs) /\ Len(tabs') = Len(tabs)
            BY <1>4, <2>5
          <6>2. \A m, n \in Nat : i + (m + n) = (i + m) + n
            BY <5>0
          <6> QED BY <1>4, <5>0, <5>2, <6>1, <6>2
        <5>4. w \in DOMAIN tabs'
          BY <1>2, <1>4
        <5> QED BY Zenon, <5>2, <5>3, <5>4 DEF Ahead
      <4> QED BY <4>2, <4>3
    <3> QED BY <1>1, <3>1, <3>2, <3>3 DEF ReportInv, LevelCovered
  <2>8. LevelCovered'
    BY <1>1, <1>3, <1>4, <2>7 DEF ReportInv, LevelCovered, Driving
  <2>9. SectionsSettled'
    <3> SUFFICES ASSUME NEW t \in visited PROVE ToBeMerged(t)' \/ Settled(t)'
      BY <1>1 DEF SectionsSettled
    <3>1. CASE ToBeMerged(t)
      BY <1>1, <3>1 DEF ToBeMerged
    <3>2. CASE ~ToBeMerged(t) /\ Settled(t)
      <4>1. t # s
        BY <1>2, <1>3, <3>2 DEF ToBeMerged, s, i
      <4>2. fate'[t] = fate[t]
        BY <1>2, <2>1, <4>1
      <4> QED BY <1>1, <3>2, <4>2, StaysSettled
    <3> QED BY <3>1, <3>2 DEF ReportInv, SectionsSettled
  <2> QED
    BY <1>1, <2>8, <2>9 DEF ReportInv, RootFirst, QueueKept, TreeSettled
<1> QED
  BY <1>1, <1>5, <1>6, VisitIsHonest

(* A page of the level is merged: its section is settled.                  *)
LEMMA MergeReports == IInv /\ ReportInv /\ Merge => ReportInv'
<1> SUFFICES ASSUME IInv, ReportInv, Merge PROVE ReportInv'
  OBVIOUS
<1> DEFINE i == merged + 1
           s == level[i]
           page == results[i]
           targets == NewTargets(visited \cup queued, s, page.links)
<1>1. /\ phase = "visiting" /\ strategy = "browser" /\ AllVisited
      /\ found' = AppendFiles(found, s, page.files)
      /\ queue' = queue \o Crawlable(targets, page.links)
      /\ queued' = queued \cup targets
      /\ UNCHANGED <<strategy, visited, turn, tabs, fate>>
  BY DEF Merge, Merges, Absorb, pool, IInv, InPhase
<1>2. \/ i < Len(level) /\ merged' = i /\ UNCHANGED <<phase, level, results>>
      \/ i >= Len(level) /\ level' = <<>> /\ phase' = "pop" /\ merged' = 0
  <2>1. merged \in Nat /\ Len(level) \in Nat
    BY DEF IInv, TypeOK
  <2> QED BY <2>1 DEF Merge, LevelEnds
<1>3. /\ level \in Seq(Sections) /\ results \in Seq(Pages) /\ Len(results) = Len(level)
      /\ merged \in Nat /\ merged < Len(level) /\ queue \in Seq(Sections)
      /\ found \in Listing /\ turn \in [EveryWorker -> Nat] /\ tabs \in Seq(TabIds)
      /\ ToSet(level) \subseteq visited /\ Len(tabs) \in 1 .. Workers
  BY <1>1 DEF IInv, TypeOK, InPhase, LevelTaken, Listing, ReportInv, LevelCovered, Driving
<1>4. i \in DOMAIN level /\ s \in Sections /\ page \in Pages /\ s \in visited
  BY <1>3 DEF ToSet
<1>5. page.links \in Seq(Sections) /\ page.files \in Seq(Files)
  BY <1>4 DEF Pages
<1>6. Root \in visited
  BY <1>1, <1>4 DEF ReportInv, RootFirst
<1>7. Done(i)
  <2>1. ASSUME NEW w \in DOMAIN tabs, NEW k \in Nat, i = turn[w] + k * Len(tabs)
        PROVE  FALSE
    <3>1. w \in EveryWorker /\ turn[w] \in Nat /\ turn[w] > Len(level)
      BY <1>1, <1>3, BoundsAssumption DEF AllVisited, EveryWorker
    <3>2. k * Len(tabs) \in Nat
      BY <1>3
    <3> QED BY <1>3, <2>1, <3>1, <3>2
  <2>2. ~Ahead(i)
    BY <2>1 DEF Ahead
  <2> QED BY <1>1, <1>4, <2>2 DEF ReportInv, LevelCovered
<1>8. Owes(strategy, s, fate[s], ToSet(page.files), ToSet(page.links))
  BY <1>7 DEF Done
<1> HIDE DEF i
<1>9. Listed(found') = Listed(found) \cup ToSet(page.files)
  BY <1>1, <1>3, <1>4, <1>5, SectionIsPlace, ListingGrows
<1>10. /\ queued' \ NonFile \subseteq ToSet(queue')
       /\ ToSet(page.links) \subseteq visited \cup queued'
  <2>1. queued \ NonFile \subseteq ToSet(queue)
    BY DEF ReportInv, QueueKept
  <2> HIDE DEF s, page
  <2> QED BY <1>1, <1>3, <1>4, <1>5, <1>6, <2>1, LinksAreKept
<1>11. SectionsSettled'
  <2> SUFFICES ASSUME NEW t \in visited PROVE ToBeMerged(t)' \/ Settled(t)'
    BY <1>1 DEF SectionsSettled
  <2>1. CASE Settled(t)
    BY <1>1, <1>9, <2>1, StaysSettled
  <2>2. CASE t = s
    <3>1. Listed(found)' = Listed(found')
      OBVIOUS
    <3> HIDE DEF s, page
    <3>2. Owes(strategy, s, fate[s], Listed(found'), visited \cup queued')
      BY <1>8, <1>9, <1>10, OwesMore
    <3> QED BY <1>1, <2>2, <3>1, <3>2 DEF Settled
  <2>3. CASE ToBeMerged(t) /\ t # s
    <3>1. PICK j \in DOMAIN level : j > merged /\ level[j] = t
      BY <2>3 DEF ToBeMerged
    <3>2. j # i /\ j \in 1 .. Len(level)
      BY <1>3, <2>3, <3>1
    <3>3. j > i /\ i < Len(level)
      BY <1>3, <3>1, <3>2 DEF i
    <3>4. level' = level /\ merged' = i
      BY <1>2, <1>3, <3>3 DEF i
    <3> QED BY <3>1, <3>3, <3>4 DEF ToBeMerged
  <2> QED BY <2>1, <2>2, <2>3 DEF ReportInv, SectionsSettled
<1>12. LevelCovered'
  <2>1. Driving' => Len(tabs') \in 1 .. Workers
    BY <1>1, <1>3
  <2>2. CASE phase' = "pop"
    BY <2>1, <2>2 DEF LevelCovered
  <2>3. CASE UNCHANGED <<phase, level, results>>
    BY <1>1, <2>1, <2>3 DEF ReportInv, LevelCovered, Done, Ahead, AllVisited
  <2> QED BY <1>2, <2>2, <2>3
<1>13. RootFirst' /\ QueueKept' /\ TreeSettled'
  BY <1>1, <1>2, <1>6, <1>10 DEF RootFirst, QueueKept, TreeSettled
<1> QED BY <1>11, <1>12, <1>13 DEF ReportInv

(* The crawls return; the browser's not before the root was visited.       *)
LEMMA EndReports ==
  IInv /\ ReportInv /\ (Finish \/ HttpFinish) => ReportInv'
<1> SUFFICES ASSUME IInv, ReportInv, Finish \/ HttpFinish PROVE ReportInv'
  OBVIOUS
<1>1. /\ phase = "pop" /\ phase' \in {"error", "done"}
      /\ strategy = "browser" => ~MoreToPop
      /\ strategy = "http" => queue = <<>>
      /\ UNCHANGED <<strategy, queue, queued, visited, found, level, results,
                     merged, turn, fate>>
  BY DEF Finish, HttpFinish, walk, visits
<1>2. strategy \in {"browser", "http"}
  BY DEF IInv, TypeOK
<1>3. Root \in visited
  <2> SUFFICES ASSUME visited = {}, queue # <<>> PROVE FALSE
    BY <1>1 DEF ReportInv, RootFirst
  <2>1. Cardinality(visited) = 0
    BY FS_EmptySet
  <2> QED BY <1>1, <1>2, <2>1, BoundsAssumption DEF MoreToPop
<1>4. RootFirst'
  BY <1>1, <1>3 DEF RootFirst
<1>5. LevelCovered'
  BY <1>1 DEF LevelCovered, Driving
<1>6. SectionsSettled'
  BY <1>1 DEF ReportInv, SectionsSettled, ToBeMerged, Settled
<1> QED
  BY <1>1, <1>4, <1>5, <1>6 DEF ReportInv, QueueKept, TreeSettled, Content

-----------------------------------------------------------------------------
(* The HTTP crawl.                                                         *)

(* An answer of "read" says that every part there is was answered with a   *)
(* page, and then the page is all that the place has.                      *)
LEMMA ReadMeansAll ==
  ASSUME NEW s \in Places, strategy = "http",
         NEW body \in Answers, NEW rest \in Answers, NEW prose \in Answers,
         FateOf(PartsOf(s, body, rest, prose)) = "read"
  PROVE  body = "page" /\ PageOf(s, body, rest, prose) = Content(s)
<1> DEFINE parts == PartsOf(s, body, rest, prose)
<1>1. /\ body \in parts
      /\ Paginated(s) => rest \in parts
      /\ Prose[s] # <<>> => prose \in parts
  BY DEF PartsOf
<1>2. "login" \notin parts /\ "error" \notin parts
  <2> HIDE DEF parts
  <2>1. FateOf(parts) = "read"
    BY DEF parts
  <2> QED BY <2>1 DEF FateOf
<1> HIDE DEF parts
<1>3. /\ body = "page"
      /\ Paginated(s) => rest = "page"
      /\ Prose[s] # <<>> => prose = "page"
  BY <1>1, <1>2 DEF Answers
<1>4. (IF rest = "page" THEN More[s] ELSE Blank) = More[s]
  BY <1>3 DEF Paginated
<1>5. (IF prose = "page" THEN Prose[s] ELSE <<>>) = Prose[s]
  BY <1>3
<1>6. PageOf(s, body, rest, prose) = Shown(s, More[s], Prose[s])
  BY <1>3, <1>4, <1>5 DEF PageOf
<1>7. Content(s) = Shown(s, More[s], Prose[s])
  BY DEF Content, Shown, Whole
<1> QED BY <1>3, <1>6, <1>7

(* The HTTP crawl begins: with the tree, if the root page was shown.       *)
LEMMA FetchRootReports ==
  ASSUME IInv, ReportInv, NEW root \in Answers, NEW group \in Answers,
         NEW rest \in Answers, FetchRoot(root, group, rest)
  PROVE  ReportInv'
<1>1. /\ strategy = "http" /\ phase = "start"
      /\ UNCHANGED <<strategy, visited, level, results, merged, turn, tabs>>
      /\ visited = {} /\ found = <<>>
  BY DEF FetchRoot, walk, visits, pool, IInv, InPhase
<1>2. SectionsSettled' /\ LevelCovered'
  BY <1>1 DEF FetchRoot, SectionsSettled, LevelCovered, Driving
<1>3. CASE root = "error"
  BY <1>1, <1>2, <1>3 DEF FetchRoot, walk, ReportInv, RootFirst, QueueKept, TreeSettled
<1>4. CASE root = "login"
  <2>1. /\ phase' = "pop" /\ queue' = <<Root>> /\ queued' = {Root}
        /\ fate' = [fate EXCEPT ![Root] = "cut", ![Group] = "cut"]
    BY <1>4 DEF FetchRoot, FateOf
  <2>2. fate'[Root] = "cut" /\ fate'[Group] = "cut"
    BY <2>1, SectionsAssumption DEF IInv, TypeOK, Places
  <2>3. ToSet(<<Root>>) = {Root}
    <3>1. DOMAIN <<Root>> = {1} /\ <<Root>>[1] = Root
      OBVIOUS
    <3> QED BY <3>1 DEF ToSet
  <2>4. TreeSettled'
    BY <1>1, <2>1, <2>2 DEF TreeSettled
  <2>5. RootFirst' /\ QueueKept'
    BY <1>1, <2>1, <2>3 DEF RootFirst, QueueKept
  <2> QED BY <1>2, <2>4, <2>5 DEF ReportInv
<1>5. CASE root = "page"
  <2> DEFINE folder == PartsOf(Group, group, rest, "page")
             page == PageOf(Group, group, rest, "page")
             new == Crawlable(TreeTargets, Seed)
             one == <<Root>>
  <2>1. /\ phase' = "pop" /\ queue' = one \o new /\ queued' = {Root} \cup TreeTargets
        /\ fate' = [fate EXCEPT ![Root] = FateOf({root}),
                                ![Group] = FateOf({root} \cup folder)]
        /\ found' = AppendFiles(<<>>, Group, page.files)
    BY <1>5 DEF FetchRoot, TreeQueue, TreeQueued
  <2>2. Root # Group /\ Root \in Places /\ Group \in Places /\ Root \in Sections
        /\ Seed \in Seq(Sections)
    BY SectionsAssumption, PagesAssumption DEF Places
  <2>3. fate'[Root] = "read" /\ fate'[Group] = FateOf({root} \cup folder)
    BY <1>5, <2>1, <2>2 DEF IInv, TypeOK, FateOf
  <2>4. TreeTargets = ToSet(Seed) \ {Root}
    BY DEF TreeTargets, NewTargets
  <2>5. new \in Seq(Sections) /\ ToSet(new) = (TreeTargets \ NonFile) \cap ToSet(Seed)
    BY <2>2, InOrderFacts DEF Crawlable
  <2>6. one \in Seq(Sections) /\ DOMAIN one = {1} /\ one[1] = Root /\ one # <<>>
    BY <2>2
  <2>7. ToSet(one) = {Root}
    BY <2>6 DEF ToSet
  <2> HIDE DEF one, new
  <2>8. /\ ToSet(one \o new) = {Root} \cup ToSet(new)
        /\ one \o new # <<>> /\ Head(one \o new) = Root
    <3>1. ToSet(one \o new) = ToSet(one) \cup ToSet(new)
      BY <2>5, <2>6, Concatenated
    <3>2. one \o new # <<>> /\ Head(one \o new) = Head(one) /\ Head(one) = Root
      BY <2>5, <2>6
    <3> QED BY <2>7, <3>1, <3>2
  <2>9. RootFirst' /\ QueueKept'
    BY <1>1, <2>1, <2>4, <2>5, <2>8 DEF RootFirst, QueueKept
  <2>10. fate'[Group] = "read" => ToSet(Content(Group).files) \subseteq Listed(found')
    <3> SUFFICES ASSUME fate'[Group] = "read"
                 PROVE  ToSet(Content(Group).files) \subseteq Listed(found')
      OBVIOUS
    <3>1. FateOf(folder) = "read"
      <4>1. FateOf({root} \cup folder) = "read"
        BY <2>3
      <4> HIDE DEF folder
      <4> QED BY <4>1 DEF FateOf
    <3>2. "page" \in Answers
      BY DEF Answers
    <3>3. page = Content(Group)
      BY <1>1, <2>2, <3>1, <3>2, ReadMeansAll
    <3>4. page \in Pages
      BY <2>2, PageOfIsReading, ReadingFacts
    <3> HIDE DEF page
    <3>5. page.files \in Seq(Files) /\ <<>> \in Listing
      BY <3>4 DEF Pages, Listing
    <3>6. Listed(found') = Listed(<<>>) \cup ToSet(page.files)
      BY <2>1, <2>2, <3>5, ListingGrows
    <3> QED BY <3>3, <3>6
  <2>11. TreeSettled'
    <3>1. Content(Group)' = Content(Group) /\ Listed(found)' = Listed(found')
      BY <1>1 DEF Content
    <3>2. ToSet(Seed) \subseteq visited' \cup queued'
      BY <2>1, <2>4
    <3> QED BY <2>3, <2>10, <3>1, <3>2 DEF TreeSettled
  <2> QED BY <1>2, <2>9, <2>11 DEF ReportInv
<1> QED BY <1>3, <1>4, <1>5 DEF Answers

(* One turn of its loop: the section that was fetched is settled.          *)
LEMMA FetchSectionReports ==
  ASSUME IInv, ReportInv, NEW body \in Answers, NEW rest \in Answers,
         NEW prose \in Answers, FetchSection(body, rest, prose)
  PROVE  ReportInv'
<1> DEFINE s == Head(queue)
           parts == PartsOf(s, body, rest, prose)
           now == visited \cup {s}
           left == queued \ {s}
           page == PageOf(s, body, rest, prose)
           targets == NewTargets(now \cup left, s, page.links)
           new == IF body = "error" THEN "failed" ELSE FateOf(parts)
<1>1. /\ strategy = "http" /\ phase = "pop" /\ queue # <<>>
      /\ visited' = now
      /\ found' = AppendFiles(found, s, page.files)
      /\ queue' = Tail(queue) \o Crawlable(targets, page.links)
      /\ queued' = left \cup targets
      /\ fate' = [fate EXCEPT ![s] = Worse(@, new)]
      /\ UNCHANGED <<strategy, phase, level, results, merged, turn, tabs>>
  BY DEF FetchSection, visits, pool
<1>2. /\ queue \in Seq(Sections) /\ QueueSound(queue, queued, visited)
      /\ fate \in [Places -> Fates] /\ found \in Listing /\ level = <<>> /\ merged = 0
  BY <1>1, NoVisits DEF IInv, TypeOK, Listing
<1>3. /\ s \in Sections /\ s \in Places /\ s # Group /\ s \in queued
      /\ Tail(queue) \in Seq(Sections) /\ s \notin visited
      /\ ToSet(queue) = {s} \cup ToSet(Tail(queue))
  BY <1>1, <1>2, QueuePops, Popped, SectionIsPlace, SectionsAssumption
<1>4. page \in Pages
  BY <1>3, PageOfIsReading, ReadingFacts
<1>5. new \in {"failed", "cut", "truncated", "read"}
  BY DEF FateOf
<1>6. new = "read" => page = Content(s)
  <2> SUFFICES ASSUME new = "read" PROVE page = Content(s)
    OBVIOUS
  <2>1. FateOf(parts) = "read"
    OBVIOUS
  <2> QED BY <1>1, <1>3, <2>1, ReadMeansAll
<1> HIDE DEF new, page, s, parts
<1>7. page.links \in Seq(Sections) /\ page.files \in Seq(Files)
  BY <1>4 DEF Pages
<1>8. Root \in now
  BY <1>1 DEF ReportInv, RootFirst, s
<1>9. Listed(found') = Listed(found) \cup ToSet(page.files)
  BY <1>1, <1>2, <1>3, <1>7, ListingGrows
<1>10. /\ queued' \ NonFile \subseteq ToSet(queue')
       /\ ToSet(page.links) \subseteq visited' \cup queued'
  <2>1. left \ NonFile \subseteq ToSet(Tail(queue))
    BY <1>3 DEF ReportInv, QueueKept
  <2>2. s \in now \cup left /\ Root \in now \cup left
    BY <1>8
  <2> HIDE DEF now, left
  <2> QED BY <1>1, <1>3, <1>7, <2>1, <2>2, LinksAreKept
<1>11. visited \cup queued \subseteq visited' \cup queued'
  BY <1>1, <1>3
<1>12. /\ fate'[s] = Worse(fate[s], new)
       /\ \A t \in Places \ {s} : fate'[t] = fate[t]
  BY <1>1, <1>2, <1>3
<1>13. fate'[s] # "unseen" /\ (fate'[s] = "read" => new = "read")
  BY <1>5, <1>12 DEF Worse
<1>14. SectionsSettled'
  <2> SUFFICES ASSUME NEW t \in now PROVE Settled(t)'
    BY <1>1 DEF SectionsSettled
  <2>1. CASE t = s
    <3>1. Listed(found)' = Listed(found')
      OBVIOUS
    <3>2. AllOf(strategy, s) = Content(s)
      BY DEF AllOf, Content
    <3>3. Owes(strategy, s, fate'[s], Listed(found'), visited' \cup queued')
      BY <1>1, <1>6, <1>9, <1>10, <1>13, <3>2 DEF Owes
    <3> QED BY <1>1, <2>1, <3>1, <3>3 DEF Settled
  <2>2. CASE t # s
    <3>1. t \in visited /\ t \in Sections /\ fate'[t] = fate[t]
      BY <1>12, <2>2, SectionIsPlace DEF IInv, TypeOK
    <3>2. ~ToBeMerged(t)
      BY <1>2 DEF ToBeMerged
    <3>3. Settled(t)
      BY <3>1, <3>2 DEF ReportInv, SectionsSettled
    <3> QED BY <1>1, <1>9, <1>11, <3>1, <3>3, StaysSettled
  <2> QED BY <2>1, <2>2
<1>15. TreeSettled'
  <2>1. Content(Group)' = Content(Group) /\ Listed(found)' = Listed(found')
    BY <1>1 DEF Content
  <2>2. fate'[Group] = fate[Group]
    BY <1>3, <1>12, SectionIsPlace
  <2>3. fate'[Root] # "unseen"
        /\ (fate'[Root] \in {"read", "truncated"} => fate[Root] \in {"read", "truncated"})
    <3>1. fate[Root] # "unseen"
      BY <1>1 DEF ReportInv, TreeSettled
    <3>2. CASE s = Root
      BY <1>12, <1>13, <3>1, <3>2 DEF Worse
    <3>3. CASE s # Root
      BY <1>12, <3>1, <3>3, SectionsAssumption, SectionIsPlace
    <3> QED BY <3>2, <3>3
  <2> QED
    BY <1>1, <1>9, <1>11, <2>1, <2>2, <2>3 DEF ReportInv, TreeSettled
<1>16. RootFirst'
  BY <1>1, <1>8 DEF RootFirst
<1>17. QueueKept' /\ LevelCovered'
  BY <1>1, <1>10 DEF QueueKept, LevelCovered, Driving
<1> QED BY <1>14, <1>15, <1>16, <1>17 DEF ReportInv

-----------------------------------------------------------------------------

LEMMA ReportNext == IInv /\ ReportInv /\ [Next]_vars => ReportInv'
<1> SUFFICES ASSUME IInv, ReportInv, [Next]_vars PROVE ReportInv'
  OBVIOUS
<1>1. CASE UNCHANGED vars
  BY <1>1 DEF vars, walk, visits, pool, ReportInv, LevelCovered, SectionsSettled,
              RootFirst, QueueKept, TreeSettled, Done, Ahead, AllVisited, Driving,
              ToBeMerged, Settled, Content
<1>2. ASSUME NEW w \in EveryWorker, VisitAction(w) PROVE ReportInv'
  BY <1>2, VisitReports
<1>3. ASSUME NEW root \in Answers, NEW group \in Answers, NEW rest \in Answers,
             FetchRoot(root, group, rest)
      PROVE  ReportInv'
  BY <1>3, FetchRootReports
<1>4. ASSUME NEW body \in Answers, NEW rest \in Answers, NEW prose \in Answers,
             FetchSection(body, rest, prose)
      PROVE  ReportInv'
  BY <1>4, FetchSectionReports
<1> QED
  BY <1>1, <1>2, <1>3, <1>4, Steps, BeginReports, PopReports, OpenTabReports,
     StartReports, MergeReports, EndReports

(* Of a course only the known losses are missing: what a visit read of a   *)
(* section is in the listing or accounted for, for every course, any       *)
(* number of workers, any cap and any faults.                              *)
THEOREM OnlyKnownLossesOccur == Spec => []OnlyKnownLosses
<1>1. IInv /\ ReportInv => OnlyKnownLosses
  <2> SUFFICES ASSUME IInv, ReportInv, phase = "done" PROVE OnlyKnownLosses
    BY DEF OnlyKnownLosses
  <2>1. level = <<>>
    BY DEF IInv, InPhase
  <2>2. \A s \in visited : Settled(s)
    BY <2>1 DEF ReportInv, SectionsSettled, ToBeMerged
  <2>3. visited \cup queued \subseteq Accounted
    BY DEF ReportInv, QueueKept, Accounted
  <2>4. \A s \in visited : KeptOfVisit(s)
    <3>1. \A s : AllOf(strategy, s) = Content(s)
      BY DEF AllOf, Content
    <3> QED BY <2>2, <2>3, <3>1 DEF Settled, Owes, KeptOfVisit, BringsBack
  <2>5. Root \in visited /\ (strategy = "http" => queue = <<>>)
    BY DEF ReportInv, RootFirst
  <2> QED
    BY <2>3, <2>4, <2>5 DEF ReportInv, TreeSettled, OnlyKnownLosses
<1> QED
  BY <1>1, InitInv, NextInv, ReportInit, ReportNext, PTL DEF Spec

=============================================================================
