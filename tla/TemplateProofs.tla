--------------------------- MODULE TemplateProofs ---------------------------
(***************************************************************************)
(* Templates and their chains.                                             *)
(*                                                                         *)
(* TemplateChain: what findAllUpgradePaths computes, and that the walk of  *)
(* a service along its routes leaves no hop out, for any chain.            *)
(*                                                                         *)
(* TemplateCatalog: types, and that templates and charts in use stay, for  *)
(* any templates, chains and clusters.                                     *)
(***************************************************************************)
EXTENDS TemplateChain, TemplateCatalog, FiniteSetTheorems, FunctionTheorems, SequenceTheorems,
        NaturalsInduction, WellFoundedInduction, TLAPS

-----------------------------------------------------------------------------
(* The search.  Its closure is a recursive function.  What it computes is  *)
(* guessed in closed form (Found); the guess satisfies the recursion, and  *)
(* nothing else does, since every call has visited one template more.      *)

(* The arguments of the closure: a template, the path to it, and what is   *)
(* visited.                                                                *)
Calls == Templates \X Seq(Templates) \X SUBSET Templates

(* One call of the closure, with f for the calls it makes.                 *)
Visit(ch, f, call) ==
    IF call[1] \in call[3] \/ call[1] \notin DOMAIN ch
    THEN {}
    ELSE UNION { {Append(call[2], u)}
                   \union f[<<u, Append(call[2], u), call[3] \union {call[1]}>>]
                 : u \in ch[call[1]] \ ToSet(call[2]) }

(* What a call is expected to return: the routes that begin with path, go  *)
(* on from t along the chain, and leave no template twice nor one that is  *)
(* visited.                                                                *)
From(t, n, p, i) == IF i = n + 1 THEN t ELSE p[i - 1]

GoesOn(ch, t, n, visited, p) ==
    \A i \in n + 1 .. Len(p) :
       /\ From(t, n, p, i) \in DOMAIN ch \ visited
       /\ p[i] \in ch[From(t, n, p, i)]
       /\ \A j \in 1 .. i - 1 : p[j] # p[i]
       /\ \A j \in n + 1 .. i - 1 : From(t, n, p, j) # From(t, n, p, i)

Found(ch, call) ==
    {p \in Seq(Templates) :
       /\ Len(call[2]) < Len(p)
       /\ \A i \in 1 .. Len(call[2]) : p[i] = call[2][i]
       /\ GoesOn(ch, call[1], Len(call[2]), call[3], p)}

LEMMA Extended ==
    ASSUME NEW path \in Seq(Templates), NEW u \in Templates
    PROVE  /\ Append(path, u) \in Seq(Templates)
           /\ Len(path) \in Nat /\ Len(Append(path, u)) = Len(path) + 1
           /\ \A i \in 1 .. Len(path) : Append(path, u)[i] = path[i]
           /\ Append(path, u)[Len(path) + 1] = u
           /\ u \in ToSet(path) <=> \E i \in 1 .. Len(path) : path[i] = u
  <1>1. DOMAIN path = 1 .. Len(path)
      OBVIOUS
  <1> QED BY <1>1 DEF ToSet

(* A route that begins with path and is one longer is path extended.       *)
LEMMA OneLonger ==
    ASSUME NEW path \in Seq(Templates), NEW p \in Seq(Templates),
           Len(p) = Len(path) + 1, \A i \in 1 .. Len(path) : p[i] = path[i]
    PROVE  p = Append(path, p[Len(p)])
  <1>1. p[Len(p)] \in Templates /\ Len(path) \in Nat
      OBVIOUS
  <1>2. /\ Append(path, p[Len(p)]) \in Seq(Templates)
        /\ Len(Append(path, p[Len(p)])) = Len(p)
        /\ \A i \in 1 .. Len(p) : Append(path, p[Len(p)])[i] = p[i]
      BY <1>1, Extended
  <1> QED BY <1>2, SeqEqual

(* The first step of a route that goes on from t, and the rest.            *)
LEMMA FirstStep ==
    ASSUME NEW ch, NEW t \in Templates, NEW path \in Seq(Templates),
           NEW visited \in SUBSET Templates, t \in DOMAIN ch, t \notin visited,
           NEW p \in Found(ch, <<t, path, visited>>)
    PROVE  \E u \in ch[t] \ ToSet(path) :
              \/ p = Append(path, u)
              \/ p \in Found(ch, <<u, Append(path, u), visited \union {t}>>)
  <1> DEFINE n == Len(path)
             u == p[n + 1]
             q == Append(path, u)
  <1>1. /\ p \in Seq(Templates) /\ n < Len(p) /\ n \in Nat /\ Len(p) \in Nat
        /\ \A i \in 1 .. n : p[i] = path[i]
        /\ GoesOn(ch, t, n, visited, p)
      BY DEF Found
  <1>2. u \in Templates /\ n + 1 \in 1 .. Len(p)
      BY <1>1
  <1>3. /\ q \in Seq(Templates) /\ Len(q) = n + 1 /\ q[n + 1] = u
        /\ \A i \in 1 .. n : q[i] = path[i]
        /\ u \in ToSet(path) <=> \E i \in 1 .. n : path[i] = u
      BY <1>2, Extended
  <1>4. u \in ch[t] /\ u \notin ToSet(path)
      BY <1>1, <1>2, <1>3 DEF GoesOn, From
  <1>5. CASE Len(p) = n + 1
    <2>1. p = q
        BY <1>1, <1>5, OneLonger
    <2> QED BY <1>4, <2>1
  <1>6. CASE Len(p) # n + 1
    <2>1. n + 1 < Len(p) /\ \A i \in 1 .. n + 1 : p[i] = q[i]
        BY <1>1, <1>3, <1>6
    <2>2. \A i \in n + 2 .. Len(p) : From(u, n + 1, p, i) = From(t, n, p, i)
        BY <1>1, <1>2 DEF From
    <2>3. From(t, n, p, n + 1) = t
        BY DEF From
    <2>4. ASSUME NEW i \in n + 2 .. Len(p)
          PROVE  /\ From(t, n, p, i) \in DOMAIN ch \ (visited \union {t})
                 /\ p[i] \in ch[From(t, n, p, i)]
                 /\ \A j \in 1 .. i - 1 : p[j] # p[i]
                 /\ \A j \in n + 2 .. i - 1 : From(t, n, p, j) # From(t, n, p, i)
      <3>1. i \in n + 1 .. Len(p) /\ n + 1 \in n + 1 .. i - 1
          BY <1>1
      <3>2. /\ From(t, n, p, i) \in DOMAIN ch \ visited
            /\ p[i] \in ch[From(t, n, p, i)]
            /\ \A j \in 1 .. i - 1 : p[j] # p[i]
            /\ \A j \in n + 1 .. i - 1 : From(t, n, p, j) # From(t, n, p, i)
          BY <1>1, <3>1 DEF GoesOn
      <3>3. \A j \in n + 2 .. i - 1 : j \in n + 1 .. i - 1
          BY <1>1
      <3> HIDE DEF n
      <3> QED BY <2>3, <3>1, <3>2, <3>3
    <2>5. \A i \in n + 2 .. Len(p) : \A j \in n + 2 .. i - 1 : j \in n + 2 .. Len(p)
        BY <1>1
    <2>6. GoesOn(ch, u, n + 1, visited \union {t}, p)
      <3>1. (n + 1) + 1 = n + 2
          BY <1>1
      <3> HIDE DEF n, u
      <3> QED BY <2>2, <2>4, <2>5, <3>1 DEF GoesOn
    <2>7. p \in Found(ch, <<u, q, visited \union {t}>>)
        BY <1>1, <1>3, <2>1, <2>6 DEF Found
    <2> QED BY <1>4, <2>7
  <1> QED BY <1>5, <1>6

LEMMA StepsOfChains ==
    ASSUME NEW ch \in SupportedTemplates, NEW t \in DOMAIN ch
    PROVE  t \in Templates /\ ch[t] \subseteq Templates
  BY DEF SupportedTemplates

LEMMA FirstStepBack ==
    ASSUME NEW ch \in SupportedTemplates, NEW t \in Templates, NEW path \in Seq(Templates),
           NEW visited \in SUBSET Templates, t \in DOMAIN ch, t \notin visited,
           NEW u \in ch[t] \ ToSet(path), NEW p,
           \/ p = Append(path, u)
           \/ p \in Found(ch, <<u, Append(path, u), visited \union {t}>>)
    PROVE  p \in Found(ch, <<t, path, visited>>)
  <1> DEFINE n == Len(path)
             q == Append(path, u)
  <1>0. u \in Templates /\ n \in Nat
      BY StepsOfChains
  <1>1. /\ q \in Seq(Templates) /\ Len(q) = n + 1 /\ q[n + 1] = u
        /\ \A i \in 1 .. n : q[i] = path[i]
        /\ \A i \in 1 .. n : path[i] # u
      BY <1>0, Extended
  <1>2. /\ p \in Seq(Templates) /\ n < Len(p) /\ Len(p) \in Nat /\ p[n + 1] = u
        /\ \A i \in 1 .. n : p[i] = path[i]
      BY <1>0, <1>1 DEF Found
  <1>3. From(t, n, p, n + 1) = t /\ \A j \in 1 .. n : p[j] # p[n + 1]
      BY <1>1, <1>2 DEF From
  <1>4. ASSUME NEW i \in n + 2 .. Len(p)
        PROVE  /\ From(t, n, p, i) \in DOMAIN ch \ visited
               /\ p[i] \in ch[From(t, n, p, i)]
               /\ \A j \in 1 .. i - 1 : p[j] # p[i]
               /\ \A j \in n + 1 .. i - 1 : From(t, n, p, j) # From(t, n, p, i)
    <2>1. GoesOn(ch, u, n + 1, visited \union {t}, p)
        BY <1>0, <1>1, <1>2 DEF Found
    <2>2. \A j \in n + 2 .. Len(p) : From(u, n + 1, p, j) = From(t, n, p, j)
        BY <1>0, <1>2 DEF From
    <2>3. /\ From(u, n + 1, p, i) \in DOMAIN ch \ (visited \union {t})
          /\ p[i] \in ch[From(u, n + 1, p, i)]
          /\ \A j \in 1 .. i - 1 : p[j] # p[i]
          /\ \A j \in n + 2 .. i - 1 : From(u, n + 1, p, j) # From(u, n + 1, p, i)
      <3>1. (n + 1) + 1 = n + 2
          BY <1>0
      <3> HIDE DEF n
      <3> QED BY <2>1, <3>1 DEF GoesOn
    <2>4. \A j \in n + 1 .. i - 1 : j = n + 1 \/ j \in n + 2 .. i - 1
        BY <1>0
    <2>5. \A j \in n + 2 .. i - 1 : j \in n + 2 .. Len(p)
        BY <1>0, <1>2
    <2> HIDE DEF n
    <2> QED BY <1>3, <2>2, <2>3, <2>4, <2>5
  <1>5. \A i \in n + 1 .. Len(p) : i = n + 1 \/ i \in n + 2 .. Len(p)
      BY <1>0, <1>2
  <1>6. (n + 1) - 1 = n /\ n + 1 .. n = {}
      BY <1>0
  <1>7. GoesOn(ch, t, n, visited, p)
    <2> HIDE DEF n
    <2> QED BY <1>2, <1>3, <1>4, <1>5, <1>6 DEF GoesOn
  <1> QED BY <1>2, <1>7 DEF Found

(* What the calls are expected to return satisfies the recursion ...       *)
LEMMA FoundByVisits ==
    ASSUME NEW ch \in SupportedTemplates, NEW call \in Calls,
           NEW f, \A u \in Templates : call[1] \in Templates =>
                    f[<<u, Append(call[2], u), call[3] \union {call[1]}>>] =
                      Found(ch, <<u, Append(call[2], u), call[3] \union {call[1]}>>)
    PROVE  Visit(ch, f, call) = Found(ch, call)
  <1> DEFINE t == call[1]
             path == call[2]
             visited == call[3]
  <1>1. /\ t \in Templates /\ path \in Seq(Templates) /\ visited \in SUBSET Templates
        /\ call = <<t, path, visited>>
      BY DEF Calls
  <1>2. CASE t \in visited \/ t \notin DOMAIN ch
    <2>1. Visit(ch, f, call) = {}
        BY <1>2 DEF Visit
    <2>2. ASSUME NEW p \in Found(ch, call) PROVE FALSE
      <3>1. /\ p \in Seq(Templates) /\ Len(path) < Len(p) /\ Len(path) \in Nat
            /\ GoesOn(ch, t, Len(path), visited, p)
          BY <1>1 DEF Found
      <3>2. Len(path) + 1 \in Len(path) + 1 .. Len(p)
          BY <3>1
      <3> QED BY <1>2, <3>1, <3>2 DEF GoesOn, From
    <2> QED BY <2>1, <2>2
  <1>3. CASE t \notin visited /\ t \in DOMAIN ch
    <2>1. Visit(ch, f, call) =
            UNION { {Append(path, u)} \union f[<<u, Append(path, u), visited \union {t}>>]
                    : u \in ch[t] \ ToSet(path) }
        BY <1>3 DEF Visit
    <2>2. \A u \in ch[t] :
            f[<<u, Append(path, u), visited \union {t}>>] =
              Found(ch, <<u, Append(path, u), visited \union {t}>>)
        BY <1>1, <1>3, StepsOfChains
    <2>3. ASSUME NEW p \in Visit(ch, f, call) PROVE p \in Found(ch, call)
      <3>1. PICK u \in ch[t] \ ToSet(path) :
              p \in {Append(path, u)} \union f[<<u, Append(path, u), visited \union {t}>>]
          BY <2>1, <2>3
      <3> HIDE DEF t, path, visited
      <3> QED BY <1>1, <1>3, <2>2, <3>1, FirstStepBack
    <2>4. ASSUME NEW p \in Found(ch, call) PROVE p \in Visit(ch, f, call)
      <3>1. p \in Found(ch, <<t, path, visited>>)
          BY <1>1, <2>4
      <3>2. PICK u \in ch[t] \ ToSet(path) :
              \/ p = Append(path, u)
              \/ p \in Found(ch, <<u, Append(path, u), visited \union {t}>>)
        <4> HIDE DEF t, path, visited
        <4> QED BY <1>1, <1>3, <3>1, FirstStep
      <3>3. p \in {Append(path, u)} \union f[<<u, Append(path, u), visited \union {t}>>]
        <4> HIDE DEF t, path, visited
        <4> QED BY <2>2, <3>2
      <3> HIDE DEF t, path, visited
      <3> QED BY <2>1, <3>2, <3>3
    <2> QED BY <2>3, <2>4
  <1> QED BY <1>2, <1>3

LEMMA NextCall ==
    ASSUME NEW call \in Calls, NEW u \in Templates
    PROVE  <<u, Append(call[2], u), call[3] \union {call[1]}>> \in Calls
  <1>1. /\ call[1] \in Templates
        /\ call[2] \in Seq(Templates)
        /\ call[3] \in SUBSET Templates
      BY DEF Calls
  <1>2. Append(call[2], u) \in Seq(Templates)
      BY <1>1
  <1>3. call[3] \union {call[1]} \in SUBSET Templates
      BY <1>1
  <1> QED BY <1>2, <1>3 DEF Calls

(* ... and, since every call visits one template more, nothing else does.  *)
LEMMA OnlyFound ==
    ASSUME NEW ch \in SupportedTemplates, NEW f, f = [call \in Calls |-> Visit(ch, f, call)]
    PROVE  \A call \in Calls : f[call] = Found(ch, call)
  <1> DEFINE Unvisited(call) == Cardinality(Templates \ call[3])
             Wrong == {call \in Calls : f[call] # Found(ch, call)}
             T == {Unvisited(call) : call \in Wrong}
             R == OpToRel(<, Nat)
  <1> SUFFICES ASSUME Wrong # {} PROVE FALSE
      OBVIOUS
  <1>1. \A call \in Calls : IsFiniteSet(Templates \ call[3]) /\ Unvisited(call) \in Nat
      BY ChainsAssumption, FS_Difference, FS_CardinalityType
  <1>2. T \subseteq Nat /\ T # {}
      BY <1>1
  <1>3. IsWellFoundedOn(R, Nat)
      BY NatLessThanWellFounded, Zenon
  <1>4. R = {ss \in Nat \X Nat : ss[1] < ss[2]}
      BY Zenon DEF OpToRel
  <1>5. PICK x \in T : \A y \in T : <<y, x>> \notin R
    <2> HIDE DEF R, T
    <2> QED BY <1>2, <1>3, WFMin
  <1>6. PICK call \in Wrong : x = Unvisited(call)
      OBVIOUS
  <1>7. \A c \in Wrong : ~(Unvisited(c) < Unvisited(call))
    <2>1. \A c \in Wrong : Unvisited(c) \in T
        OBVIOUS
    <2> HIDE DEF T, Wrong, Unvisited, R
    <2> QED BY <1>2, <1>4, <1>5, <1>6, <2>1
  <1>8. CASE call[1] \in call[3]
    <2>1. Visit(ch, f, call) = {}
        BY <1>8 DEF Visit
    <2>2. Visit(ch, [c \in Calls |-> Found(ch, c)], call) = {}
        BY <1>8 DEF Visit
    <2>3. Visit(ch, [c \in Calls |-> Found(ch, c)], call) = Found(ch, call)
        BY NextCall, FoundByVisits
    <2> QED BY <1>6, <2>1, <2>2, <2>3
  <1>9. CASE call[1] \notin call[3]
    <2>1. ASSUME NEW u \in Templates
          PROVE  f[<<u, Append(call[2], u), call[3] \union {call[1]}>>] =
                   Found(ch, <<u, Append(call[2], u), call[3] \union {call[1]}>>)
      <3> DEFINE c == <<u, Append(call[2], u), call[3] \union {call[1]}>>
      <3>1. c \in Calls /\ call[1] \in Templates /\ c[3] = call[3] \union {call[1]}
          BY NextCall DEF Calls
      <3>2. /\ Templates \ c[3] = (Templates \ call[3]) \ {call[1]}
            /\ call[1] \in Templates \ call[3]
          BY <1>9, <3>1
      <3>3. Unvisited(c) < Unvisited(call)
        <4> DEFINE left == Templates \ call[3]
        <4>1. IsFiniteSet(left) /\ Cardinality(left) \in Nat
            BY <1>1
        <4>2. Cardinality(left \ {call[1]}) = Cardinality(left) - 1
          <5>1. call[1] \in left
              BY <3>2
          <5> HIDE DEF left
          <5> QED BY <4>1, <5>1, FS_RemoveElement
        <4>3. Templates \ c[3] = left \ {call[1]}
            BY <3>2
        <4> HIDE DEF left, c
        <4>4. Cardinality(left \ {call[1]}) < Cardinality(left)
            BY <4>1, <4>2
        <4> QED BY <4>3, <4>4 DEF left
      <3>5. c \notin Wrong
          BY <1>7, <3>3
      <3> QED BY <3>1, <3>5
    <2>2. Visit(ch, f, call) = Found(ch, call)
        BY <2>1, FoundByVisits
    <2> QED BY <1>6, <2>2
  <1> QED BY <1>8, <1>9

(* The search of findAllUpgradePaths, for every chain.                     *)
LEMMA SearchFinds ==
    ASSUME NEW ch \in SupportedTemplates, NEW t \in Templates
    PROVE  FindAllUpgradePaths(ch, t) = Found(ch, <<t, <<>>, {}>>)
  <1> DEFINE g == [call \in Calls |-> Found(ch, call)]
  <1>1. FindPaths(ch) = CHOOSE f : f = [call \in Calls |-> Visit(ch, f, call)]
      BY DEF FindPaths, Calls, Visit
  <1>2. g = [call \in Calls |-> Visit(ch, g, call)]
    <2>1. ASSUME NEW call \in Calls PROVE Visit(ch, g, call) = Found(ch, call)
        BY NextCall, FoundByVisits
    <2> QED BY <2>1
  <1>3. FindPaths(ch) = [call \in Calls |-> Visit(ch, FindPaths(ch), call)]
    <2> HIDE DEF g
    <2> QED BY <1>1, <1>2, Zenon
  <1>4. <<t, <<>>, {}>> \in Calls
    <2>1. <<>> \in Seq(Templates) /\ {} \in SUBSET Templates
        OBVIOUS
    <2> QED BY <2>1 DEF Calls
  <1> QED BY <1>3, <1>4, OnlyFound DEF FindAllUpgradePaths

(* A route, position by position.                                          *)
Way(ch, t, p) ==
    /\ p \in Seq(Templates) /\ Len(p) \in Nat \ {0}
    /\ \A i, j \in 1 .. Len(p) : p[i] = p[j] => i = j
    /\ \A i \in 1 .. Len(p) : /\ From(t, 0, p, i) \in DOMAIN ch
                              /\ p[i] \in ch[From(t, 0, p, i)]
                              /\ p[i] = t => i = Len(p)

(* Without a template twice a route is no longer than there are templates. *)
LEMMA Short ==
    ASSUME NEW p \in Seq(Templates), \A i, j \in 1 .. Len(p) : p[i] = p[j] => i = j
    PROVE  Len(p) \in Nat /\ Len(p) <= Cardinality(Templates)
  <1>1. Len(p) \in Nat /\ p \in [1 .. Len(p) -> Templates]
      OBVIOUS
  <1>2. p \in Injection(1 .. Len(p), Templates)
      BY <1>1, Fun_IsInj
  <1>3. Cardinality(1 .. Len(p)) <= Cardinality(Templates)
      BY <1>2, ChainsAssumption, FS_Injection
  <1>4. Cardinality(1 .. Len(p)) = Len(p)
      BY <1>1, FS_Interval
  <1> QED BY <1>1, <1>3, <1>4

LEMMA RoutesAreWays ==
    ASSUME NEW ch, NEW t, NEW p
    PROVE  p \in Routes(ch, t) <=> Way(ch, t, p)
  <1> DEFINE N == Cardinality(Templates)
  <1>0. N \in Nat
      BY ChainsAssumption, FS_CardinalityType
  <1>1. ASSUME p \in Routes(ch, t) PROVE Way(ch, t, p)
    <2>1. PICK m \in 0 .. N : p \in [1 .. m -> Templates]
        BY <1>1, <1>0 DEF Routes, BoundedSeq, SeqOf
    <2>2. p \in Seq(Templates) /\ Len(p) = m /\ DOMAIN p = 1 .. m
        BY <1>0, <2>1
    <2>3. Len(p) # 0
        BY <1>1, <2>2 DEF Routes
    <2> QED
        BY <1>1, <1>0, <2>2, <2>3 DEF Routes, Route, IsInjective, Way, From
  <1>2. ASSUME Way(ch, t, p) PROVE p \in Routes(ch, t)
    <2>1. /\ p \in Seq(Templates) /\ Len(p) \in Nat \ {0} /\ Len(p) <= N
          /\ DOMAIN p = 1 .. Len(p) /\ p \in [1 .. Len(p) -> Templates]
        BY <1>2, Short DEF Way
    <2>2. p \in BoundedSeq(Templates, N) /\ p # <<>>
        BY <1>0, <2>1 DEF BoundedSeq, SeqOf
    <2>3. IsInjective(p)
        BY <1>2, <2>1 DEF IsInjective, Way
    <2>4. \A i \in DOMAIN p : From(t, 0, p, i) = IF i = 1 THEN t ELSE p[i - 1]
        BY <2>1 DEF From
    <2>5. Route(ch, t, p)
        BY <1>2, <2>1, <2>3, <2>4 DEF Route, Way
    <2> QED BY <2>2, <2>5 DEF Routes
  <1> QED BY <1>1, <1>2

(* findAllUpgradePaths finds the routes and nothing else.                  *)
LEMMA SearchIsRight ==
    ASSUME NEW ch \in SupportedTemplates, NEW t \in Templates
    PROVE  FindAllUpgradePaths(ch, t) = Routes(ch, t)
  <1>1. Len(<<>>) = 0 /\ 1 .. 0 = {}
      OBVIOUS
  <1>2. ASSUME NEW p \in Found(ch, <<t, <<>>, {}>>) PROVE Way(ch, t, p)
    <2>1. p \in Seq(Templates) /\ Len(p) \in Nat /\ 0 < Len(p) /\ GoesOn(ch, t, 0, {}, p)
        BY <1>2, <1>1 DEF Found
    <2>2. ASSUME NEW i \in 1 .. Len(p)
          PROVE  /\ From(t, 0, p, i) \in DOMAIN ch /\ p[i] \in ch[From(t, 0, p, i)]
                 /\ \A j \in 1 .. i - 1 : p[j] # p[i]
                 /\ \A j \in 1 .. i - 1 : From(t, 0, p, j) # From(t, 0, p, i)
      <3>1. i \in 0 + 1 .. Len(p) /\ 0 + 1 = 1
          OBVIOUS
      <3> QED BY <2>1, <3>1 DEF GoesOn
    <2>3. ASSUME NEW i \in 1 .. Len(p), NEW j \in 1 .. Len(p), p[i] = p[j] PROVE i = j
      <3>1. i < j => i \in 1 .. j - 1
          BY <2>1
      <3>2. j < i => j \in 1 .. i - 1
          BY <2>1
      <3> QED BY <2>1, <2>2, <2>3, <3>1, <3>2
    <2>4. ASSUME NEW i \in 1 .. Len(p), p[i] = t, i # Len(p) PROVE FALSE
      <3>1. i + 1 \in 1 .. Len(p) /\ 1 \in 1 .. (i + 1) - 1
          BY <2>1, <2>4
      <3>2. From(t, 0, p, 1) # From(t, 0, p, i + 1)
          BY <2>2, <3>1
      <3>3. From(t, 0, p, 1) = t /\ From(t, 0, p, i + 1) = p[i]
          BY <2>1 DEF From
      <3> QED BY <2>4, <3>2, <3>3
    <2> QED BY <2>1, <2>2, <2>3, <2>4 DEF Way
  <1>3. ASSUME NEW p, Way(ch, t, p) PROVE p \in Found(ch, <<t, <<>>, {}>>)
    <2>1. p \in Seq(Templates) /\ Len(p) \in Nat \ {0}
        BY <1>3 DEF Way
    <2>2. ASSUME NEW i \in 1 .. Len(p), NEW j \in 1 .. i - 1
          PROVE  p[j] # p[i] /\ From(t, 0, p, j) # From(t, 0, p, i)
      <3>1. j \in 1 .. Len(p) /\ j # i /\ i # 1 /\ i - 1 \in 1 .. Len(p) /\ i - 1 # Len(p)
          BY <2>1
      <3>2. p[j] # p[i] /\ p[i - 1] # t
          BY <1>3, <3>1 DEF Way
      <3>3. From(t, 0, p, i) = p[i - 1]
          BY <3>1 DEF From
      <3>4. CASE j = 1
          BY <3>2, <3>3, <3>4 DEF From
      <3>5. CASE j # 1
        <4>1. From(t, 0, p, j) = p[j - 1] /\ j - 1 \in 1 .. Len(p) /\ j - 1 # i - 1
            BY <2>1, <3>1, <3>5 DEF From
        <4>2. p[j - 1] # p[i - 1]
            BY <1>3, <3>1, <4>1 DEF Way
        <4> QED BY <3>2, <3>3, <4>1, <4>2
      <3> QED BY <3>4, <3>5
    <2>3. GoesOn(ch, t, 0, {}, p)
        BY <1>3, <2>1, <2>2 DEF GoesOn, Way
    <2> QED BY <1>1, <2>1, <2>3 DEF Found
  <1>4. FindAllUpgradePaths(ch, t) = Found(ch, <<t, <<>>, {}>>)
      BY SearchFinds
  <1> HIDE DEF FindAllUpgradePaths
  <1> QED BY <1>2, <1>3, <1>4, RoutesAreWays

-----------------------------------------------------------------------------
(* The walk *)

(* The position of a template that a route has.                            *)
LEMMA PositionOf ==
    ASSUME NEW p \in Seq(Templates), NEW d \in ToSet(p),
           \A i, j \in 1 .. Len(p) : p[i] = p[j] => i = j
    PROVE  Position(p, d) \in 1 .. Len(p) /\ p[Position(p, d)] = d
  <1>1. DOMAIN p = 1 .. Len(p) /\ Len(p) \in Nat
      OBVIOUS
  <1>2. PICK i \in 1 .. Len(p) : p[i] = d
      BY <1>1 DEF ToSet
  <1>3. \A j \in 1 .. (i - 1) : p[j] # d
    <2> SUFFICES ASSUME NEW j \in 1 .. (i - 1), p[j] = d PROVE FALSE
        OBVIOUS
    <2>1. j \in 1 .. Len(p) /\ j # i
        BY <1>1
    <2> QED BY <1>2, <2>1
  <1>4. i \in DOMAIN p /\ p[i] = d /\ \A j \in 1 .. (i - 1) : p[j] # d
      BY <1>1, <1>2, <1>3
  <1>5. Position(p, d) \in DOMAIN p /\ p[Position(p, d)] = d
      BY <1>4, Zenon DEF Position
  <1> QED BY <1>1, <1>5

(* What UpgradePaths returns are routes, for every destination one of the  *)
(* longest.                                                                *)
LEMMA LongestKept ==
    ASSUME NEW ch \in SupportedTemplates, NEW t \in Templates,
           NEW routes \in UpgradePaths(ch, t)
    PROVE  /\ routes \subseteq Routes(ch, t)
           /\ \A q \in Routes(ch, t) : \E r \in routes : Last(r) = Last(q) /\ Len(q) <= Len(r)
  <1> DEFINE all == Routes(ch, t)
             dests == {Last(p) : p \in all}
             To(d) == {p \in all : Last(p) = d}
  <1>0. FindAllUpgradePaths(ch, t) = all
      BY SearchIsRight
  <1>1. PICK f \in [dests -> all] :
          /\ routes = {f[d] : d \in dests}
          /\ \A d \in dests : f[d] \in To(d) /\ \A q \in To(d) : Len(q) <= Len(f[d])
    <2> HIDE DEF FindAllUpgradePaths
    <2> QED BY <1>0 DEF UpgradePaths
  <1> HIDE DEF FindAllUpgradePaths, all
  <1>2. routes \subseteq all
      BY <1>1
  <1>3. ASSUME NEW q \in all PROVE \E r \in routes : Last(r) = Last(q) /\ Len(q) <= Len(r)
    <2>1. Last(q) \in dests /\ q \in To(Last(q))
        OBVIOUS
    <2> QED BY <1>1, <2>1
  <1> QED BY <1>2, <1>3 DEF all

(* nextUpgradeStep returns the first template of a route that reaches des  *)
(* no earlier than any other route does.                                   *)
LEMMA HopOf ==
    ASSUME NEW ch \in SupportedTemplates, NEW t \in Templates,
           NEW routes \in UpgradePaths(ch, t),
           NEW des, des # t, NEW h \in NextUpgradeStep(routes, t, des)
    PROVE  \E r \in Routes(ch, t), k \in Nat :
             /\ k \in 1 .. Len(r) /\ r[k] = des /\ h = r[1]
             /\ \A q \in Routes(ch, t) : Last(q) = des => Len(q) <= k
  <1> DEFINE useful == {r \in routes : des \in ToSet(r)}
             Target(r) == Position(r, des)
             Behind(r) == SubSeq(r, 1, Target(r) - 1)
  <1>1. PICK r \in useful :
          /\ \A q \in useful : Target(q) <= Target(r)
          /\ h = r[IF t \in ToSet(Behind(r)) THEN Position(Behind(r), t) + 1 ELSE 1]
      BY DEF NextUpgradeStep
  <1>2. \A q \in useful : q \in Routes(ch, t) /\ Way(ch, t, q)
      BY LongestKept, RoutesAreWays
  <1>3. \A q \in useful : Target(q) \in 1 .. Len(q) /\ q[Target(q)] = des
      BY <1>2, PositionOf DEF Way
  <1>4. t \notin ToSet(Behind(r))
    <2> DEFINE k == Target(r)
               b == Behind(r)
    <2>1. Way(ch, t, r) /\ k \in 1 .. Len(r) /\ Len(r) \in Nat
        BY <1>2, <1>3 DEF Way
    <2>2. \A i \in 1 .. k - 1 : i \in 1 .. Len(r) /\ i # Len(r) /\ r[i] \in Templates
        BY <2>1 DEF Way
    <2>3. /\ b \in Seq(Templates) /\ Len(b) = k - 1
          /\ \A i \in 1 .. k - 1 : b[i] = r[i]
      <3>1. b = SubSeq(r, 1, k - 1)
          OBVIOUS
      <3> HIDE DEF k, b
      <3> QED BY <2>1, <2>2, <3>1, SubSeqProperties
    <2>4. DOMAIN b = 1 .. k - 1
        BY <2>3
    <2> SUFFICES ASSUME t \in ToSet(b) PROVE FALSE
        OBVIOUS
    <2> HIDE DEF k, b
    <2>5. PICK i \in 1 .. k - 1 : b[i] = t
        BY <2>4 DEF ToSet
    <2> QED BY <2>1, <2>2, <2>3, <2>5 DEF Way
  <1>5. h = r[1]
      BY <1>1, <1>4
  <1>6. ASSUME NEW q \in Routes(ch, t), Last(q) = des PROVE Len(q) <= Target(r)
    <2>1. PICK p \in routes : Last(p) = des /\ Len(q) <= Len(p)
        BY <1>6, LongestKept
    <2>2. Way(ch, t, p)
        BY LongestKept, RoutesAreWays
    <2>3. /\ p \in Seq(Templates) /\ Len(p) \in Nat \ {0} /\ p[Len(p)] = des
          /\ DOMAIN p = 1 .. Len(p) /\ Len(p) \in 1 .. Len(p)
        BY <2>1, <2>2 DEF Way, Last
    <2>4. p \in useful
        BY <2>3 DEF ToSet
    <2>5. Target(p) = Len(p)
      <3>1. Target(p) \in 1 .. Len(p) /\ p[Target(p)] = des
          BY <1>3, <2>4
      <3> HIDE DEF Target
      <3> QED BY <2>2, <2>3, <3>1 DEF Way
    <2>6. Target(p) <= Target(r)
        BY <1>1, <2>4
    <2>7. Len(q) \in Nat /\ Target(r) \in Nat
        BY <1>2, <1>3, RoutesAreWays DEF Way
    <2> HIDE DEF Target
    <2> QED BY <2>1, <2>3, <2>5, <2>6, <2>7
  <1>7. Target(r) \in Nat /\ r \in Routes(ch, t)
      BY <1>2, <1>3 DEF Way
  <1> HIDE DEF Target, useful
  <1> QED BY <1>1, <1>3, <1>5, <1>6, <1>7

(* The rest of a route, up to a template on it, is a route.                *)
LEMMA RestOf ==
    ASSUME NEW ch \in SupportedTemplates, NEW t, NEW r \in Routes(ch, t),
           NEW k \in 2 .. Len(r)
    PROVE  \E p \in Routes(ch, r[1]) : Len(p) = k - 1 /\ Last(p) = r[k]
  <1> DEFINE p == SubSeq(r, 2, k)
  <1>1. Way(ch, t, r) /\ r \in Seq(Templates) /\ Len(r) \in Nat
      BY RoutesAreWays DEF Way
  <1>2. /\ p \in Seq(Templates) /\ Len(p) = k - 1 /\ k - 1 \in Nat \ {0}
        /\ \A i \in 1 .. k - 1 : p[i] = r[i + 1] /\ i + 1 \in 1 .. Len(r)
      BY <1>1
  <1> HIDE DEF p
  <1>3. ASSUME NEW i \in 1 .. Len(p), NEW j \in 1 .. Len(p), p[i] = p[j] PROVE i = j
    <2>1. r[i + 1] = r[j + 1]
        BY <1>2, <1>3
    <2>2. i + 1 = j + 1
        BY <1>1, <1>2, <2>1 DEF Way
    <2> QED BY <1>2, <2>2
  <1>4. ASSUME NEW i \in 1 .. Len(p)
        PROVE  /\ From(r[1], 0, p, i) \in DOMAIN ch /\ p[i] \in ch[From(r[1], 0, p, i)]
               /\ p[i] # r[1]
    <2>1. p[i] = r[i + 1] /\ i + 1 \in 1 .. Len(r)
        BY <1>2
    <2>2. From(r[1], 0, p, i) = r[i]
      <3>1. CASE i = 1
          BY <3>1 DEF From
      <3>2. CASE i # 1
        <4>1. i - 1 \in 1 .. k - 1 /\ (i - 1) + 1 = i
            BY <1>2, <3>2
        <4> QED BY <1>2, <3>2, <4>1 DEF From
      <3> QED BY <3>1, <3>2
    <2>3. From(t, 0, r, i + 1) = r[i]
        BY <1>2 DEF From
    <2>4. 1 \in 1 .. Len(r) /\ i + 1 # 1
        BY <1>1, <1>2
    <2> QED BY <1>1, <2>1, <2>2, <2>3, <2>4 DEF Way
  <1>5. Way(ch, r[1], p)
      BY <1>2, <1>3, <1>4 DEF Way
  <1>6. Last(p) = r[k]
    <2>1. k - 1 \in 1 .. k - 1 /\ (k - 1) + 1 = k
        BY <1>2
    <2> QED BY <1>2, <2>1 DEF Last
  <1> QED BY <1>2, <1>5, <1>6, RoutesAreWays

(* As long as the walk is under way there is a route left that, with the   *)
(* hops taken, is as long as any from the start.                           *)
NothingSkipped ==
    start # desired =>
      \A q \in Routes(supported, start) :
         Last(q) = desired =>
           IF current = desired
           THEN Len(q) <= taken
           ELSE \E p \in Routes(supported, current) :
                   Last(p) = desired /\ Len(q) <= taken + Len(p)

WalkIInv == WalkTypeOK /\ NothingSkipped

LEMMA ChainTypes ==
    ASSUME WalkTypeOK
    PROVE  supported \in SupportedTemplates /\ DOMAIN supported \subseteq Templates
  BY ChainsAssumption DEF WalkTypeOK, SupportedTemplates

LEMMA HopTaken ==
    ASSUME WalkIInv, TakeHop
    PROVE  WalkIInv'
  <1>0. /\ WalkTypeOK /\ NothingSkipped
        /\ supported \in SupportedTemplates /\ current \in Templates
        /\ current # desired /\ UNCHANGED <<supported, start, desired>>
      BY ChainTypes DEF WalkIInv, WalkTypeOK, TakeHop
  <1>1. PICK routes \in UpgradePaths(supported, current) :
          current' \in NextUpgradeStep(routes, current, desired)
      BY DEF TakeHop
  <1>2. PICK r \in Routes(supported, current), k \in Nat :
          /\ k \in 1 .. Len(r) /\ r[k] = desired /\ current' = r[1]
          /\ \A q \in Routes(supported, current) : Last(q) = desired => Len(q) <= k
      BY <1>0, <1>1, HopOf
  <1>3. Way(supported, current, r)
      BY RoutesAreWays
  <1>4. MaxTaken \in Nat /\ taken \in 0 .. MaxTaken
      BY <1>0, ChainsAssumption, FS_CardinalityType DEF WalkTypeOK, MaxTaken
  <1>5. taken' = IF taken < MaxTaken THEN taken + 1 ELSE taken
      BY DEF TakeHop
  <1>6. WalkTypeOK'
    <2>1. current' \in Templates
        BY <1>2, <1>3 DEF Way
    <2>2. taken' \in 0 .. MaxTaken
        BY <1>4, <1>5
    <2> QED BY <1>0, <2>1, <2>2 DEF WalkTypeOK, MaxTaken
  <1>7. ASSUME NEW q \in Routes(supported, start), Last(q) = desired, start # desired
        PROVE  IF current' = desired
               THEN Len(q) <= taken'
               ELSE \E p \in Routes(supported, current') :
                       Last(p) = desired /\ Len(q) <= taken' + Len(p)
    <2>1. PICK p \in Routes(supported, current) : Last(p) = desired /\ Len(q) <= taken + Len(p)
        BY <1>0, <1>7 DEF NothingSkipped
    <2>2. Len(p) \in Nat /\ Len(p) <= k
        BY <1>2, <2>1, RoutesAreWays DEF Way
    <2>3. Len(q) \in Nat /\ Len(q) <= MaxTaken
        BY RoutesAreWays, Short DEF Way, MaxTaken
    <2>4. CASE k = 1
      <3>1. current' = desired
          BY <1>2, <2>4
      <3>2. Len(q) <= taken'
          BY <1>4, <1>5, <2>1, <2>2, <2>3, <2>4
      <3> QED BY <3>1, <3>2
    <2>5. CASE k # 1
      <3>1. k \in 2 .. Len(r) /\ 1 \in 1 .. Len(r) /\ Len(r) \in Nat
          BY <1>2, <1>3, <2>5 DEF Way
      <3>2. current' # desired
          BY <1>2, <1>3, <2>5, <3>1 DEF Way
      <3>3. PICK s \in Routes(supported, r[1]) : Len(s) = k - 1 /\ Last(s) = r[k]
          BY <1>0, <3>1, RestOf
      <3>4. Len(q) <= taken' + Len(s)
          BY <1>2, <1>4, <1>5, <2>1, <2>2, <2>3, <3>1, <3>3
      <3> QED BY <1>2, <3>2, <3>3, <3>4
    <2> QED BY <2>4, <2>5
  <1>8. NothingSkipped'
      BY <1>0, <1>7 DEF NothingSkipped
  <1> QED BY <1>6, <1>8 DEF WalkIInv

(* The walk of nextUpgradeStep stays within the chain's templates and      *)
(* arrives only after as many hops as the longest route has, for every     *)
(* chain, cyclic ones included.                                            *)
THEOREM WalkSafe == WalkSpec => []WalkInv
  <1>1. WalkInit => WalkIInv
    <2> SUFFICES ASSUME WalkInit PROVE WalkIInv
        OBVIOUS
    <2>1. MaxTaken \in Nat
        BY ChainsAssumption, FS_CardinalityType DEF MaxTaken
    <2>2. supported \in SupportedTemplates
        BY ChainsAssumption DEF WalkInit
    <2>3. WalkTypeOK
        BY <2>1, <2>2 DEF WalkInit, WalkTypeOK, SupportedTemplates
    <2>4. \A q \in Routes(supported, start) : Len(q) \in Nat /\ Len(q) <= 0 + Len(q)
        BY RoutesAreWays DEF Way
    <2>5. NothingSkipped
        BY <2>4 DEF WalkInit, NothingSkipped
    <2> QED BY <2>3, <2>5 DEF WalkIInv
  <1>2. WalkIInv /\ [WalkNext]_walkVars => WalkIInv'
    <2>1. ASSUME WalkIInv, UNCHANGED walkVars PROVE WalkIInv'
        BY <2>1 DEF WalkIInv, walkVars, WalkTypeOK, NothingSkipped
    <2> QED BY <2>1, HopTaken DEF WalkNext
  <1>3. WalkIInv => WalkInv
      BY DEF WalkIInv, WalkInv, NothingSkipped, NoHopIsSkipped
  <1> QED BY <1>1, <1>2, <1>3, PTL DEF WalkSpec

(* findAllUpgradePaths finds every route of the chain and nothing else,    *)
(* for every chain, with the cycles and the unlisted templates it may      *)
(* have.                                                                   *)
THEOREM SearchFindsTheRoutes == WalkSpec => []PathsAreTheRoutes
  <1>1. WalkInv => PathsAreTheRoutes
    <2> SUFFICES ASSUME WalkTypeOK PROVE PathsAreTheRoutes
        BY DEF WalkInv
    <2> QED BY ChainTypes, SearchIsRight DEF PathsAreTheRoutes
  <1> QED BY <1>1, WalkSafe, PTL

-----------------------------------------------------------------------------
(* The catalogue *)

(* What a chain pass has listed and has still to write was removed since   *)
(* only if the history says so: the strengthening that carries             *)
(* ChartOutlivesCopies over the write of the copy.                         *)
ListedStays == w.on => \A t \in w.todo \cap w.listed : sys[t].on \/ t \in raced

SystemTemplate == [on : BOOLEAN, valid : BOOLEAN]
TenantCopy == [on : BOOLEAN, valid : BOOLEAN, own : BOOLEAN, owners : SUBSET Chain]
PassOfChain == [on : {TRUE}, k : Chain, todo : SUBSET Template,
                listed : SUBSET Template, failed : BOOLEAN]

(* NoCopy and Idle are of their types.                                     *)
LEMMA CatalogConstants ==
    /\ NoCopy \in TenantCopy /\ ~NoCopy.on /\ ~NoCopy.own
    /\ Idle.on = FALSE
BY DEF NoCopy, TenantCopy, Idle

(* A copy that is written exists, and is the tenant's own only if it was   *)
(* before.                                                                 *)
LEMMA DistributedType ==
    ASSUME NEW t \in Template, NEW k \in Chain, copy \in [Template -> TenantCopy]
    PROVE  /\ Distributed(t, k) \in TenantCopy
           /\ Distributed(t, k).on
           /\ Distributed(t, k).own => copy[t].on /\ copy[t].own
<1>1. CASE copy[t].on
  BY <1>1 DEF Distributed, TenantCopy
<1>2. CASE ~copy[t].on
  BY <1>2 DEF Distributed, TenantCopy, NoCopy
<1> QED BY <1>1, <1>2

(* A template pass writes Booleans and nothing else.                       *)
LEMMA JudgedType ==
    ASSUME NEW ns \in {"system", "tenant"}, NEW t \in Template, NEW v \in BOOLEAN,
           sys \in [Template -> SystemTemplate], copy \in [Template -> TenantCopy],
           Judged(ns, t, v)
    PROVE  /\ sys' \in [Template -> SystemTemplate] /\ copy' \in [Template -> TenantCopy]
           /\ \A x \in Template : /\ sys'[x].on = sys[x].on
                                  /\ copy'[x].on = copy[x].on /\ copy'[x].own = copy[x].own
BY DEF Judged, SystemTemplate, TenantCopy

(* Type correctness of the template, chain, webhook, flux and garbage      *)
(* collection steps.                                                       *)
LEMMA CatalogTypes == TypeOK /\ [Next]_vars => TypeOK'
<1> SUFFICES ASSUME TypeOK, [Next]_vars PROVE TypeOK'
  OBVIOUS
<1> USE CatalogAssumption DEF SystemTemplate, TenantCopy
<1>t. /\ sys \in [Template -> SystemTemplate] /\ copy \in [Template -> TenantCopy]
      /\ w \in {Idle} \cup PassOfChain /\ (w.on => w \in PassOfChain)
  BY CatalogConstants DEF TypeOK, PassOfChain, Idle
<1>e. ASSUME Edit PROVE edits' \in 0..MaxEdits
  BY <1>e DEF Edit, TypeOK
<1>1. ASSUME NEW ns \in {"system", "tenant"}, NEW t \in Template, TemplateWaits(ns, t)
      PROVE  TypeOK'
  <2>1. CASE ~Present(ns, t) /\ tq' = tq \ {<<ns, t>>} /\ UNCHANGED <<sys, copy, edits>>
    BY <1>1, <2>1 DEF TypeOK, TemplateWaits
  <2>2. CASE Judged(ns, t, FALSE) /\ UNCHANGED tq /\ edits' \in 0..MaxEdits
    <3>1. sys' \in [Template -> SystemTemplate] /\ copy' \in [Template -> TenantCopy]
      BY <1>t, <2>2, JudgedType
    <3> QED BY <1>1, <2>2, <3>1 DEF TypeOK, TemplateWaits
  <2>3. edits \in 0..MaxEdits
    BY DEF TypeOK
  <2> QED BY <1>1, <1>e, <2>1, <2>2, <2>3 DEF TemplateWaits
<1>2. ASSUME NEW t \in Template, MakeChart(t) PROVE TypeOK'
  BY <1>2 DEF TypeOK, MakeChart
<1>3. ASSUME NEW ns \in {"system", "tenant"}, NEW t \in Template, ReadChart(ns, t)
      PROVE  TypeOK'
  <2>1. /\ \E v \in BOOLEAN : Judged(ns, t, v)
        /\ tq' \subseteq tq
    BY <1>3 DEF ReadChart
  <2>2. sys' \in [Template -> SystemTemplate] /\ copy' \in [Template -> TenantCopy]
    BY <1>t, <2>1, JudgedType
  <2> QED BY <1>3, <2>1, <2>2 DEF TypeOK, ReadChart
<1>4. ASSUME NEW k \in Chain, ChainWaits(k) PROVE TypeOK'
  <2>1. /\ chain' \in [Chain -> [on : BOOLEAN, valid : BOOLEAN]]
        /\ cq' \subseteq Chain
    <3>1. /\ chain \in [Chain -> [on : BOOLEAN, valid : BOOLEAN]]
          /\ cq \subseteq Chain
      BY DEF TypeOK
    <3>2. \/ UNCHANGED chain
          \/ chain' = [chain EXCEPT ![k].valid = TRUE]
      BY <1>4 DEF ChainWaits
    <3>3. cq' \subseteq cq
      BY <1>4 DEF ChainWaits
    <3> QED BY <3>1, <3>2, <3>3
  <2> QED BY <1>4, <2>1 DEF TypeOK, ChainWaits
<1>5. ASSUME NEW k \in Chain, ListTemplates(k) PROVE TypeOK'
  <2>1. w' \in PassOfChain
    BY <1>5 DEF ListTemplates, PassOfChain
  <2> QED BY <1>5, <2>1 DEF TypeOK, ListTemplates, PassOfChain
<1>6. ASSUME NEW t \in Template, Distribute(t) PROVE TypeOK'
  <2>1. w' \in PassOfChain
    BY <1>6, <1>t DEF Distribute, PassOfChain
  <2>2. w.k \in Chain
    BY <1>6, <1>t DEF Distribute, PassOfChain
  <2>3. copy' \in [Template -> TenantCopy]
    <3>1. Distributed(t, w.k) \in TenantCopy
      BY <1>t, <2>2, DistributedType
    <3> QED BY <1>6, <1>t, <3>1 DEF Distribute
  <2>4. tq' \subseteq {"system", "tenant"} \X Template
    BY <1>6 DEF Distribute, TypeOK
  <2> QED BY <1>6, <2>1, <2>3, <2>4 DEF TypeOK, Distribute, PassOfChain
<1>7. ASSUME EndChainPass PROVE TypeOK'
  <2>1. w.k \in Chain
    BY <1>7, <1>t DEF EndChainPass, PassOfChain
  <2> QED BY <1>7, <2>1 DEF TypeOK, EndChainPass
<1>8. ASSUME NEW c \in Cluster, NEW t \in Template, UserDeploys(c, t)
      PROVE  TypeOK'
  BY <1>8 DEF TypeOK, UserDeploys
<1>9. ASSUME NEW c \in Cluster, UserDeletesCluster(c) PROVE TypeOK'
  BY <1>9 DEF TypeOK, UserDeletesCluster
<1>10. ASSUME NEW t \in Template, UserDeletesSystemTemplate(t) PROVE TypeOK'
  BY <1>10, <1>e DEF TypeOK, UserDeletesSystemTemplate
<1>11. ASSUME NEW t \in Template, UserMakesSystemTemplate(t) PROVE TypeOK'
  <2>1. sys' \in [Template -> SystemTemplate]
    BY <1>11, <1>t DEF UserMakesSystemTemplate
  <2>2. tq' \subseteq {"system", "tenant"} \X Template
    BY <1>11 DEF TypeOK, UserMakesSystemTemplate
  <2> QED BY <1>11, <1>e, <2>1, <2>2 DEF TypeOK, UserMakesSystemTemplate
<1>12. ASSUME NEW t \in Template, UserDeletesCopy(t) PROVE TypeOK'
  <2>1. copy' \in [Template -> TenantCopy]
    BY <1>12, <1>t, CatalogConstants DEF UserDeletesCopy
  <2> QED BY <1>12, <1>e, <2>1 DEF TypeOK, UserDeletesCopy
<1>13. ASSUME NEW k \in Chain, UserDeletesChain(k) PROVE TypeOK'
  BY <1>13, <1>e DEF TypeOK, UserDeletesChain
<1>14. ASSUME NEW t \in Template, Flux(t) PROVE TypeOK'
  <2>1. edits' \in 0..MaxEdits
    BY <1>14, <1>e DEF Flux, TypeOK
  <2> QED BY <1>14, <2>1 DEF TypeOK, Flux
<1>15. ASSUME NEW t \in Template, CollectCopy(t) PROVE TypeOK'
  <2>1. copy' \in [Template -> TenantCopy]
    BY <1>15, <1>t, CatalogConstants DEF CollectCopy
  <2> QED BY <1>15, <2>1 DEF TypeOK, CollectCopy
<1>16. ASSUME NEW t \in Template, CollectChart(t) PROVE TypeOK'
  BY <1>16 DEF TypeOK, CollectChart
<1>17. CASE CreateManagement
  BY <1>17 DEF TypeOK, CreateManagement
<1>18. CASE UNCHANGED vars
  BY <1>18 DEF TypeOK, vars
<1> QED
  BY <1>1, <1>2, <1>3, <1>4, <1>5, <1>6, <1>7, <1>8, <1>9, <1>10, <1>11, <1>12, <1>13, <1>14,
     <1>15, <1>16, <1>17, <1>18
  DEF Next, TemplatePass, ChainPass, ChainWork, Garbage

(* The parts of the state the two invariants read, over the steps that     *)
(* leave them alone.                                                       *)
CatalogInv == UsedStays /\ ChartOutlivesCopies /\ ListedStays

LEMMA Untouched ==
    ASSUME TypeOK, CatalogInv, UNCHANGED <<used, raced>>,
           w' = w \/ ~w'.on,
           \A x \in Template : /\ sys'[x].on = sys[x].on
                               /\ copy'[x].on = copy[x].on /\ copy'[x].own = copy[x].own
    PROVE  CatalogInv'
<1>1. UsedStays'
  BY DEF CatalogInv, UsedStays, TypeOK
<1>2. ChartOutlivesCopies'
  BY DEF CatalogInv, ChartOutlivesCopies
<1>3. ListedStays'
  <2>1. w.on => w.todo \subseteq Template
    <3>1. w = Idle \/ w \in PassOfChain
      BY DEF TypeOK, PassOfChain
    <3> QED BY <3>1, CatalogConstants DEF PassOfChain
  <2> QED BY <2>1 DEF CatalogInv, ListedStays
<1> QED BY <1>1, <1>2, <1>3 DEF CatalogInv

(* Removing a copy no cluster uses.                                        *)
LEMMA CopyRemoved ==
    ASSUME TypeOK, CatalogInv, NEW t \in Template, ~InUse(t),
           copy' = [copy EXCEPT ![t] = NoCopy], UNCHANGED <<sys, used, raced, w>>
    PROVE  CatalogInv'
<1>1. copy'[t] = NoCopy /\ \A x \in Template \ {t} : copy'[x] = copy[x]
  BY DEF TypeOK
<1>2. UsedStays'
  BY <1>1 DEF CatalogInv, UsedStays, TypeOK, InUse
<1>3. ChartOutlivesCopies'
  BY <1>1, CatalogConstants DEF CatalogInv, ChartOutlivesCopies
<1>4. ListedStays'
  BY DEF CatalogInv, ListedStays
<1> QED BY <1>2, <1>3, <1>4 DEF CatalogInv

LEMMA CatalogSafety ==
    TypeOK /\ CatalogInv /\ [Next]_vars => CatalogInv'
<1> SUFFICES ASSUME TypeOK, CatalogInv, [Next]_vars
             PROVE  CatalogInv'
  OBVIOUS
<1>t. /\ sys \in [Template -> SystemTemplate] /\ copy \in [Template -> TenantCopy]
      /\ w \in {Idle} \cup PassOfChain /\ (w.on => w \in PassOfChain)
  BY CatalogConstants
  DEF TypeOK, PassOfChain, Idle, SystemTemplate, TenantCopy
<1>1. ASSUME NEW ns \in {"system", "tenant"}, NEW t \in Template, TemplatePass(ns, t)
      PROVE  CatalogInv'
  <2>1. UNCHANGED <<used, raced, w>>
    BY <1>1
    DEF TemplatePass, TemplateWaits, MakeChart, ReadChart
  <2>2. UNCHANGED <<sys, copy>> \/ \E v \in BOOLEAN : Judged(ns, t, v)
    BY <1>1
    DEF TemplatePass, TemplateWaits, MakeChart, ReadChart
  <2>3. \A x \in Template : /\ sys'[x].on = sys[x].on
                             /\ copy'[x].on = copy[x].on /\ copy'[x].own = copy[x].own
    BY <1>t, <2>2, JudgedType
  <2> QED BY <2>1, <2>3, Untouched
<1>2. ASSUME NEW k \in Chain, ChainWaits(k) PROVE CatalogInv'
  BY <1>2, Untouched DEF ChainWaits
<1>3. ASSUME NEW k \in Chain, ListTemplates(k) PROVE CatalogInv'
  <2>1. UNCHANGED <<used, raced, sys, copy>> /\ \A t \in w'.listed : sys[t].on
    BY <1>3 DEF ListTemplates
  <2>2. ListedStays'
    BY <2>1 DEF ListedStays
  <2> QED BY <2>1, <2>2 DEF CatalogInv, UsedStays, ChartOutlivesCopies
<1>4. ASSUME NEW t \in Template, Distribute(t) PROVE CatalogInv'
  <2>1. /\ UNCHANGED <<used, raced, sys>> /\ w.on /\ t \in w.todo
        /\ w'.todo \subseteq w.todo /\ w'.listed = w.listed
    BY <1>4, <1>t DEF Distribute, PassOfChain
  <2>2. ListedStays'
    BY <2>1 DEF CatalogInv, ListedStays
  <2>3. CASE t \notin w.listed
    <3>1. UNCHANGED copy
      BY <1>4, <2>3 DEF Distribute
    <3> QED
        BY <2>1, <2>2, <3>1
        DEF CatalogInv, UsedStays, ChartOutlivesCopies
  <2>4. CASE t \in w.listed
    <3>1. w.k \in Chain
      BY <2>1, <1>t DEF PassOfChain
    <3>2. copy' = [copy EXCEPT ![t] = Distributed(t, w.k)]
      BY <1>4, <2>4 DEF Distribute
    <3>3. copy'[t].on /\ \A x \in Template \ {t} : copy'[x] = copy[x]
      BY <1>t, <3>1, <3>2, DistributedType
    <3>4. UsedStays'
      BY <2>1, <3>3 DEF CatalogInv, UsedStays, TypeOK
    <3>5. sys[t].on \/ t \in raced
      BY <2>1, <2>4 DEF CatalogInv, ListedStays
    <3>6. ChartOutlivesCopies'
      BY <2>1, <3>3, <3>5 DEF CatalogInv, ChartOutlivesCopies
    <3> QED BY <2>2, <3>4, <3>6 DEF CatalogInv
  <2> QED BY <2>3, <2>4
<1>5. CASE EndChainPass
  BY <1>5, Untouched, CatalogConstants DEF EndChainPass
<1>6. ASSUME NEW c \in Cluster, NEW t \in Template, UserDeploys(c, t)
      PROVE  CatalogInv'
  <2>1. UsedStays'
    BY <1>6
    DEF UserDeploys, MayDeploy, CatalogInv, UsedStays,
        TypeOK
  <2> QED
      BY <1>6, <2>1
      DEF UserDeploys, CatalogInv, ChartOutlivesCopies, ListedStays
<1>7. ASSUME NEW c \in Cluster, UserDeletesCluster(c) PROVE CatalogInv'
  <2>1. UsedStays'
    BY <1>7 DEF UserDeletesCluster, CatalogInv, UsedStays, TypeOK
  <2> QED
      BY <1>7, <2>1
      DEF UserDeletesCluster, CatalogInv, ChartOutlivesCopies, ListedStays
<1>8. ASSUME NEW t \in Template, UserDeletesSystemTemplate(t) PROVE CatalogInv'
  <2>1. /\ UNCHANGED <<used, copy, w>> /\ raced \subseteq raced'
        /\ \A x \in Template \ {t} : sys'[x] = sys[x]
    BY <1>8, <1>t DEF UserDeletesSystemTemplate
  <2>2. UsedStays'
    BY <2>1 DEF CatalogInv, UsedStays
  <2>3. ChartOutlivesCopies'
    BY <1>8, <2>1
    DEF UserDeletesSystemTemplate, HasDistributedCopies, CatalogInv,
        ChartOutlivesCopies
  <2>4. w.on /\ t \in w.todo \cap w.listed => t \in raced'
    BY <1>8 DEF UserDeletesSystemTemplate
  <2>5. ListedStays'
    BY <1>t, <2>1, <2>4 DEF CatalogInv, ListedStays, PassOfChain
  <2> QED BY <2>2, <2>3, <2>5 DEF CatalogInv
<1>9. ASSUME NEW t \in Template, UserMakesSystemTemplate(t) PROVE CatalogInv'
  <2>1. /\ UNCHANGED <<used, copy, w, raced>>
        /\ \A x \in Template : sys[x].on => sys'[x].on
    BY <1>9, <1>t DEF UserMakesSystemTemplate, SystemTemplate
  <2> QED
      BY <1>t, <2>1
      DEF CatalogInv, UsedStays, ChartOutlivesCopies, ListedStays, PassOfChain
<1>10. ASSUME NEW t \in Template, UserDeletesCopy(t) PROVE CatalogInv'
  BY <1>10, CopyRemoved DEF UserDeletesCopy, MayDeleteCopy
<1>11. ASSUME NEW k \in Chain, UserDeletesChain(k) PROVE CatalogInv'
  BY <1>11, Untouched DEF UserDeletesChain
<1>12. ASSUME NEW t \in Template, Flux(t) PROVE CatalogInv'
  BY <1>12, Untouched DEF Flux
<1>13. ASSUME NEW t \in Template, CollectCopy(t) PROVE CatalogInv'
  BY <1>13, CopyRemoved DEF CollectCopy, MayDeleteCopy
<1>14. ASSUME NEW t \in Template, CollectChart(t) PROVE CatalogInv'
  BY <1>14, Untouched DEF CollectChart
<1>15. CASE CreateManagement
  BY <1>15, Untouched DEF CreateManagement
<1>16. CASE UNCHANGED vars
  BY <1>16, Untouched DEF vars
<1> QED
  BY <1>1, <1>2, <1>3, <1>4, <1>5, <1>6, <1>7, <1>8, <1>9, <1>10, <1>11, <1>12, <1>13, <1>14,
     <1>15, <1>16
  DEF Next, ChainPass, ChainWork, Garbage

LEMMA CatalogInit ==
    Init => TypeOK /\ CatalogInv
<1> SUFFICES ASSUME Init PROVE TypeOK /\ CatalogInv
  OBVIOUS
<1>1. PICK own \in SUBSET Own :
        /\ copy = [t \in Template |->
                     IF t \in own THEN [NoCopy EXCEPT !.on = TRUE, !.own = TRUE]
                                      ELSE NoCopy]
        /\ tq = ({"system"} \X Template) \cup ({"tenant"} \X own)
  BY DEF Init
<1>2. copy \in [Template -> TenantCopy] /\ tq \subseteq {"system", "tenant"} \X Template
  BY <1>1, CatalogAssumption DEF TenantCopy, NoCopy
<1>3. TypeOK
  <2>1. /\ mgmt \in BOOLEAN
        /\ sys \in [Template -> SystemTemplate]
        /\ chart \in [Template -> {"none", "pending", "ready", "failed"}]
        /\ chain \in [Chain -> [on : BOOLEAN, valid : BOOLEAN]]
    BY DEF Init, SystemTemplate
  <2>2. /\ used \in [Cluster -> Template \cup {None}]
        /\ cq \subseteq Chain /\ w = Idle /\ raced \subseteq Template
    BY DEF Init
  <2>3. edits \in 0..MaxEdits
    BY CatalogAssumption DEF Init
  <2> QED BY <1>2, <2>1, <2>2, <2>3 DEF TypeOK, TenantCopy, SystemTemplate
<1>4. UsedStays
  <2>1. \A c \in Cluster : used[c] = None
    BY DEF Init
  <2> QED BY <2>1 DEF UsedStays
<1>5. ChartOutlivesCopies
  BY DEF Init, ChartOutlivesCopies
<1>6. ListedStays
  BY CatalogConstants DEF Init, ListedStays
<1> QED BY <1>3, <1>4, <1>5, <1>6 DEF CatalogInv

(* The catalog's state keeps its shape: statuses are Booleans, owners are  *)
(* chains, a pass lists and writes templates.                              *)
THEOREM CatalogTypeOK == Spec => []TypeOK
<1>1. Init => TypeOK
  BY CatalogInit
<1>2. TypeOK /\ [Next]_vars => TypeOK'
  BY CatalogTypes
<1> QED BY <1>1, <1>2, PTL DEF Spec

(* ValidateDelete keeps every template a ClusterDeployment uses, against   *)
(* users and the garbage collector alike.                                  *)
THEOREM CatalogUsedStays == Spec => []UsedStays
<1>1. Init => TypeOK /\ CatalogInv
  BY CatalogInit
<1>2. TypeOK /\ CatalogInv /\ [Next]_vars => (TypeOK /\ CatalogInv)'
  BY CatalogTypes, CatalogSafety
<1>3. CatalogInv => UsedStays
  BY DEF CatalogInv
<1> QED BY <1>1, <1>2, <1>3, PTL DEF Spec

(* hasDistributedCopies keeps the chart of every copy, but for the one     *)
(* race with a chain pass.                                                 *)
THEOREM CatalogChartOutlivesCopies == Spec => []ChartOutlivesCopies
<1>1. Init => TypeOK /\ CatalogInv
  BY CatalogInit
<1>2. TypeOK /\ CatalogInv /\ [Next]_vars => (TypeOK /\ CatalogInv)'
  BY CatalogTypes, CatalogSafety
<1>3. CatalogInv => ChartOutlivesCopies
  BY DEF CatalogInv
<1> QED BY <1>1, <1>2, <1>3, PTL DEF Spec
=============================================================================
