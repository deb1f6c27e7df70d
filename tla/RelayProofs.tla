------------------------------ MODULE RelayProofs ------------------------------
(***************************************************************************)
(* One request through the gateway, for any conversation, any text of the  *)
(* vendor's, any backends and any number of retries: who is blamed for a   *)
(* failure, what the vendor hears and what the client gets, whole or       *)
(* streamed and wherever the stream breaks off.                            *)
(***************************************************************************)
EXTENDS Relay, WellFoundedInduction, TLAPS

-----------------------------------------------------------------------------
(* Induction, with a set for the predicate *)

Below == {p \in Nat \X Nat : p[1] < p[2]}

LEMMA Least == ASSUME NEW S \in SUBSET Nat, S # {} PROVE \E x \in S : \A y \in S : x <= y
<1>1. IsWellFoundedOn(Below, Nat)
    <2>1. Below = OpToRel(<, Nat)
        BY DEF OpToRel, Below
    <2> QED BY <2>1, NatLessThanWellFounded
<1>2. PICK x \in S : \A y \in S : <<y, x>> \notin Below
    BY <1>1, WFMin
<1>3. ASSUME NEW y \in S PROVE x <= y
    <2>1. x \in Nat /\ y \in Nat /\ <<y, x>> \notin Below
        BY <1>2
    <2>2. <<y, x>> \in Nat \X Nat /\ <<y, x>>[1] = y /\ <<y, x>>[2] = x
        BY <2>1
    <2>3. ~(y < x)
        BY <2>1, <2>2 DEF Below
    <2> QED BY <2>1, <2>3
<1> QED BY <1>3

LEMMA Induction ==
    ASSUME NEW T, 0 \in T, \A n \in Nat : n \in T => n + 1 \in T
    PROVE  \A n \in Nat : n \in T
<1> DEFINE U == Nat \ T
<1> SUFFICES ASSUME U # {} PROVE FALSE
    OBVIOUS
<1>1. U \in SUBSET Nat
    OBVIOUS
<1> HIDE DEF U
<1>2. PICK j \in U : \A k \in U : j <= k
    BY <1>1, Least
<1>3. j \in Nat /\ j \notin T
    BY <1>2 DEF U
<1>4. j - 1 \in Nat /\ j - 1 + 1 = j
    BY <1>3
<1>5. j - 1 \in T
    BY <1>2, <1>3, <1>4 DEF U
<1> QED BY <1>3, <1>4, <1>5

-----------------------------------------------------------------------------
(* FlattenSeq *)

(* f is the flattening of s, place by place.                               *)
Flat(s, f) == f = [i \in 1..Len(s) |-> IF i = 1 THEN s[i] ELSE f[i - 1] \o s[i]]

Steps(s, f) ==
    /\ Len(s) > 0 => f[1] = s[1]
    /\ \A i \in 1..Len(s) : i > 1 => f[i] = f[i - 1] \o s[i]

LEMMA FlatStep ==
    ASSUME NEW S, NEW s \in Seq(Seq(S)), NEW f, Flat(s, f)
    PROVE  Steps(s, f) /\ \A i \in 1..Len(s) : f[i] \in Seq(S)
<1>1. \A i \in 1..Len(s) : f[i] = IF i = 1 THEN s[i] ELSE f[i - 1] \o s[i]
    BY DEF Flat
<1>2. ASSUME NEW i \in 1..Len(s), i > 1 PROVE f[i] = f[i - 1] \o s[i]
    <2>1. i # 1
        BY <1>2
    <2> QED BY <1>1, <2>1
<1>3. Len(s) > 0 => f[1] = s[1]
    <2>1. Len(s) > 0 => 1 \in 1..Len(s)
        OBVIOUS
    <2> QED BY <1>1, <2>1
<1> DEFINE T == {n \in Nat : n \in 1..Len(s) => f[n] \in Seq(S)}
<1>4. 0 \in T
    OBVIOUS
<1>5. ASSUME NEW n \in Nat, n \in T PROVE n + 1 \in T
    <2> SUFFICES ASSUME n + 1 \in 1..Len(s) PROVE f[n + 1] \in Seq(S)
        OBVIOUS
    <2> DEFINE m == n + 1
    <2>1. m \in 1..Len(s) /\ s[m] \in Seq(S) /\ m - 1 = n
        OBVIOUS
    <2> HIDE DEF m
    <2>2. CASE m = 1
        BY <1>1, <2>1, <2>2 DEF m
    <2>3. CASE m > 1
        <3>1. n \in 1..Len(s)
            BY <2>1, <2>3
        <3>2. f[n] \in Seq(S)
            BY <1>5, <3>1
        <3>3. f[m] = f[n] \o s[m]
            BY <1>2, <2>1, <2>3
        <3> DEFINE before == f[n]
                   more == s[m]
        <3>4. before \in Seq(S) /\ more \in Seq(S) /\ f[m] = before \o more
            BY <2>1, <3>2, <3>3
        <3> HIDE DEF before, more
        <3>5. f[m] \in Seq(S)
            BY <3>4
        <3> QED BY <3>5 DEF m
    <2> QED BY <2>1, <2>2, <2>3
<1> HIDE DEF T
<1>6. \A n \in Nat : n \in T
    BY <1>4, <1>5, Induction
<1>7. \A i \in 1..Len(s) : f[i] \in Seq(S)
    BY <1>6 DEF T
<1> QED BY <1>2, <1>3, <1>7 DEF Steps

(* Every sequence has one: that of what comes before, and one place more.  *)
LEMMA FlatExists == ASSUME NEW S, NEW s \in Seq(Seq(S)) PROVE \E f : Flat(s, f)
<1> DEFINE UpTo(n, f) == f = [i \in 1..n |-> IF i = 1 THEN s[i] ELSE f[i - 1] \o s[i]]
           Has(n) == \E f : UpTo(n, f)
           T == {n \in Nat : Has(n)}
<1>1. Has(0)
    <2> DEFINE g == [i \in 1..0 |-> <<>>]
    <2>1. UpTo(0, g)
        OBVIOUS
    <2> HIDE DEF g, UpTo
    <2> QED BY <2>1
<1>2. ASSUME NEW n \in Nat, Has(n) PROVE Has(n + 1)
    <2>1. PICK f : UpTo(n, f)
        BY <1>2
    <2> DEFINE g == [i \in 1..(n + 1) |-> IF i = 1 THEN s[i] ELSE f[i - 1] \o s[i]]
    <2>2. ASSUME NEW i \in 1..(n + 1), i # 1 PROVE g[i - 1] = f[i - 1]
        <3>1. i - 1 \in 1..n /\ i - 1 \in 1..(n + 1)
            BY <2>2
        <3>2. f[i - 1] = IF i - 1 = 1 THEN s[i - 1] ELSE f[i - 1 - 1] \o s[i - 1]
            BY <2>1, <3>1
        <3> QED BY <3>1, <3>2
    <2>3. UpTo(n + 1, g)
        BY <2>2
    <2> HIDE DEF g, UpTo
    <2> QED BY <2>3
<1> HIDE DEF Has
<1>3. 0 \in T /\ \A n \in Nat : n \in T => n + 1 \in T
    BY <1>1, <1>2
<1> HIDE DEF T
<1>4. \A n \in Nat : n \in T
    BY <1>3, Induction
<1>5. Len(s) \in T
    BY <1>4
<1> USE DEF T, Has
<1>6. \E f : UpTo(Len(s), f)
    BY <1>5
<1> QED BY <1>6 DEF Flat

LEMMA FlattenAt ==
    ASSUME NEW S, NEW s \in Seq(Seq(S)), Len(s) > 0
    PROVE  \E f : Flat(s, f) /\ FlattenSeq(s) = f[Len(s)]
<1> DEFINE f == CHOOSE f : f = [i \in 1..Len(s) |-> IF i = 1 THEN s[i] ELSE f[i - 1] \o s[i]]
<1>1. \E g : g = [i \in 1..Len(s) |-> IF i = 1 THEN s[i] ELSE g[i - 1] \o s[i]]
    BY FlatExists DEF Flat
<1>2. Flat(s, f)
    BY <1>1 DEF Flat
<1>3. FlattenSeq(s) = f[Len(s)]
    BY DEF FlattenSeq
<1> QED BY <1>2, <1>3

LEMMA FlattenEmpty == FlattenSeq(<<>>) = <<>>
BY DEF FlattenSeq

LEMMA FlattenType ==
    ASSUME NEW S, NEW s \in Seq(Seq(S))
    PROVE  FlattenSeq(s) \in Seq(S)
<1>1. CASE Len(s) = 0
    <2>1. s = <<>>
        BY <1>1
    <2>2. FlattenSeq(s) = <<>>
        BY <2>1, FlattenEmpty, Zenon
    <2>3. <<>> \in Seq(S)
        OBVIOUS
    <2> QED BY <2>2, <2>3
<1>2. CASE Len(s) > 0
    <2>1. PICK f : Flat(s, f) /\ FlattenSeq(s) = f[Len(s)]
        BY <1>2, FlattenAt
    <2>2. Len(s) \in 1..Len(s)
        BY <1>2
    <2>3. f[Len(s)] \in Seq(S)
        BY <2>1, <2>2, FlatStep, Zenon
    <2> QED BY <2>1, <2>3
<1> QED BY <1>1, <1>2

AgreeUpTo(n, f, g) == \A i \in 1..n : f[i] = g[i]

(* Two flattenings agree as long as the sequences do.                      *)
LEMMA FlatAgree ==
    ASSUME NEW S, NEW s \in Seq(Seq(S)), NEW t \in Seq(Seq(S)), Len(s) <= Len(t),
           \A i \in 1..Len(s) : s[i] = t[i], NEW f, Flat(s, f), NEW g, Flat(t, g)
    PROVE  AgreeUpTo(Len(s), f, g)
<1>0. Steps(s, f) /\ Steps(t, g)
    BY FlatStep
<1> DEFINE T == {n \in Nat : n \in 1..Len(s) => f[n] = g[n]}
<1>1. 0 \in T
    OBVIOUS
<1>2. ASSUME NEW n \in Nat, n \in T PROVE n + 1 \in T
    <2> DEFINE m == n + 1
    <2> SUFFICES ASSUME m \in 1..Len(s) PROVE f[m] = g[m]
        OBVIOUS
    <2>1. m \in 1..Len(t) /\ m - 1 = n /\ s[m] = t[m] /\ Len(s) > 0 /\ Len(t) > 0
        OBVIOUS
    <2> HIDE DEF m
    <2>2. CASE m = 1
        BY <1>0, <2>1, <2>2 DEF Steps
    <2>3. CASE m > 1
        <3>1. f[m] = f[n] \o s[m] /\ g[m] = g[n] \o t[m]
            BY <1>0, <2>1, <2>3 DEF Steps
        <3>2. n \in 1..Len(s)
            BY <2>1, <2>3
        <3> QED BY <1>2, <2>1, <3>1, <3>2
    <2> QED BY <2>1, <2>2, <2>3
<1> HIDE DEF T
<1>3. \A n \in Nat : n \in T
    BY <1>1, <1>2, Induction
<1> QED BY <1>3 DEF T, AgreeUpTo

LEMMA FlattenAppend ==
    ASSUME NEW S, NEW s \in Seq(Seq(S)), NEW e \in Seq(S)
    PROVE  FlattenSeq(Append(s, e)) = FlattenSeq(s) \o e
<1> DEFINE t == Append(s, e)
           n == Len(s)
<1>1. /\ t \in Seq(Seq(S)) /\ Len(t) = n + 1 /\ t[n + 1] = e /\ n \in Nat /\ Len(t) > 0
      /\ \A i \in 1..n : s[i] = t[i]
    OBVIOUS
<1> HIDE DEF t
<1>2. PICK g : Flat(t, g) /\ FlattenSeq(t) = g[n + 1]
    BY <1>1, FlattenAt
<1>5. /\ Len(t) > 0 => g[1] = t[1]
      /\ \A i \in 1..Len(t) : i > 1 => g[i] = g[i - 1] \o t[i]
    <2>1. t \in Seq(Seq(S)) /\ Flat(t, g)
        BY <1>1, <1>2
    <2>2. Steps(t, g)
        BY <2>1, FlatStep
    <2> QED BY <2>2 DEF Steps
<1>3. CASE n = 0
    <2>1. s = <<>> /\ n + 1 = 1
        BY <1>3
    <2>2. g[1] = t[1]
        BY <1>1, <1>5
    <2>3. <<>> \o e = e
        OBVIOUS
    <2> QED BY <1>1, <1>2, <2>1, <2>2, <2>3, FlattenEmpty DEF t
<1>4. CASE n > 0
    <2>1. PICK f : Flat(s, f) /\ FlattenSeq(s) = f[n]
        BY <1>4, FlattenAt
    <2>0. Len(s) <= Len(t) /\ n \in 1..Len(s) /\ \A i \in 1..Len(s) : s[i] = t[i]
        BY <1>1, <1>4
    <2>5. t \in Seq(Seq(S)) /\ Flat(t, g) /\ Flat(s, f)
        BY <1>1, <1>2, <2>1
    <2>6. AgreeUpTo(Len(s), f, g)
        BY <2>0, <2>5, FlatAgree
    <2>2. f[n] = g[n]
        BY <2>0, <2>6 DEF AgreeUpTo
    <2> DEFINE m == n + 1
    <2>3. m \in 1..Len(t) /\ m > 1 /\ m - 1 = n
        BY <1>1, <1>4
    <2> HIDE DEF m
    <2>4. g[m] = g[m - 1] \o t[m]
        BY <2>3, <1>5, Zenon
    <2>7. g[n + 1] = g[n] \o t[n + 1]
        BY <2>3, <2>4, Zenon DEF m
    <2> QED BY <1>1, <1>2, <2>1, <2>2, <2>7, Zenon DEF t
<1> QED BY <1>1, <1>3, <1>4

LEMMA FlattenOne ==
    ASSUME NEW S, NEW e \in Seq(S)
    PROVE  FlattenSeq(<<e>>) = e
<1>1. <<>> \in Seq(Seq(S)) /\ Append(<<>>, e) = <<e>> /\ <<>> \o e = e
    OBVIOUS
<1>2. FlattenSeq(Append(<<>>, e)) = FlattenSeq(<<>>) \o e
    BY <1>1, FlattenAppend, Zenon
<1> QED BY <1>1, <1>2, FlattenEmpty, Zenon

(* A sequence that is not empty, but for its last place.                   *)
LEMMA Unappend ==
    ASSUME NEW S, NEW s \in Seq(S), NEW n \in Nat, Len(s) = n + 1
    PROVE  \E t \in Seq(S), e \in S : s = Append(t, e) /\ Len(t) = n
<1> DEFINE t == SubSeq(s, 1, n)
<1>1. t \in Seq(S) /\ Len(t) = n /\ \A i \in 1..n : t[i] = s[i]
    OBVIOUS
<1>2. s[n + 1] \in S
    OBVIOUS
<1> HIDE DEF t
<1>3. s = Append(t, s[n + 1])
    BY <1>1, <1>2
<1> QED BY <1>1, <1>2, <1>3

LEMMA FlattenConcat ==
    ASSUME NEW S, NEW s \in Seq(Seq(S)), NEW t \in Seq(Seq(S))
    PROVE  FlattenSeq(s \o t) = FlattenSeq(s) \o FlattenSeq(t)
<1> DEFINE Holds(u) == FlattenSeq(s \o u) = FlattenSeq(s) \o FlattenSeq(u)
           T == {n \in Nat : \A u \in Seq(Seq(S)) : Len(u) = n => Holds(u)}
<1>0. FlattenSeq(s) \in Seq(S)
    BY FlattenType
<1>1. ASSUME NEW u \in Seq(Seq(S)), Len(u) = 0 PROVE Holds(u)
    <2>1. u = <<>> /\ s \o u = s
        BY <1>1
    <2>2. FlattenSeq(s) \o <<>> = FlattenSeq(s)
        BY <1>0
    <2> QED BY <2>1, <2>2, FlattenEmpty
<1>2. ASSUME NEW n \in Nat, n \in T, NEW u \in Seq(Seq(S)), Len(u) = n + 1 PROVE Holds(u)
    <2>0. u \in Seq(Seq(S)) /\ Len(u) = n + 1
        BY <1>2
    <2>1. PICK v \in Seq(Seq(S)), e \in Seq(S) : u = Append(v, e) /\ Len(v) = n
        BY <2>0, Unappend, Zenon
    <2>2. FlattenSeq(s \o v) = FlattenSeq(s) \o FlattenSeq(v)
        BY <1>2, <2>1
    <2>3. s \o u = Append(s \o v, e) /\ s \o v \in Seq(Seq(S))
        BY <2>1
    <2>4. FlattenSeq(s \o u) = (FlattenSeq(s) \o FlattenSeq(v)) \o e
        BY <2>2, <2>3, FlattenAppend
    <2>5. FlattenSeq(u) = FlattenSeq(v) \o e
        BY <2>1, FlattenAppend
    <2>6. FlattenSeq(v) \in Seq(S)
        BY FlattenType
    <2> DEFINE a == FlattenSeq(s)
               b == FlattenSeq(v)
    <2>7. a \in Seq(S) /\ b \in Seq(S)
        BY <1>0, <2>6
    <2> HIDE DEF a, b
    <2>8. (a \o b) \o e = a \o (b \o e)
        BY <2>7
    <2> QED BY <2>4, <2>5, <2>8 DEF a, b
<1> HIDE DEF Holds
<1>3. 0 \in T /\ \A n \in Nat : n \in T => n + 1 \in T
    BY <1>1, <1>2
<1> HIDE DEF T
<1>4. \A n \in Nat : n \in T
    BY <1>3, Induction
<1>5. Len(t) \in T
    BY <1>4
<1> QED BY <1>5 DEF T, Holds

LEMMA FlattenSingles ==
    ASSUME NEW S, NEW s \in Seq(S)
    PROVE  FlattenSeq([i \in DOMAIN s |-> <<s[i]>>]) = s
<1> DEFINE Singles(u) == [i \in DOMAIN u |-> <<u[i]>>]
           Holds(u) == FlattenSeq(Singles(u)) = u
           T == {n \in Nat : \A u \in Seq(S) : Len(u) = n => Holds(u)}
<1>1. ASSUME NEW u \in Seq(S), Len(u) = 0 PROVE Holds(u)
    <2>1. u = <<>> /\ Singles(u) = <<>>
        BY <1>1
    <2> QED BY <2>1, FlattenEmpty
<1>2. ASSUME NEW n \in Nat, n \in T, NEW u \in Seq(S), Len(u) = n + 1 PROVE Holds(u)
    <2>0. u \in Seq(S) /\ Len(u) = n + 1
        BY <1>2
    <2>1. PICK v \in Seq(S), e \in S : u = Append(v, e) /\ Len(v) = n
        BY <2>0, Unappend, Zenon
    <2>2. Singles(v) \in Seq(Seq(S)) /\ <<e>> \in Seq(S)
        <3>1. \A i \in 1..Len(v) : <<v[i]>> \in Seq(S)
            OBVIOUS
        <3>2. Singles(v) = [i \in 1..Len(v) |-> <<v[i]>>]
            OBVIOUS
        <3> QED BY <3>1, <3>2
    <2>3. Singles(u) = Append(Singles(v), <<e>>)
        BY <2>1
    <2>4. FlattenSeq(Singles(v)) = v
        BY <1>2, <2>1
    <2> HIDE DEF Singles
    <2>5. FlattenSeq(Singles(u)) = v \o <<e>>
        BY <2>2, <2>3, <2>4, FlattenAppend
    <2> QED BY <2>1, <2>5
<1> HIDE DEF Holds
<1>3. 0 \in T /\ \A n \in Nat : n \in T => n + 1 \in T
    BY <1>1, <1>2
<1> HIDE DEF T
<1>4. \A n \in Nat : n \in T
    BY <1>3, Induction
<1>5. Len(s) \in T
    BY <1>4
<1> QED BY <1>5 DEF T, Holds

LEMMA FlattenNothing ==
    ASSUME NEW S, NEW s \in Seq(Seq(S)), \A i \in 1..Len(s) : s[i] = <<>>
    PROVE  FlattenSeq(s) = <<>>
<1> DEFINE Blank(u) == \A i \in 1..Len(u) : u[i] = <<>>
           Holds(u) == Blank(u) => FlattenSeq(u) = <<>>
           T == {n \in Nat : \A u \in Seq(Seq(S)) : Len(u) = n => Holds(u)}
<1>1. ASSUME NEW u \in Seq(Seq(S)), Len(u) = 0 PROVE Holds(u)
    <2>1. u = <<>>
        BY <1>1
    <2> QED BY <2>1, FlattenEmpty, Zenon
<1>2. ASSUME NEW n \in Nat, n \in T, NEW u \in Seq(Seq(S)), Len(u) = n + 1 PROVE Holds(u)
    <2> SUFFICES ASSUME Blank(u) PROVE FlattenSeq(u) = <<>>
        OBVIOUS
    <2>0. u \in Seq(Seq(S)) /\ Len(u) = n + 1
        BY <1>2
    <2>1. PICK v \in Seq(Seq(S)), e \in Seq(S) : u = Append(v, e) /\ Len(v) = n
        BY <2>0, Unappend, Zenon
    <2>2. e = <<>> /\ Blank(v)
        <3>1. u[n + 1] = e /\ \A i \in 1..n : u[i] = v[i]
            BY <2>1
        <3> QED BY <1>2, <2>1, <3>1
    <2>3. FlattenSeq(u) = FlattenSeq(v) \o e
        BY <2>1, FlattenAppend
    <2>4. FlattenSeq(v) = <<>>
        BY <1>2, <2>1, <2>2
    <2>5. <<>> \o <<>> = <<>>
        OBVIOUS
    <2> QED BY <2>2, <2>3, <2>4, <2>5
<1> HIDE DEF Holds
<1>3. 0 \in T /\ \A n \in Nat : n \in T => n + 1 \in T
    BY <1>1, <1>2
<1> HIDE DEF T
<1>4. \A n \in Nat : n \in T
    BY <1>3, Induction
<1>5. Len(s) \in T
    BY <1>4
<1> QED BY <1>5 DEF T, Holds

-----------------------------------------------------------------------------
(* The call: who has been tried, and what the last of them was asked *)

Formatted == format \in [Backends -> Formats] /\ conv \in Conversation

TriedOnce ==
    /\ tried \in Seq(Backends)
    /\ \A i, j \in DOMAIN tried : tried[i] = tried[j] => i = j
    /\ pc \in {"call", "stream"} => tried # <<>>
    /\ pc = "accept" => tried = <<>>

(* The body is the client's request, and the vendor has heard its adapter's *)
(* translation of it.                                                       *)
Entered == body = OpenAIRequest(conv.protocol, Request(conv))

AskedOf(b) == IF Direct THEN rewriteModel(body, b) ELSE ForwardRequest(format[b], body, b, Streams)

Asked ==
    /\ pc \in {"choose", "call", "stream"} \/ tried # <<>> => Entered
    /\ IF tried = <<>> THEN heard = NoRequest ELSE heard = AskedOf(sel)

Client ==
    /\ client = [here |-> client.here, status |-> client.status, got |-> client.got,
                 reply |-> client.reply]
    /\ client.here \in BOOLEAN

CallInv ==
    /\ Formatted /\ TriedOnce /\ Asked /\ Client
    /\ conv \in Conversations

LEMMA CallInit == Init => CallInv
<1> SUFFICES ASSUME Init PROVE CallInv
    OBVIOUS
<1>1. conv \in Conversations /\ conv \in Conversation /\ format \in [Backends -> Formats]
    BY RelayAssumption DEF Init
<1>2. tried = <<>> /\ heard = NoRequest /\ pc = "accept" /\ <<>> \in Seq(Backends)
    BY DEF Init
<1>3. Client
    BY DEF Init, Client
<1> QED BY <1>1, <1>2, <1>3 DEF CallInv, Formatted, TriedOnce, Asked

(* Every action but Accept and Choose leaves what was tried and asked.     *)
Later ==
    \/ GiveUp \/ Failed \/ Cancelled \/ Answered \/ AnsweredInDetail \/ AnsweredUnreadably
    \/ StreamBegins \/ RelayEvent \/ StreamOver \/ LineTooLong \/ WriteFails \/ ClientLeaves

LEMMA LaterKeeps ==
    ASSUME Later
    PROVE  /\ UNCHANGED <<conv, format, body, tried, heard>>
           /\ pc # "accept" => pc' # "accept"
           /\ pc' \in {"choose", "call", "stream"} => pc' = pc \/ pc = "call"
           /\ pc' = "call" => pc = "call"
BY DEF Later, GiveUp, Failed, Cancelled, Answered, AnsweredInDetail, AnsweredUnreadably,
       StreamBegins, RelayEvent, StreamOver, LineTooLong, WriteFails, ClientLeaves, Fail, Finish

LEMMA ClientStep == Client /\ [Next]_vars => Client'
<1> SUFFICES ASSUME Client, [Next]_vars PROVE Client'
    OBVIOUS
<1>1. ASSUME NEW st, client' = [client EXCEPT !.status = st] PROVE Client'
    BY <1>1 DEF Client
<1>2. ASSUME NEW st, NEW r, client' = [client EXCEPT !.status = st, !.reply = r] PROVE Client'
    BY <1>2 DEF Client
<1>3. ASSUME NEW g, client' = [client EXCEPT !.got = g] PROVE Client'
    BY <1>3 DEF Client
<1>4. ASSUME client' = client PROVE Client'
    BY <1>4 DEF Client
<1>5. CASE \/ Accept \/ GiveUp \/ AnsweredInDetail \/ AnsweredUnreadably \/ Failed \/ Cancelled
           \/ StreamBegins
    BY <1>1, <1>4, <1>5
       DEF Accept, GiveUp, AnsweredInDetail, AnsweredUnreadably, Failed, Cancelled, StreamBegins, Fail, Finish
<1>6. CASE Answered
    BY <1>2, <1>6 DEF Answered
<1>7. CASE RelayEvent \/ StreamOver
    BY <1>3, <1>4, <1>7 DEF RelayEvent, StreamOver, Receives
<1>8. CASE ClientLeaves
    BY <1>8 DEF ClientLeaves, Client
<1>9. CASE LineTooLong \/ WriteFails \/ (\E b \in Backends : Choose(b)) \/ UNCHANGED vars
    BY <1>4, <1>9 DEF LineTooLong, WriteFails, Choose, vars
<1> QED BY <1>5, <1>6, <1>7, <1>8, <1>9 DEF Next

LEMMA NextSplit ==
    ASSUME [Next]_vars
    PROVE  Accept \/ (\E b \in Backends : Choose(b)) \/ Later \/ UNCHANGED vars
BY DEF Next, Later

LEMMA CallStep == CallInv /\ [Next]_vars => CallInv'
<1> SUFFICES ASSUME CallInv, [Next]_vars PROVE CallInv'
    OBVIOUS
<1>0. Client'
    BY ClientStep DEF CallInv
<1>1. CASE Accept
    <2>1. UNCHANGED <<conv, format, tried, heard>> /\ pc' \in {"done", "choose"} /\ pc = "accept"
        BY <1>1 DEF Accept, Finish
    <2>2. pc' = "choose" => Entered'
        BY <1>1 DEF Accept, Finish, Entered
    <2>3. tried = <<>>
        BY <2>1 DEF CallInv, TriedOnce
    <2> QED BY <1>0, <2>1, <2>2, <2>3 DEF CallInv, Formatted, TriedOnce, Asked
<1>2. ASSUME NEW b \in Backends, Choose(b) PROVE CallInv'
    <2>1. /\ UNCHANGED <<conv, format, body>> /\ tried' = Append(tried, b) /\ pc' = "call"
          /\ ~Contains(tried, b) /\ pc = "choose"
          /\ heard' = IF Direct THEN rewriteModel(body, b)
                      ELSE ForwardRequest(format[b], body, b, Streams)
        BY <1>2 DEF Choose
    <2>2. tried' \in Seq(Backends) /\ tried' # <<>> /\ Len(tried') = Len(tried) + 1
        BY <2>1 DEF CallInv, TriedOnce
    <2>3. sel' = b
        BY <2>1, <2>2 DEF sel, Last, CallInv, TriedOnce
    <2>4. TriedOnce'
        <3>1. \A i \in 1..Len(tried) : tried'[i] = tried[i] /\ tried[i] # b
            BY <2>1 DEF CallInv, TriedOnce, Contains
        <3>2. tried'[Len(tried) + 1] = b /\ DOMAIN tried' = 1..(Len(tried) + 1)
            BY <2>1, <2>2 DEF CallInv, TriedOnce
        <3>3. ASSUME NEW i \in DOMAIN tried', NEW j \in DOMAIN tried', tried'[i] = tried'[j]
              PROVE  i = j
            <4>1. Len(tried) \in Nat /\ DOMAIN tried = 1..Len(tried)
                BY DEF CallInv, TriedOnce
            <4>2. CASE i \in 1..Len(tried) /\ j \in 1..Len(tried)
                BY <3>1, <3>3, <4>1, <4>2 DEF CallInv, TriedOnce
            <4> QED BY <3>1, <3>2, <3>3, <4>1, <4>2
        <3> QED BY <2>1, <2>2, <3>3 DEF TriedOnce
    <2>5. Entered /\ Entered' = Entered
        BY <2>1 DEF CallInv, Asked, Entered, OpenAIRequest
    <2>6. heard' = AskedOf(b)'
        BY <2>1 DEF AskedOf, Direct, Streams, rewriteModel, ForwardRequest
    <2>7. Asked'
        <3>1. heard' = (AskedOf(sel))'
            BY <2>3, <2>6 DEF AskedOf
        <3> QED BY <2>2, <2>5, <3>1 DEF Asked
    <2> QED BY <1>0, <2>1, <2>4, <2>7 DEF CallInv, Formatted
<1>3. CASE Later
    <2>1. /\ UNCHANGED <<conv, format, body, tried, heard>>
          /\ pc' \in {"choose", "call", "stream"} => pc' = pc \/ pc = "call"
          /\ pc' = "accept" => pc = "accept"
        BY <1>3, LaterKeeps
    <2>2. sel' = sel /\ Entered' = Entered /\ \A b : AskedOf(b)' = AskedOf(b)
        BY <2>1 DEF sel, Entered, AskedOf, Direct, Streams
    <2>3. AskedOf(sel)' = AskedOf(sel)
        BY <2>1, <2>2 DEF AskedOf, Direct, Streams
    <2> QED BY <1>0, <2>1, <2>2, <2>3 DEF CallInv, Formatted, TriedOnce, Asked
<1>4. CASE UNCHANGED vars
    <2>1. AskedOf(sel)' = AskedOf(sel) /\ Entered' = Entered
        BY <1>4 DEF vars, AskedOf, Direct, Streams, sel, Entered
    <2> QED BY <1>0, <1>4, <2>1 DEF vars, CallInv, Formatted, TriedOnce, Asked
<1> QED BY <1>1, <1>2, <1>3, <1>4, NextSplit

LEMMA Selected ==
    ASSUME CallInv, tried # <<>>
    PROVE  /\ sel \in Backends /\ Contains(tried, sel) /\ format[sel] \in Formats
           /\ heard = AskedOf(sel) /\ Entered
<1>1. tried \in Seq(Backends) /\ Len(tried) \in 1..Len(tried)
    BY DEF CallInv, TriedOnce
<1>2. sel \in Backends /\ Contains(tried, sel)
    BY <1>1 DEF sel, Last, Contains
<1> QED BY <1>2 DEF CallInv, Asked, Formatted

-----------------------------------------------------------------------------
(* Blame *)

(* Only a Responses client can have a vendor told to stream what the       *)
(* caller then cannot read.                                                *)
LEMMA OnlyResponses ==
    ASSUME CallInv, tried # <<>>, ~Streams, Unreadable
    PROVE  conv.protocol = "responses" /\ conv.stream
<1>0. ~Direct
    BY DEF Direct
<1>1. /\ format[sel] \in Formats /\ heard = ForwardRequest(format[sel], body, sel, Streams) /\ Entered
      /\ conv \in Conversation
    BY <1>0, Selected DEF AskedOf, CallInv, Formatted
<1>2. heard.stream /\ format[sel] # "gemini"
    BY DEF Unreadable
<1> DEFINE r == Request(conv)
<1>3. r.stream = conv.stream
    BY DEF Request
<1> HIDE DEF r
<1>4. body.stream = (conv.protocol \in {"chat", "responses", "anthropic"} /\ conv.stream)
    <2>1. conv.protocol \in Protocols /\ conv.stream \in BOOLEAN
        BY <1>1 DEF Conversation
    <2>2. body = OpenAIRequest(conv.protocol, r)
        BY <1>1 DEF Entered, r
    <2> QED BY <1>3, <2>1, <2>2
        DEF OpenAIRequest, Protocols, OpenAIBody, OpenAIResponsesRequestToOpenAI,
            AnthropicRequestToOpenAI, GeminiRequestToOpenAI, BedrockRequestToOpenAI
<1>5. heard.stream => body.stream
    <2>1. body = [model |-> body.model, system |-> body.system, messages |-> body.messages,
                  stream |-> body.stream, max |-> body.max, temp |-> body.temp,
                  topP |-> body.topP]
        BY <1>1 DEF Entered, OpenAIRequest, OpenAIBody, OpenAIResponsesRequestToOpenAI, Protocols,
            AnthropicRequestToOpenAI, GeminiRequestToOpenAI, BedrockRequestToOpenAI, Conversation
    <2> QED BY <1>1, <1>2, <2>1
        DEF ForwardRequest, Formats, rewriteModel, openAIToAnthropicRequest,
            openAIToBedrockRequest, openAIToResponsesRequest
<1>6. conv.protocol \in {"chat", "responses", "anthropic"} /\ conv.stream
    BY <1>2, <1>4, <1>5
<1> QED BY <1>6 DEF Streams

(* Nobody has an answer or blame who has not been tried, and nobody has    *)
(* either while the call is out.                                           *)
BlameInv ==
    /\ DOMAIN answer = Backends
    /\ blamed \subseteq Backends
    /\ \A b \in Backends : answer[b] # "none" => Contains(tried, b)
    /\ pc = "call" => answer[sel] = "none"
    /\ BlameMatchesAnswers

LEMMA BlameInit == Init => BlameInv
BY DEF Init, BlameInv, BlameMatchesAnswers, Uncountable

LEMMA BlameStep == CallInv /\ BlameInv /\ [Next]_vars => BlameInv'
<1> SUFFICES ASSUME CallInv, BlameInv, [Next]_vars PROVE BlameInv'
    OBVIOUS
<1>0. ASSUME UNCHANGED <<conv, format, tried, answer, blamed>>, pc' = "call" => pc = "call",
             client'.here = client.here \/ ~client'.here
      PROVE  BlameInv'
    <2>1. sel' = sel /\ Direct' = Direct
        BY <1>0 DEF sel, Direct, Streams
    <2>2. BlameMatchesAnswers'
        BY <1>0, <2>1 DEF BlameInv, BlameMatchesAnswers, Uncountable
    <2> QED BY <1>0, <2>1, <2>2 DEF BlameInv
<1>1. ASSUME NEW b \in Backends, Choose(b) PROVE BlameInv'
    <2>1. /\ UNCHANGED <<conv, format, answer, blamed, client>> /\ tried' = Append(tried, b)
          /\ ~Contains(tried, b)
        BY <1>1 DEF Choose
    <2>2. tried \in Seq(Backends)
        BY DEF CallInv, TriedOnce
    <2>3. sel' = b
        BY <2>1, <2>2 DEF sel, Last
    <2>4. \A a : Contains(tried, a) => Contains(tried, a)'
        BY <2>1, <2>2 DEF Contains
    <2>5. BlameMatchesAnswers'
        BY <2>1 DEF BlameInv, BlameMatchesAnswers, Uncountable, Direct, Streams
    <2> QED BY <2>1, <2>3, <2>4, <2>5 DEF BlameInv
<1> DEFINE Unread(how) == how = "detailed" /\ format[sel] = "openai-responses"
           Deserves(how) ==
              \/ how \in {"refused", "throttled", "server_error"}
              \/ Unread(how)
              \/ how = "client_error" /\ ~Direct
              \/ how = "ok" /\ conv.protocol = "responses" /\ conv.stream
              \/ how = "cancelled" /\ ~client.here
           Outcome(how) ==
              /\ answer' = [answer EXCEPT ![sel] = how]
              /\ \/ blamed' = blamed /\ how \in {"ok", "client_error", "detailed"} /\ ~Unread(how)
                 \/ blamed' = blamed \cup {sel} /\ Deserves(how)
<1>2. ASSUME pc = "call", tried' = tried, UNCHANGED <<conv, format>>, pc' # "call",
             client'.here = client.here, NEW how \in Answers, Outcome(how)
      PROVE  BlameInv'
    <2>1. sel \in Backends /\ Contains(tried, sel) /\ answer[sel] = "none" /\ sel \notin blamed
        <3>1. tried # <<>>
            BY <1>2 DEF CallInv, TriedOnce
        <3>2. sel \in Backends /\ Contains(tried, sel)
            BY <3>1, Selected
        <3>3. answer[sel] = "none"
            BY <1>2 DEF BlameInv
        <3> QED BY <3>2, <3>3 DEF BlameInv, BlameMatchesAnswers, Uncountable
    <2>2. DOMAIN answer' = Backends /\ answer'[sel] = how
          /\ \A b \in Backends : b # sel => answer'[b] = answer[b]
        BY <1>2, <2>1 DEF BlameInv
    <2>3. Direct' = Direct
        BY <1>2 DEF Direct, Streams
    <2>4. ASSUME NEW b \in Backends
          PROVE  /\ answer'[b] \in {"refused", "throttled", "server_error"} => b \in blamed'
                 /\ Uncountable(b)' => b \in blamed'
                 /\ b \in blamed' =>
                       \/ answer'[b] \in {"refused", "throttled", "server_error"}
                       \/ Uncountable(b)'
                       \/ answer'[b] = "client_error" /\ ~Direct'
                       \/ answer'[b] = "ok" /\ conv'.protocol = "responses" /\ conv'.stream
                       \/ answer'[b] = "cancelled" /\ ~client'.here
        <3>1. CASE b = sel
            BY <1>2, <2>1, <2>2, <2>3, <3>1 DEF Uncountable
        <3>2. CASE b # sel
            BY <1>2, <2>2, <2>3, <3>2 DEF BlameInv, BlameMatchesAnswers, Uncountable
        <3> QED BY <3>1, <3>2
    <2>5. BlameMatchesAnswers'
        BY <2>4 DEF BlameMatchesAnswers
    <2>6. ASSUME NEW b \in Backends, answer'[b] # "none" PROVE Contains(tried, b)'
        BY <1>2, <2>1, <2>2, <2>6 DEF BlameInv, Contains
    <2>7. blamed' \subseteq Backends
        BY <1>2, <2>1 DEF BlameInv
    <2> QED BY <1>2, <2>2, <2>5, <2>6, <2>7 DEF BlameInv
<1>3. ASSUME NEW how \in {"refused", "client_error", "throttled", "server_error"},
             pc = "call", Fail(how)
      PROVE  BlameInv'
    <2>1. client'.here = client.here
        BY <1>3 DEF Fail, Finish, CallInv, Client
    <2>2. UNCHANGED <<conv, format, tried>> /\ answer' = [answer EXCEPT ![sel] = how] /\ pc' # "call"
        BY <1>3 DEF Fail, Finish
    <2>3. Outcome(how) /\ how \in Answers
        BY <1>3 DEF Fail, Unblamed, Answers
    <2> HIDE DEF Outcome
    <2> QED BY <1>2, <1>3, <2>1, <2>2, <2>3
<1>4. CASE Cancelled
    <2>1. /\ UNCHANGED <<conv, format, tried, client>> /\ Outcome("cancelled")
          /\ pc' # "call" /\ pc = "call" /\ "cancelled" \in Answers
        BY <1>4 DEF Cancelled, Fail, Unblamed, Answers
    <2> HIDE DEF Outcome
    <2> QED BY <1>2, <2>1
<1>5. CASE StreamBegins
    <2>1. /\ UNCHANGED <<conv, format, tried>> /\ Outcome("ok") /\ "ok" \in Answers
          /\ pc' # "call" /\ pc = "call"
        BY <1>5 DEF StreamBegins, Answers
    <2>2. client'.here = client.here
        BY <1>5 DEF StreamBegins, CallInv, Client
    <2> HIDE DEF Outcome
    <2> QED BY <1>2, <2>1, <2>2
<1>13. CASE Answered
    <2>1. PICK detailed \in BOOLEAN, why \in Reasons :
              /\ Parses(format[sel], VendorReply(format[sel], why, detailed))
              /\ answer' = [answer EXCEPT ![sel] = Usage(detailed)]
        BY <1>13, Zenon DEF Answered
    <2>2. ~Unread(Usage(detailed)) /\ Usage(detailed) \in {"ok", "detailed"}
        BY <2>1 DEF Parses, VendorReply, Usage
    <2>3. UNCHANGED <<conv, format, tried, blamed>> /\ pc' # "call" /\ pc = "call"
        BY <1>13 DEF Answered
    <2>4. Outcome(Usage(detailed)) /\ Usage(detailed) \in Answers
        BY <2>1, <2>2, <2>3 DEF Answers
    <2>5. client'.here = client.here
        BY <1>13 DEF Answered, CallInv, Client
    <2> HIDE DEF Outcome
    <2> QED BY <1>2, <2>3, <2>4, <2>5
<1>14. CASE AnsweredInDetail
    <2>1. PICK detailed \in BOOLEAN, why \in Reasons :
              /\ ~Parses(format[sel], VendorReply(format[sel], why, detailed))
              /\ Fail(Usage(detailed))
        BY <1>14, Zenon DEF AnsweredInDetail
    <2>2. Unread(Usage(detailed)) /\ Usage(detailed) = "detailed"
        BY <2>1 DEF Parses, VendorReply, Usage
    <2>3. /\ UNCHANGED <<conv, format, tried, client>> /\ pc' # "call" /\ pc = "call"
          /\ answer' = [answer EXCEPT ![sel] = "detailed"] /\ blamed' = blamed \cup {sel}
        BY <1>14, <2>1, <2>2 DEF AnsweredInDetail, Fail, Unblamed
    <2>4. Outcome("detailed") /\ "detailed" \in Answers
        BY <2>2, <2>3 DEF Answers
    <2> HIDE DEF Outcome
    <2> QED BY <1>2, <2>3, <2>4
<1>6. CASE AnsweredUnreadably
    <2>1. /\ UNCHANGED <<conv, format, tried>> /\ answer' = [answer EXCEPT ![sel] = "ok"]
          /\ pc' # "call" /\ pc = "call"
          /\ blamed' = blamed \/ blamed' = blamed \cup {sel}
          /\ client' = client \/ client' = [client EXCEPT !.status = "ok"]
        BY <1>6 DEF AnsweredUnreadably, Fail, Finish, Unblamed
    <2>2. client'.here = client.here
        BY <2>1 DEF CallInv, Client
    <2>3. conv.protocol = "responses" /\ conv.stream
        BY <1>6, OnlyResponses DEF AnsweredUnreadably, CallInv, TriedOnce
    <2>4. Outcome("ok") /\ "ok" \in Answers
        BY <2>1, <2>3 DEF Answers
    <2> HIDE DEF Outcome
    <2> QED BY <1>2, <2>1, <2>2, <2>4
<1>7. CASE Failed
    BY <1>3, <1>7 DEF Failed
<1>8. CASE Accept \/ GiveUp
    <2>1. client' = client \/ \E st : client' = [client EXCEPT !.status = st]
        BY <1>8 DEF Accept, GiveUp, Finish
    <2>2. client'.here = client.here
        BY <2>1 DEF CallInv, Client
    <2> QED BY <1>0, <1>8, <2>2 DEF Accept, GiveUp, Finish
<1>9. CASE RelayEvent \/ StreamOver
    <2>1. client'.here = client.here
        BY <1>9 DEF RelayEvent, StreamOver, Receives, CallInv, Client
    <2> QED BY <1>0, <1>9, <2>1 DEF RelayEvent, StreamOver
<1>10. CASE LineTooLong \/ WriteFails
    BY <1>0, <1>10 DEF LineTooLong, WriteFails
<1>11. CASE ClientLeaves
    <2>1. ~client'.here
        BY <1>11 DEF ClientLeaves, CallInv, Client
    <2> QED BY <1>0, <1>11, <2>1 DEF ClientLeaves
<1>12. CASE UNCHANGED vars
    BY <1>0, <1>12 DEF vars
<1> QED BY <1>1, <1>4, <1>5, <1>6, <1>7, <1>8, <1>9, <1>10, <1>11, <1>12, <1>13, <1>14 DEF Next

(* Whoever refused, throttled or failed the request is blamed, and nobody  *)
(* else but as BlameMatchesAnswers allows, in any run of any handler       *)
(* (protocol.go:160-195, forwarder.go:60-110).                             *)
THEOREM BlameIsEarned == Spec => []BlameMatchesAnswers
<1>1. BlameInv => BlameMatchesAnswers
    BY DEF BlameInv
<1> QED BY CallInit, CallStep, BlameInit, BlameStep, <1>1, PTL DEF Spec

-----------------------------------------------------------------------------
(* A whole answer *)

Whys == {"end", "length", "filter"}

LEMMA StringOfVendor ==
    ASSUME NEW f, NEW why, NEW detailed
    PROVE  String(VendorReply(f, why, detailed).content) = Words
<1> DEFINE content == VendorReply(f, why, detailed).content
           texts == [i \in DOMAIN content |-> IF IsText(content[i]) THEN content[i].text ELSE <<>>]
<1>1. content = <<Block("thinking", Thought), Block("text", Words)>>
    BY DEF VendorReply
<1>2. texts = <<<<>>, Words>>
    BY <1>1 DEF Block, IsText
<1>3. Words \in Seq(STRING) /\ <<<<>>>> \in Seq(Seq(STRING)) /\ <<>> \in Seq(STRING)
    BY RelayAssumption DEF Text
<1>4. texts = Append(<<<<>>>>, Words) /\ <<>> \o Words = Words
    BY <1>2, <1>3
<1>5. FlattenSeq(<<<<>>>>) = <<>>
    BY <1>3, FlattenOne
<1>6. FlattenSeq(Append(<<<<>>>>, Words)) = FlattenSeq(<<<<>>>>) \o Words
    BY <1>3, FlattenAppend, Zenon
<1>7. String(content) = FlattenSeq(texts)
    BY DEF String
<1> HIDE DEF content, texts
<1>8. String(content) = Words
    BY <1>4, <1>5, <1>6, <1>7, Zenon
<1> QED BY <1>8 DEF content

LEMMA AllTextOfVendor ==
    ASSUME NEW f, NEW why, NEW detailed
    PROVE  AllText(VendorReply(f, why, detailed).content) = Thought \o Words
<1> DEFINE content == VendorReply(f, why, detailed).content
           texts == [i \in DOMAIN content |-> content[i].text]
<1>1. content = <<Block("thinking", Thought), Block("text", Words)>>
    BY DEF VendorReply
<1>2. texts = <<Thought, Words>>
    BY <1>1 DEF Block
<1>3. Words \in Seq(STRING) /\ Thought \in Seq(STRING) /\ <<Thought>> \in Seq(Seq(STRING))
    <2>1. Words \in Seq(STRING)
        BY RelayAssumption DEF Text
    <2>2. Thought \in Seq(STRING)
        BY RelayAssumption DEF Text
    <2>3. <<>> \in Seq(Seq(STRING)) /\ <<Thought>> = Append(<<>>, Thought)
        BY <2>2
    <2>4. Append(<<>>, Thought) \in Seq(Seq(STRING))
        BY <2>2, <2>3
    <2> QED BY <2>1, <2>2, <2>3, <2>4, Zenon
<1>4. texts = Append(<<Thought>>, Words)
    BY <1>2, <1>3
<1>5. FlattenSeq(<<Thought>>) = Thought
    BY <1>3, FlattenOne
<1>6. FlattenSeq(Append(<<Thought>>, Words)) = FlattenSeq(<<Thought>>) \o Words
    BY <1>3, FlattenAppend, Zenon
<1>7. AllText(content) = FlattenSeq(texts)
    BY DEF AllText
<1> HIDE DEF content, texts
<1>8. AllText(content) = Thought \o Words
    BY <1>4, <1>5, <1>6, <1>7, Zenon
<1> QED BY <1>8 DEF content

(* What a vendor's client is told of the text.                             *)
Related(f) == IF f = "gemini" THEN Thought \o Words ELSE Words

(* In OpenAI's format every vendor's answer is the same, but for Gemini's  *)
(* thoughts and for Responses.                                             *)
LEMMA Uniform ==
    ASSUME NEW f \in Formats, NEW why \in Whys, NEW detailed
    PROVE  OpenAIReply(f, VendorReply(f, why, detailed)) =
              IF f = "openai-responses" THEN Reply(Related(f), "stop", 0, 0, 5)
              ELSE Reply(Related(f), StopWord("chat", why), 3, 2, 5)
<1> DEFINE r == VendorReply(f, why, detailed)
<1>0. AllText(r.content) = Thought \o Words
    BY AllTextOfVendor
<1>1. String(r.content) = Words
    BY StringOfVendor
<1>2. r.stop = StopWord(f, why) /\ r.in = 3 /\ r.out = 2 /\ r.total = 5
    BY DEF VendorReply
<1> HIDE DEF r
<1> USE DEF Related
<1>3. 3 + 2 = 5
    OBVIOUS
<1>4. CASE f = "openai-compatible"
    BY <1>1, <1>2, <1>4 DEF OpenAIReply, StopWord, Whys, r
<1>5. CASE f = "anthropic"
    BY <1>1, <1>2, <1>3, <1>5
       DEF OpenAIReply, StopWord, Whys, anthropicToOpenAIResponse, OpenAIFinish, r
<1>6. CASE f = "gemini"
    BY <1>0, <1>2, <1>6 DEF OpenAIReply, StopWord, Whys, geminiToOpenAIResponse, r
<1>7. CASE f = "bedrock"
    BY <1>1, <1>2, <1>7 DEF OpenAIReply, StopWord, Whys, bedrockToOpenAIResponse, r
<1>8. CASE f = "openai-responses"
    BY <1>1, <1>2, <1>8 DEF OpenAIReply, responsesToOpenAIResponse, r
<1> QED BY <1>4, <1>5, <1>6, <1>7, <1>8 DEF Formats

LEMMA InOwnWords ==
    ASSUME NEW p \in Protocols, NEW why \in Whys, NEW text, NEW in \in Nat, NEW out \in Nat,
           NEW total
    PROVE  LET reply == ClientReply(p, Reply(text, StopWord("chat", why), in, out, total))
           IN  /\ reply.text = text /\ reply.stop = StopWord(p, why)
               /\ reply.in = in /\ reply.out = out
               /\ reply.total = IF p = "anthropic" THEN in + out ELSE total
<1> DEFINE r == Reply(text, StopWord("chat", why), in, out, total)
<1>1. /\ r = [text |-> r.text, stop |-> r.stop, in |-> r.in, out |-> r.out, total |-> r.total]
      /\ r.text = text /\ r.in = in /\ r.out = out /\ r.total = total
      /\ r.stop = CASE why = "end" -> "stop" [] why = "length" -> "length"
                     [] why = "filter" -> "content_filter"
    BY DEF Reply, StopWord, Whys
<1> HIDE DEF r
<1> SUFFICES LET reply == ClientReply(p, r)
             IN  /\ reply.text = text /\ reply.stop = StopWord(p, why)
                 /\ reply.in = in /\ reply.out = out
                 /\ reply.total = IF p = "anthropic" THEN in + out ELSE total
    BY DEF r
<1>2. CASE p = "chat"
    BY <1>1, <1>2 DEF ClientReply, StopWord, Whys
<1>3. CASE p = "responses"
    BY <1>1, <1>3 DEF ClientReply, StopWord, Whys, OpenAIResponseToOpenAIResponses
<1>4. CASE p = "anthropic"
    BY <1>1, <1>4 DEF ClientReply, StopWord, Whys, OpenAIResponseToAnthropic, AnthropicStop, Reply
<1>5. CASE p = "gemini"
    BY <1>1, <1>5 DEF ClientReply, StopWord, Whys, OpenAIResponseToGemini, GeminiFinish
<1>6. CASE p = "bedrock"
    BY <1>1, <1>6 DEF ClientReply, StopWord, Whys, OpenAIResponseToBedrock, BedrockStop
<1> QED BY <1>2, <1>3, <1>4, <1>5, <1>6 DEF Protocols

(* A client that does not stream is told "ok" once, in its last step.      *)
ReplyInv ==
    client.status = "ok" /\ ~Streams => pc = "done" /\ tried # <<>> /\ ReplyReachesClient

LEMMA ReplyStep == CallInv /\ ReplyInv /\ [Next]_vars => ReplyInv'
<1> SUFFICES ASSUME CallInv, ReplyInv, [Next]_vars, client'.status = "ok", ~Streams'
             PROVE  (pc = "done" /\ tried # <<>> /\ ReplyReachesClient)'
    BY DEF ReplyInv
<1>0. UNCHANGED <<conv, format>> /\ ~Streams
    <2>1. UNCHANGED <<conv, format>>
        BY DEF Next, vars, Accept, Choose, GiveUp, Failed, Cancelled, Answered,
               AnsweredInDetail, AnsweredUnreadably, StreamBegins, RelayEvent, StreamOver, LineTooLong, WriteFails,
               ClientLeaves, Fail
    <2> QED BY <2>1 DEF Streams
<1>1. CASE UNCHANGED vars
    BY <1>0, <1>1 DEF vars, ReplyInv, ReplyReachesClient, Unreadable, sel, Streams
<1>2. CASE Answered
    <2>0. pc = "call" /\ tried # <<>>
        BY <1>2 DEF Answered, CallInv, TriedOnce
    <2>1. format[sel] \in Formats /\ conv.protocol \in Protocols /\ Reasons \subseteq Whys
        BY <2>0, Selected, RelayAssumption DEF CallInv, Formatted, Conversation, Whys
    <2> DEFINE f == format[sel]
    <2>2. PICK why \in Reasons, detailed \in BOOLEAN :
             LET reply == OpenAIReply(f, VendorReply(f, why, detailed))
             IN  /\ reason' = why /\ counted' = reply.in + reply.out /\ pc' = "done"
                 /\ client' = [client EXCEPT !.status = "ok",
                                             !.reply = ClientReply(conv.protocol, reply)]
        BY <1>2 DEF Answered
    <2>3. UNCHANGED <<tried, heard>> /\ sel' = sel
        BY <1>2 DEF Answered, sel
    <2> DEFINE reply == OpenAIReply(f, VendorReply(f, why, detailed))
    <2>4. client'.reply = ClientReply(conv.protocol, reply)
        <3>1. client' = [client EXCEPT !.status = "ok",
                                       !.reply = ClientReply(conv.protocol, reply)]
            BY <2>2, Zenon
        <3> HIDE DEF reply
        <3> QED BY <3>1 DEF CallInv, Client
    <2> DEFINE told == IF f = "openai-responses" THEN "end" ELSE why
               in == IF f = "openai-responses" THEN 0 ELSE 3
               out == IF f = "openai-responses" THEN 0 ELSE 2
    <2>5. reply = Reply(Related(f), StopWord("chat", told), in, out, 5)
        <3>1. StopWord("chat", "end") = "stop"
            BY DEF StopWord
        <3> QED BY <2>1, <3>1, Uniform
    <2>6. told \in Whys /\ in \in Nat /\ out \in Nat
        BY <2>1 DEF Whys
    <2>7. /\ client'.reply.text = Related(f) /\ client'.reply.stop = StopWord(conv.protocol, told)
          /\ client'.reply.in = in /\ client'.reply.out = out
          /\ client'.reply.total = IF conv.protocol = "anthropic" THEN in + out ELSE 5
        <3> HIDE DEF told, in, out, reply
        <3> QED BY <2>1, <2>4, <2>5, <2>6, InOwnWords
    <2>8. counted' = in + out
        <3>1. counted' = reply.in + reply.out
            BY <2>2, Zenon
        <3> HIDE DEF told, in, out, reply
        <3> QED BY <2>5, <3>1 DEF Reply
    <2>9. f # "openai-responses" => in = 3 /\ out = 2 /\ in + out = 5
        OBVIOUS
    <2>10. f = "openai-responses" => in + out = 0 /\ told = "end"
        OBVIOUS
    <2>11. f # "openai-responses" => told = why
        OBVIOUS
    <2>12. tried' # <<>> /\ format' = format /\ conv' = conv
        BY <1>0, <2>0, <2>3
    <2> HIDE DEF in, out, told, f
    <2> QED BY <2>2, <2>3, <2>7, <2>8, <2>9, <2>10, <2>11, <2>12 DEF ReplyReachesClient, Related, f
<1>3. CASE AnsweredUnreadably
    <2>1. pc = "call" /\ tried # <<>> /\ Unreadable /\ client.status # "ok"
        BY <1>0, <1>3 DEF AnsweredUnreadably, CallInv, TriedOnce, ReplyInv
    <2>2. UNCHANGED <<tried, heard>> /\ Unreadable'
        BY <1>0, <1>3, <2>1 DEF AnsweredUnreadably, Unreadable, sel, Fail
    <2>3. pc' = "done"
        BY <1>3, <2>1 DEF AnsweredUnreadably, Fail, Finish, Unblamed, Direct
    <2> QED BY <2>1, <2>2, <2>3 DEF ReplyReachesClient
<1>4. CASE StreamBegins
    BY <1>0, <1>4 DEF StreamBegins
<1>5. ASSUME client' = client, pc # "done" PROVE FALSE
    BY <1>0, <1>5 DEF ReplyInv
<1>6. ASSUME NEW st \in {"bad_request", "error"}, client' = [client EXCEPT !.status = st]
      PROVE  FALSE
    BY <1>6 DEF CallInv, Client
<1>7. CASE Accept \/ GiveUp
    BY <1>5, <1>6, <1>7 DEF Accept, GiveUp, Finish
<1>8. CASE Failed \/ Cancelled \/ AnsweredInDetail
    <2>1. pc = "call" /\ (client' = client \/ client' = [client EXCEPT !.status = "error"])
        BY <1>8 DEF Failed, Cancelled, AnsweredInDetail, Fail, Finish
    <2> QED BY <1>5, <1>6, <2>1
<1>9. CASE (\E b \in Backends : Choose(b)) \/ LineTooLong \/ WriteFails
    BY <1>5, <1>9 DEF Choose, LineTooLong, WriteFails
<1>10. CASE RelayEvent \/ StreamOver \/ ClientLeaves
    <2>1. pc # "done" /\ client'.status = client.status
        BY <1>10 DEF RelayEvent, StreamOver, ClientLeaves, Receives, CallInv, Client
    <2> QED BY <1>0, <2>1 DEF ReplyInv
<1> QED BY <1>1, <1>2, <1>3, <1>4, <1>7, <1>8, <1>9, <1>10 DEF Next

(* A client that waits for the whole answer gets it in its own protocol:   *)
(* text, reason and tokens, from any vendor but as ReplyReachesClient says *)
(* (the translators of responses in protocol and provider).                *)
THEOREM WholeAnswer == Spec => []ReplyReachesClient
<1>1. Init => ReplyInv
    BY DEF Init, ReplyInv
<1>2. ReplyInv => ReplyReachesClient
    BY DEF ReplyInv, ReplyReachesClient
<1> QED BY CallInit, CallStep, <1>1, ReplyStep, <1>2, PTL DEF Spec

-----------------------------------------------------------------------------
(* What vendors stream *)

L == Len(Words)
EventTypes ==
    {"chunk", "usage", "[DONE]", "json", "vendor", "candidate", "message_start",
     "content_block_start", "content_block_delta", "content_block_stop", "message_delta",
     "message_stop"}
StopReasons ==
    {NoStop, "stop", "length", "content_filter", "end_turn", "max_tokens", "content_filtered",
     "STOP", "MAX_TOKENS", "SAFETY", "completed"}
Events == [type : EventTypes, role : BOOLEAN, text : Text, stop : StopReasons]
WordAt(i) == IF i \in 1..L THEN <<Words[i]>> ELSE <<>>

HasRole(e) == e.role = TRUE
NoRole(e) == e.role = FALSE

(* The words come after the first off events, the reason in event end.     *)
Told(s, off, end, stop) ==
    /\ s \in Seq(Events) /\ off \in 0..2 /\ end \in Nat /\ end >= off + L /\ Len(s) > end
    /\ \A i \in 1..Len(s) : /\ s[i].text = WordAt(i - off)
                            /\ s[i].stop = IF i = end THEN stop ELSE NoStop

(* Chunks, the first with the role, then the usage and the end mark.       *)
Chunked(s, end) ==
    /\ Len(s) = end + 2
    /\ HasRole(s[1]) /\ \A i \in 2..Len(s) : NoRole(s[i])
    /\ \A i \in 1..end : s[i].type = "chunk"
    /\ s[end + 1] = Mark("usage") /\ s[end + 2] = Done

(* Anthropic's events.                                                     *)
Spoken(s) ==
    /\ Len(s) = L + 5
    /\ s[1].type = "message_start" /\ s[2].type = "content_block_start"
    /\ \A i \in 3..(L + 2) : s[i].type = "content_block_delta"
    /\ s[L + 3].type = "content_block_stop" /\ s[L + 4].type = "message_delta"
    /\ s[L + 5].type = "message_stop"

(* A vendor's own format, or an answer that was not to be streamed.        *)
Foreign(s) ==
    /\ s \in Seq(Events) /\ Len(s) > 0
    /\ \A i \in 1..Len(s) : /\ s[i].type \in {"json", "vendor"} /\ NoRole(s[i])
                            /\ i < Len(s) => s[i].stop = NoStop

LEMMA WordsType == Words \in Seq(STRING) /\ L \in Nat /\ L >= 1 /\ \A i : WordAt(i) \in Text
<1>1. Words \in Seq(STRING) /\ Words # <<>>
    BY RelayAssumption DEF Text
<1>2. L \in Nat /\ L >= 1
    BY <1>1 DEF L
<1>3. ASSUME NEW i PROVE WordAt(i) \in Text
    <2>1. CASE i \in 1..L
        <3>1. Words[i] \in STRING
            BY <1>1, <2>1 DEF L
        <3> QED BY <2>1, <3>1 DEF WordAt, Text
    <2>2. CASE i \notin 1..L
        <3>1. <<>> \in Text
            BY DEF Text
        <3> QED BY <2>2, <3>1 DEF WordAt
    <2> QED BY <2>1, <2>2
<1> QED BY <1>1, <1>2, <1>3

LEMMA EventType ==
    ASSUME NEW type \in EventTypes, NEW role \in BOOLEAN, NEW text \in Text, NEW stop \in StopReasons
    PROVE  [type |-> type, role |-> role, text |-> text, stop |-> stop] \in Events
BY DEF Events

LEMMA Marks ==
    /\ RoleChunk = [type |-> "chunk", role |-> TRUE, text |-> <<>>, stop |-> NoStop]
    /\ \A t : Mark(t) = [type |-> t, role |-> FALSE, text |-> <<>>, stop |-> NoStop]
    /\ RoleChunk \in Events /\ Done \in Events /\ \A t \in EventTypes : Mark(t) \in Events
    /\ \A stop \in StopReasons : Chunk(<<>>, stop) \in Events
    /\ <<>> \in Text
<1>1. RoleChunk = [type |-> "chunk", role |-> TRUE, text |-> <<>>, stop |-> NoStop]
    <2> DEFINE m == Mark("chunk")
    <2>1. m = [type |-> "chunk", role |-> FALSE, text |-> <<>>, stop |-> NoStop]
        BY DEF Mark, Event
    <2>2. RoleChunk = [m EXCEPT !.role = TRUE]
        BY DEF RoleChunk
    <2> HIDE DEF m
    <2> QED BY <2>1, <2>2
<1>2. \A t : Mark(t) = [type |-> t, role |-> FALSE, text |-> <<>>, stop |-> NoStop]
    BY DEF Mark, Event
<1>3. <<>> \in Text /\ NoStop \in StopReasons /\ "chunk" \in EventTypes /\ "[DONE]" \in EventTypes
    BY DEF Text, EventTypes, StopReasons
<1>4. RoleChunk \in Events
    BY <1>1, <1>3, EventType
<1>5. ASSUME NEW t \in EventTypes PROVE Mark(t) \in Events
    BY <1>2, <1>3, EventType
<1>6. Done \in Events
    BY <1>3, <1>5 DEF Done
<1>7. ASSUME NEW stop \in StopReasons PROVE Chunk(<<>>, stop) \in Events
    BY <1>3, EventType DEF Chunk, Event
<1> QED BY <1>1, <1>2, <1>3, <1>4, <1>5, <1>6, <1>7

Is(e, type, text, stop) == e.type = type /\ NoRole(e) /\ e.text = text /\ e.stop = stop

LEMMA Fields ==
    ASSUME NEW type, NEW text, NEW stop
    PROVE  /\ Is(Event(type, text, stop), type, text, stop)
           /\ Is(Mark(type), type, <<>>, NoStop)
           /\ RoleChunk.type = "chunk" /\ HasRole(RoleChunk)
           /\ RoleChunk.text = <<>> /\ RoleChunk.stop = NoStop
<1>1. Is(Event(type, text, stop), type, text, stop)
    BY DEF Event, Is, NoRole
<1>2. Is(Mark(type), type, <<>>, NoStop)
    BY DEF Mark, Event, Is, NoRole
<1>3. /\ RoleChunk.type = "chunk" /\ HasRole(RoleChunk)
      /\ RoleChunk.text = <<>> /\ RoleChunk.stop = NoStop
    BY Marks DEF HasRole
<1> QED BY <1>1, <1>2, <1>3

LEMMA DeltasType ==
    ASSUME NEW type \in EventTypes
    PROVE  /\ Deltas(type) \in Seq(Events) /\ Len(Deltas(type)) = L
           /\ \A i \in 1..L : Is(Deltas(type)[i], type, WordAt(i), NoStop)
<1>1. L \in Nat /\ DOMAIN Words = 1..L
    BY WordsType DEF L
<1> DEFINE e(i) == Event(type, <<Words[i]>>, NoStop)
<1>2. ASSUME NEW i \in 1..L PROVE Is(e(i), type, WordAt(i), NoStop) /\ e(i) \in Events
    <2>1. WordAt(i) = <<Words[i]>> /\ WordAt(i) \in Text /\ NoStop \in StopReasons
        BY WordsType DEF WordAt, StopReasons
    <2>2. e(i) = [type |-> type, role |-> FALSE, text |-> WordAt(i), stop |-> NoStop]
        BY <2>1 DEF Event
    <2>3. e(i) \in Events
        BY <2>1, <2>2, EventType
    <2> QED BY <2>1, <2>3, Fields
<1>3. Deltas(type) = [i \in 1..L |-> e(i)]
    BY <1>1 DEF Deltas
<1> HIDE DEF e
<1>4. Deltas(type) \in Seq(Events) /\ Len(Deltas(type)) = L
    BY <1>1, <1>2, <1>3
<1>5. \A i \in 1..L : Deltas(type)[i] = e(i)
    BY <1>3
<1> QED BY <1>2, <1>4, <1>5

Joined(ab, a, b) ==
    /\ ab \in Seq(Events) /\ Len(ab) = Len(a) + Len(b)
    /\ \A i \in 1..Len(a) : ab[i] = a[i]
    /\ \A i \in 1..Len(b) : ab[Len(a) + i] = b[i]

LEMMA Two ==
    ASSUME NEW a \in Seq(Events), NEW b \in Seq(Events)
    PROVE  Joined(a \o b, a, b)
BY DEF Joined

LEMMA OwnChunked ==
    ASSUME NEW stop \in StopReasons, NEW s, s = OwnChunks(stop) \o <<Mark("usage"), Done>>
    PROVE  Told(s, 1, L + 2, stop) /\ Chunked(s, L + 2)
<1> DEFINE u == Mark("usage")
           last == Chunk(<<>>, stop)
           a == <<RoleChunk>>
           b == Deltas("chunk")
           c == <<last>>
           d == <<u, Done>>
           ab == a \o b
           abc == ab \o c
<1>0. L \in Nat /\ L >= 1
    BY WordsType
<1>1. /\ RoleChunk \in Events /\ last \in Events /\ u \in Events /\ Done \in Events
      /\ RoleChunk.type = "chunk" /\ HasRole(RoleChunk)
      /\ RoleChunk.text = <<>> /\ RoleChunk.stop = NoStop
      /\ Is(last, "chunk", <<>>, stop)
      /\ Is(u, "usage", <<>>, NoStop) /\ Is(Done, "[DONE]", <<>>, NoStop)
    <2>1. "usage" \in EventTypes
        BY DEF EventTypes
    <2> QED BY <2>1, Marks, Fields DEF Done, Chunk
<1>2. /\ b \in Seq(Events) /\ Len(b) = L
      /\ \A i \in 1..L : Is(b[i], "chunk", WordAt(i), NoStop)
    <2>1. "chunk" \in EventTypes
        BY DEF EventTypes
    <2> QED BY <2>1, DeltasType
<1>3. s = abc \o d
    BY DEF OwnChunks
<1> HIDE DEF u, last
<1>4. /\ a \in Seq(Events) /\ Len(a) = 1 /\ a[1] = RoleChunk
      /\ c \in Seq(Events) /\ Len(c) = 1 /\ c[1] = last
      /\ d \in Seq(Events) /\ Len(d) = 2 /\ d[1] = u /\ d[2] = Done
    BY <1>1
<1> HIDE DEF a, b, c, d
<1>5. Joined(ab, a, b)
    BY <1>2, <1>4, Two
<1>6. ab \in Seq(Events)
    BY <1>5 DEF Joined
<1> HIDE DEF ab
<1>7. Joined(abc, ab, c)
    BY <1>4, <1>6, Two DEF abc
<1>8. abc \in Seq(Events)
    BY <1>7 DEF Joined
<1> HIDE DEF abc
<1>9. Joined(s, abc, d)
    BY <1>3, <1>4, <1>8, Two
<1>10. Len(ab) = L + 1 /\ Len(abc) = L + 2 /\ Len(s) = L + 4
    BY <1>0, <1>2, <1>4, <1>5, <1>7, <1>9 DEF Joined
<1>11. /\ s[L + 3] = u /\ s[L + 4] = Done /\ s[L + 2] = last /\ s[1] = RoleChunk
       /\ \A i \in 2..(L + 1) : s[i] = b[i - 1]
    <2>1. s[L + 2 + 1] = u /\ s[L + 2 + 2] = Done /\ \A i \in 1..(L + 2) : s[i] = abc[i]
        BY <1>4, <1>9, <1>10 DEF Joined
    <2>2. abc[L + 1 + 1] = last /\ \A i \in 1..(L + 1) : abc[i] = ab[i]
        BY <1>4, <1>7, <1>10 DEF Joined
    <2>3. ab[1] = RoleChunk /\ \A i \in 1..L : ab[1 + i] = b[i]
        BY <1>2, <1>4, <1>5 DEF Joined
    <2>4. ASSUME NEW i \in 2..(L + 1) PROVE s[i] = b[i - 1]
        <3>1. i - 1 \in 1..L /\ 1 + (i - 1) = i /\ i \in 1..(L + 1) /\ i \in 1..(L + 2)
            BY <1>0
        <3>2. ab[i] = b[i - 1]
            BY <2>3, <3>1
        <3> QED BY <2>1, <2>2, <3>1, <3>2
    <2>5. /\ L + 2 + 1 = L + 3 /\ L + 2 + 2 = L + 4 /\ L + 1 + 1 = L + 2
          /\ 1 \in 1..(L + 1) /\ 1 \in 1..(L + 2) /\ L + 2 \in 1..(L + 2)
        BY <1>0
    <2> QED BY <2>1, <2>2, <2>3, <2>4, <2>5
<1>12. ASSUME NEW i \in 1..Len(s)
       PROVE  s[i].text = WordAt(i - 1) /\ s[i].stop = IF i = L + 2 THEN stop ELSE NoStop
    <2>1. CASE i = 1
        BY <1>0, <1>1, <1>11, <2>1 DEF WordAt, Is
    <2>2. CASE i \in 2..(L + 1)
        <3>1. Is(b[i - 1], "chunk", WordAt(i - 1), NoStop)
            BY <1>0, <1>2, <2>2
        <3>2. s[i] = b[i - 1] /\ i # L + 2
            BY <1>0, <1>11, <2>2
        <3> QED BY <3>1, <3>2 DEF Is
    <2>3. CASE i = L + 2
        BY <1>0, <1>1, <1>11, <2>3 DEF WordAt, Is
    <2>4. CASE i = L + 3
        BY <1>0, <1>1, <1>11, <2>4 DEF WordAt, Is
    <2>5. CASE i = L + 4
        BY <1>0, <1>1, <1>11, <2>5 DEF WordAt, Is
    <2> QED BY <1>0, <1>10, <2>1, <2>2, <2>3, <2>4, <2>5
<1>13. ASSUME NEW i \in 2..(L + 1) PROVE s[i].type = "chunk" /\ NoRole(s[i])
    <2>1. Is(b[i - 1], "chunk", WordAt(i - 1), NoStop)
        BY <1>0, <1>2
    <2> QED BY <1>11, <2>1 DEF Is
<1>14. Told(s, 1, L + 2, stop)
    <2>1. s \in Seq(Events)
        BY <1>9 DEF Joined
    <2> QED BY <1>0, <1>10, <1>12, <2>1 DEF Told
<1>15. Chunked(s, L + 2)
    <2>1. ASSUME NEW i \in 2..Len(s) PROVE NoRole(s[i])
        <3>1. i \in 2..(L + 1) \/ i = L + 2 \/ i = L + 3 \/ i = L + 4
            BY <1>0, <1>10
        <3>2. NoRole(last) /\ NoRole(u) /\ NoRole(Done)
            BY <1>1 DEF Is
        <3> QED BY <1>11, <1>13, <3>1, <3>2
    <2>2. ASSUME NEW i \in 1..(L + 2) PROVE s[i].type = "chunk"
        <3>1. i = 1 \/ i \in 2..(L + 1) \/ i = L + 2
            BY <1>0
        <3>2. last.type = "chunk" /\ RoleChunk.type = "chunk"
            BY <1>1 DEF Is
        <3> QED BY <1>11, <1>13, <3>1, <3>2
    <2>3. HasRole(s[1])
        BY <1>1, <1>11 DEF Is
    <2>4. L + 4 = L + 2 + 2 /\ L + 3 = L + 2 + 1
        BY <1>0
    <2> QED BY <1>10, <1>11, <2>1, <2>2, <2>3, <2>4 DEF Chunked, u
<1> QED BY <1>14, <1>15

LEMMA SharedChunked ==
    ASSUME NEW stop \in StopReasons, NEW s, s = SharedChunks(stop) \o <<Mark("usage"), Done>>
    PROVE  Told(s, 0, L, stop) /\ Chunked(s, L)
<1> DEFINE u == Mark("usage")
           a == SharedChunks(stop)
           d == <<u, Done>>
           m(i) == Chunk(<<Words[i]>>, IF i = Len(Words) THEN stop ELSE NoStop)
           e(i) == [m(i) EXCEPT !.role = (i = 1)]
<1>0. L \in Nat /\ L >= 1 /\ DOMAIN Words = 1..L /\ Len(Words) = L
    BY WordsType DEF L
<1>1. /\ u \in Events /\ Done \in Events
      /\ Is(u, "usage", <<>>, NoStop) /\ Is(Done, "[DONE]", <<>>, NoStop)
    <2>1. "usage" \in EventTypes
        BY DEF EventTypes
    <2> QED BY <2>1, Marks, Fields DEF Done
<1> HIDE DEF u
<1>2. ASSUME NEW i \in 1..L
      PROVE  /\ e(i).type = "chunk" /\ e(i).text = WordAt(i) /\ e(i) \in Events
             /\ e(i).stop = IF i = L THEN stop ELSE NoStop
             /\ i = 1 => HasRole(e(i))
             /\ i # 1 => NoRole(e(i))
    <2> DEFINE st == IF i = L THEN stop ELSE NoStop
               n == m(i)
    <2>1. st \in StopReasons /\ WordAt(i) = <<Words[i]>> /\ WordAt(i) \in Text
          /\ "chunk" \in EventTypes
        BY WordsType DEF WordAt, StopReasons, EventTypes
    <2>2. n = [type |-> "chunk", role |-> FALSE, text |-> WordAt(i), stop |-> st]
        BY <1>0, <2>1 DEF Chunk, Event
    <2>3. st = IF i = L THEN stop ELSE NoStop
        OBVIOUS
    <2> HIDE DEF n, st
    <2> DEFINE r == i = 1
    <2>4. e(i) = [n EXCEPT !.role = r]
        BY DEF n
    <2>5. r \in BOOLEAN /\ (i = 1 => r = TRUE) /\ (i # 1 => r = FALSE)
        OBVIOUS
    <2> HIDE DEF r, e
    <2>6. e(i) = [type |-> "chunk", role |-> r, text |-> WordAt(i), stop |-> st]
        BY <2>2, <2>4
    <2>7. e(i) \in Events
        BY <2>1, <2>5, <2>6, EventType
    <2>8. e(i).type = "chunk" /\ e(i).text = WordAt(i) /\ e(i).stop = st /\ e(i).role = r
        BY <2>6
    <2> QED BY <2>3, <2>5, <2>7, <2>8 DEF HasRole, NoRole
<1>3. a = [i \in 1..L |-> e(i)]
    BY <1>0 DEF SharedChunks
<1> HIDE DEF e, m
<1>4. a \in Seq(Events) /\ Len(a) = L /\ \A i \in 1..L : a[i] = e(i)
    <2> HIDE DEF a
    <2> QED BY <1>0, <1>2, <1>3
<1>5. d \in Seq(Events) /\ Len(d) = 2 /\ d[1] = u /\ d[2] = Done
    BY <1>1
<1> HIDE DEF a, d
<1>6. Joined(s, a, d)
    BY <1>4, <1>5, Two DEF a, d, u
<1>7. /\ s \in Seq(Events) /\ Len(s) = L + 2 /\ \A i \in 1..L : s[i] = e(i)
      /\ s[L + 1] = u /\ s[L + 2] = Done
    BY <1>0, <1>4, <1>5, <1>6 DEF Joined
<1>8. ASSUME NEW i \in 1..Len(s)
      PROVE  /\ s[i].text = WordAt(i - 0) /\ s[i].stop = IF i = L THEN stop ELSE NoStop
             /\ i <= L => s[i].type = "chunk"
             /\ i >= 2 => NoRole(s[i])
    <2>1. CASE i \in 1..L
        <3>1. s[i] = e(i) /\ i - 0 = i
            BY <1>7, <2>1
        <3>2. i >= 2 => NoRole(e(i))
            BY <1>2, <2>1
        <3>3. e(i).text = WordAt(i) /\ e(i).type = "chunk"
              /\ e(i).stop = IF i = L THEN stop ELSE NoStop
            BY <1>2, <2>1
        <3> QED BY <3>1, <3>2, <3>3
    <2>2. CASE i = L + 1
        BY <1>0, <1>1, <1>7, <2>2 DEF WordAt, Is
    <2>3. CASE i = L + 2
        BY <1>0, <1>1, <1>7, <2>3 DEF WordAt, Is
    <2> QED BY <1>0, <1>7, <2>1, <2>2, <2>3
<1>9. Told(s, 0, L, stop)
    BY <1>0, <1>7, <1>8 DEF Told
<1>10. HasRole(s[1])
    BY <1>0, <1>2, <1>7
<1>11. Chunked(s, L)
    BY <1>0, <1>7, <1>8, <1>10 DEF Chunked, u
<1> QED BY <1>9, <1>11

LEMMA SpokenTold ==
    ASSUME NEW stop \in StopReasons, NEW s,
           s = <<Mark("message_start"), Mark("content_block_start")>>
               \o Deltas("content_block_delta")
               \o <<Mark("content_block_stop"), Event("message_delta", <<>>, stop),
                    Mark("message_stop")>>
    PROVE  Told(s, 2, L + 4, stop) /\ Spoken(s)
<1> DEFINE m1 == Mark("message_start")
           m2 == Mark("content_block_start")
           m3 == Mark("content_block_stop")
           m4 == Event("message_delta", <<>>, stop)
           m5 == Mark("message_stop")
           a == <<m1, m2>>
           b == Deltas("content_block_delta")
           c == <<m3, m4, m5>>
           ab == a \o b
<1>0. L \in Nat /\ L >= 1
    BY WordsType
<1>1. /\ Is(m1, "message_start", <<>>, NoStop) /\ Is(m2, "content_block_start", <<>>, NoStop)
      /\ Is(m3, "content_block_stop", <<>>, NoStop) /\ Is(m4, "message_delta", <<>>, stop)
      /\ Is(m5, "message_stop", <<>>, NoStop)
    BY Fields
<1>2. m1 \in Events /\ m2 \in Events /\ m3 \in Events /\ m4 \in Events /\ m5 \in Events
    <2>1. /\ "message_start" \in EventTypes /\ "content_block_start" \in EventTypes
          /\ "content_block_stop" \in EventTypes /\ "message_delta" \in EventTypes
          /\ "message_stop" \in EventTypes
        BY DEF EventTypes
    <2>2. m4 \in Events
        BY <2>1, Marks, EventType DEF Event
    <2> QED BY <2>1, <2>2, Marks
<1>3. /\ b \in Seq(Events) /\ Len(b) = L
      /\ \A i \in 1..L : Is(b[i], "content_block_delta", WordAt(i), NoStop)
    <2>1. "content_block_delta" \in EventTypes
        BY DEF EventTypes
    <2> QED BY <2>1, DeltasType
<1>4. s = ab \o c
    OBVIOUS
<1> HIDE DEF m1, m2, m3, m4, m5
<1>5. /\ a \in Seq(Events) /\ Len(a) = 2 /\ a[1] = m1 /\ a[2] = m2
      /\ c \in Seq(Events) /\ Len(c) = 3 /\ c[1] = m3 /\ c[2] = m4 /\ c[3] = m5
    BY <1>2
<1> HIDE DEF a, b, c
<1>6. Joined(ab, a, b)
    BY <1>3, <1>5, Two
<1>7. ab \in Seq(Events)
    BY <1>6 DEF Joined
<1> HIDE DEF ab
<1>8. Joined(s, ab, c)
    BY <1>4, <1>5, <1>7, Two
<1>9. Len(ab) = L + 2 /\ Len(s) = L + 5
    BY <1>0, <1>3, <1>5, <1>6, <1>8 DEF Joined
<1>10. /\ s[1] = m1 /\ s[2] = m2 /\ s[L + 3] = m3 /\ s[L + 4] = m4 /\ s[L + 5] = m5
       /\ \A i \in 3..(L + 2) : s[i] = b[i - 2]
    <2>1. /\ s[L + 2 + 1] = m3 /\ s[L + 2 + 2] = m4 /\ s[L + 2 + 3] = m5
          /\ \A i \in 1..(L + 2) : s[i] = ab[i]
        <3>1. /\ \A i \in 1..Len(ab) : s[i] = ab[i]
              /\ \A i \in 1..Len(c) : s[Len(ab) + i] = c[i]
            BY <1>8 DEF Joined
        <3>2. 1 \in 1..Len(c) /\ 2 \in 1..Len(c) /\ 3 \in 1..Len(c)
            BY <1>5
        <3>3. /\ s[Len(ab) + 1] = c[1] /\ s[Len(ab) + 2] = c[2] /\ s[Len(ab) + 3] = c[3]
            BY <3>1, <3>2, Zenon
        <3> QED BY <1>5, <1>9, <3>1, <3>3, Zenon
    <2>2. ab[1] = m1 /\ ab[2] = m2 /\ \A i \in 1..L : ab[2 + i] = b[i]
        BY <1>3, <1>5, <1>6 DEF Joined
    <2>3. ASSUME NEW i \in 3..(L + 2) PROVE s[i] = b[i - 2]
        <3>1. i - 2 \in 1..L /\ 2 + (i - 2) = i /\ i \in 1..(L + 2)
            BY <1>0
        <3>2. ab[i] = b[i - 2]
            BY <2>2, <3>1
        <3> QED BY <2>1, <3>1, <3>2
    <2>4. /\ L + 2 + 1 = L + 3 /\ L + 2 + 2 = L + 4 /\ L + 2 + 3 = L + 5
          /\ 1 \in 1..(L + 2) /\ 2 \in 1..(L + 2)
        BY <1>0
    <2> QED BY <2>1, <2>2, <2>3, <2>4
<1>11. ASSUME NEW i \in 3..(L + 2) PROVE Is(s[i], "content_block_delta", WordAt(i - 2), NoStop)
    <2>1. i - 2 \in 1..L
        BY <1>0
    <2> QED BY <1>3, <1>10, <2>1
<1>12. ASSUME NEW i \in 1..Len(s)
       PROVE  s[i].text = WordAt(i - 2) /\ s[i].stop = IF i = L + 4 THEN stop ELSE NoStop
    <2>1. CASE i \in 3..(L + 2)
        BY <1>0, <1>11, <2>1 DEF Is
    <2>2. CASE i = 1
        BY <1>0, <1>1, <1>10, <2>2 DEF WordAt, Is
    <2>3. CASE i = 2
        BY <1>0, <1>1, <1>10, <2>3 DEF WordAt, Is
    <2>4. CASE i = L + 3
        BY <1>0, <1>1, <1>10, <2>4 DEF WordAt, Is
    <2>5. CASE i = L + 4
        BY <1>0, <1>1, <1>10, <2>5 DEF WordAt, Is
    <2>6. CASE i = L + 5
        BY <1>0, <1>1, <1>10, <2>6 DEF WordAt, Is
    <2> QED BY <1>0, <1>9, <2>1, <2>2, <2>3, <2>4, <2>5, <2>6
<1>13. Told(s, 2, L + 4, stop)
    <2>1. s \in Seq(Events)
        BY <1>8 DEF Joined
    <2> QED BY <1>0, <1>9, <1>12, <2>1 DEF Told
<1>14. Spoken(s)
    <2>1. \A i \in 3..(L + 2) : s[i].type = "content_block_delta"
        BY <1>11 DEF Is
    <2> QED BY <1>1, <1>9, <1>10, <2>1 DEF Spoken, Is
<1> QED BY <1>13, <1>14

LEMMA ForeignOne ==
    ASSUME NEW stop \in StopReasons
    PROVE  Foreign(<<Event("json", Words, stop)>>)
<1> DEFINE e == Event("json", Words, stop)
<1>1. e \in Events /\ Is(e, "json", Words, stop)
    <2>1. Words \in Text /\ "json" \in EventTypes
        BY WordsType DEF Text, EventTypes
    <2> QED BY <2>1, EventType, Fields DEF Event
<1> HIDE DEF e
<1>2. <<e>> \in Seq(Events) /\ Len(<<e>>) = 1 /\ <<e>>[1] = e
    BY <1>1
<1>3. Foreign(<<e>>)
    BY <1>1, <1>2 DEF Foreign, Is
<1> QED BY <1>3 DEF e

LEMMA ForeignMany ==
    ASSUME NEW stop \in StopReasons, NEW s, s = Deltas("vendor") \o <<Event("vendor", <<>>, stop)>>
    PROVE  Foreign(s)
<1> DEFINE e == Event("vendor", <<>>, stop)
           a == Deltas("vendor")
           b == <<e>>
<1>0. L \in Nat /\ L >= 1 /\ "vendor" \in EventTypes
    BY WordsType DEF EventTypes
<1>1. e \in Events /\ Is(e, "vendor", <<>>, stop)
    BY <1>0, Marks, EventType, Fields DEF Event
<1>2. /\ a \in Seq(Events) /\ Len(a) = L
      /\ \A i \in 1..L : Is(a[i], "vendor", WordAt(i), NoStop)
    BY <1>0, DeltasType
<1>3. s = a \o b
    OBVIOUS
<1> HIDE DEF e
<1>4. b \in Seq(Events) /\ Len(b) = 1 /\ b[1] = e
    BY <1>1
<1> HIDE DEF a, b
<1>5. Joined(s, a, b)
    BY <1>2, <1>3, <1>4, Two
<1>6. /\ s \in Seq(Events) /\ Len(s) = L + 1 /\ s[L + 1] = e
      /\ \A i \in 1..L : s[i] = a[i]
    BY <1>2, <1>4, <1>5 DEF Joined
<1>7. ASSUME NEW i \in 1..Len(s)
      PROVE  s[i].type = "vendor" /\ NoRole(s[i]) /\ (i < Len(s) => s[i].stop = NoStop)
    <2>1. CASE i \in 1..L
        <3>1. Is(s[i], "vendor", WordAt(i), NoStop)
            BY <1>2, <1>6, <2>1
        <3> QED BY <3>1 DEF Is
    <2>2. CASE i = L + 1
        BY <1>0, <1>1, <1>6, <2>2 DEF Is
    <2> QED BY <1>0, <1>6, <2>1, <2>2
<1> QED BY <1>0, <1>6, <1>7 DEF Foreign

(* The stream of a vendor of format f that stops for the reason given.     *)
Cut(s, stop) ==
    \E off \in 0..1, end \in Nat : Told(s, off, end, stop) /\ Chunked(s, end)

Shape(s, f, stop) ==
    \/ Foreign(s)
    \/ f = "openai-compatible" /\ Cut(s, stop)
    \/ f = "anthropic" /\ Told(s, 2, L + 4, stop) /\ Spoken(s)

Readable(s, f, stop) ==
    /\ f = "openai-compatible" => Cut(s, stop)
    /\ f = "anthropic" => Told(s, 2, L + 4, stop) /\ Spoken(s)

LEMMA StopWords ==
    ASSUME NEW f \in Formats, NEW why \in Whys
    PROVE  /\ StopWord(f, why) \in StopReasons
           /\ f = "openai-compatible" =>
                 /\ StopWord("chat", why) = StopWord(f, why)
                 /\ StopWord("anthropic", why) = AnthropicStop(StopWord(f, why))
           /\ f = "anthropic" => StopWord("chat", why) = OpenAIFinish(StopWord(f, why))
BY DEF Formats, StopWord, StopReasons, AnthropicStop, OpenAIFinish, Whys

LEMMA StopWordSaid ==
    ASSUME NEW f \in Formats, NEW why \in Whys
    PROVE  StopWord(f, why) # NoStop
<1>1. /\ "stop" # NoStop /\ "length" # NoStop /\ "content_filter" # NoStop /\ "end_turn" # NoStop
      /\ "max_tokens" # NoStop /\ "content_filtered" # NoStop /\ "STOP" # NoStop
      /\ "MAX_TOKENS" # NoStop /\ "SAFETY" # NoStop /\ "completed" # NoStop
    BY Zenon DEF NoStop
<1> QED BY <1>1 DEF Formats, StopWord, Whys

LEMMA ScriptShape ==
    ASSUME NEW f \in Formats, NEW streamed, NEW why \in Whys, NEW s \in Scripts(f, streamed, why)
    PROVE  /\ Shape(s, f, StopWord(f, why)) /\ s \in Seq(Events) /\ Len(s) > 0
           /\ streamed => Readable(s, f, StopWord(f, why))
<1> DEFINE stop == StopWord(f, why)
<1>0. stop \in StopReasons /\ L \in Nat /\ L >= 1
    BY StopWords, WordsType
<1>1. \/ ~streamed /\ s = <<Event("json", Words, stop)>>
      \/ f = "openai-compatible" /\ s = OwnChunks(stop) \o <<Mark("usage"), Done>>
      \/ f = "openai-compatible" /\ s = SharedChunks(stop) \o <<Mark("usage"), Done>>
      \/ f = "anthropic"
         /\ s = <<Mark("message_start"), Mark("content_block_start")>>
                \o Deltas("content_block_delta")
                \o <<Mark("content_block_stop"), Event("message_delta", <<>>, stop),
                     Mark("message_stop")>>
      \/ /\ f \notin {"openai-compatible", "anthropic"}
         /\ s = Deltas("vendor") \o <<Event("vendor", <<>>, stop)>>
    BY DEF Scripts
<1> HIDE DEF stop
<1>2. CASE ~streamed /\ s = <<Event("json", Words, stop)>>
    <2>1. Foreign(s)
        BY <1>0, <1>2, ForeignOne
    <2> QED BY <1>2, <2>1 DEF Shape, Foreign, stop
<1>3. CASE f = "openai-compatible" /\ s = OwnChunks(stop) \o <<Mark("usage"), Done>>
    <2>1. Told(s, 1, L + 2, stop) /\ Chunked(s, L + 2)
        BY <1>0, <1>3, OwnChunked
    <2>2. Cut(s, stop) /\ s \in Seq(Events) /\ Len(s) > 0
        BY <1>0, <2>1 DEF Cut, Told
    <2> QED BY <1>3, <2>2 DEF Shape, Readable, stop
<1>4. CASE f = "openai-compatible" /\ s = SharedChunks(stop) \o <<Mark("usage"), Done>>
    <2>1. Told(s, 0, L, stop) /\ Chunked(s, L)
        BY <1>0, <1>4, SharedChunked
    <2>2. Cut(s, stop) /\ s \in Seq(Events) /\ Len(s) > 0
        BY <1>0, <2>1 DEF Cut, Told
    <2> QED BY <1>4, <2>2 DEF Shape, Readable, stop
<1>5. CASE f = "anthropic"
         /\ s = <<Mark("message_start"), Mark("content_block_start")>>
                \o Deltas("content_block_delta")
                \o <<Mark("content_block_stop"), Event("message_delta", <<>>, stop),
                     Mark("message_stop")>>
    <2>1. Told(s, 2, L + 4, stop) /\ Spoken(s)
        BY <1>0, <1>5, SpokenTold
    <2>2. s \in Seq(Events) /\ Len(s) > 0
        BY <1>0, <2>1 DEF Told
    <2> QED BY <1>5, <2>1, <2>2 DEF Shape, Readable, stop
<1>6. CASE /\ f \notin {"openai-compatible", "anthropic"}
           /\ s = Deltas("vendor") \o <<Event("vendor", <<>>, stop)>>
    <2>1. Foreign(s)
        BY <1>0, <1>6, ForeignMany
    <2> QED BY <1>6, <2>1 DEF Shape, Readable, Foreign, stop
<1> QED BY <1>1, <1>2, <1>3, <1>4, <1>5, <1>6

(* A vendor whose stream is translated was told to stream.                 *)
LEMMA StreamAsked ==
    ASSUME CallInv, tried # <<>>, Streams, Translates
    PROVE  heard.stream
<1>1. /\ format[sel] \in Formats /\ heard = AskedOf(sel) /\ Entered /\ conv.stream
      /\ format[sel] \in {"openai-compatible", "anthropic"}
      /\ conv.protocol \in {"chat", "anthropic"}
      /\ format[sel] = "anthropic" => conv.protocol = "chat"
    BY Selected DEF Streams, Translates
<1> DEFINE r == Request(conv)
<1>2. r.stream = conv.stream
    BY DEF Request
<1>3. body = OpenAIRequest(conv.protocol, r)
    BY <1>1 DEF Entered
<1> HIDE DEF r
<1>4. body.stream /\
      body = [model |-> body.model, system |-> body.system, messages |-> body.messages,
              stream |-> body.stream, max |-> body.max, temp |-> body.temp,
              topP |-> body.topP]
    BY <1>1, <1>2, <1>3 DEF OpenAIRequest, OpenAIBody, AnthropicRequestToOpenAI
<1>5. rewriteModel(body, sel).stream
    BY <1>4 DEF rewriteModel
<1>6. CASE Direct \/ format[sel] = "openai-compatible"
    BY <1>1, <1>5, <1>6 DEF AskedOf, ForwardRequest
<1>7. CASE ~Direct /\ format[sel] = "anthropic"
    <2>1. heard = openAIToAnthropicRequest(rewriteModel(body, sel))
        BY <1>1, <1>7 DEF AskedOf, ForwardRequest
    <2> DEFINE n == rewriteModel(body, sel)
    <2>2. n = [model |-> n.model, system |-> n.system, messages |-> n.messages,
               stream |-> n.stream, max |-> n.max, temp |-> n.temp, topP |-> n.topP]
        BY <1>4 DEF rewriteModel
    <2>3. n.stream /\ heard = openAIToAnthropicRequest(n)
        BY <1>5, <2>1
    <2> HIDE DEF n
    <2> QED BY <2>2, <2>3 DEF openAIToAnthropicRequest
<1> QED BY <1>1, <1>6, <1>7

-----------------------------------------------------------------------------
(* A stream under way *)

Streamers == {"chat", "anthropic", "gemini"}

LEMMA ReasonsKnown ==
    ASSUME NEW stop \in StopReasons
    PROVE  /\ AnthropicStop(stop) \in StopReasons /\ OpenAIFinish(stop) \in StopReasons
           /\ GeminiStreamFinish(stop) \in StopReasons /\ NoStop \in StopReasons
BY DEF StopReasons, AnthropicStop, OpenAIFinish, GeminiStreamFinish

LEMMA TypesKnown ==
    /\ "chunk" \in EventTypes /\ "content_block_delta" \in EventTypes
    /\ "content_block_start" \in EventTypes /\ "content_block_stop" \in EventTypes
    /\ "message_start" \in EventTypes /\ "message_delta" \in EventTypes
    /\ "message_stop" \in EventTypes /\ "candidate" \in EventTypes
BY DEF EventTypes

LEMMA EventMade ==
    ASSUME NEW type \in EventTypes, NEW text \in Text, NEW stop \in StopReasons
    PROVE  Event(type, text, stop) \in Events
BY EventType DEF Event

LEMMA EventParts ==
    ASSUME NEW e \in Events
    PROVE  e.type \in EventTypes /\ e.text \in Text /\ e.stop \in StopReasons
BY DEF Events

LEMMA Short ==
    ASSUME NEW a \in Events, NEW b \in Events, NEW c \in Events
    PROVE  /\ <<>> \in Seq(Events) /\ <<a>> \in Seq(Events) /\ <<a, b>> \in Seq(Events)
           /\ <<a, b, c>> \in Seq(Events)
OBVIOUS

(* The pieces of a chunk in Anthropic's events.                            *)
LEMMA PiecesType ==
    ASSUME NEW e \in Events
    PROVE  /\ MessageStart(e) \in Seq(Events) /\ BlockDelta(e) \in Seq(Events)
           /\ MessageStop(e) \in Seq(Events)
           /\ MessageStart(e) \o BlockDelta(e) \in Seq(Events)
           /\ MessageStart(e) \o BlockDelta(e) \o MessageStop(e) \in Seq(Events)
<1> DEFINE m1 == Mark("message_start")
           m2 == Mark("content_block_start")
           m3 == Mark("content_block_stop")
           m4 == Event("message_delta", <<>>, AnthropicStop(e.stop))
           m5 == Mark("message_stop")
           m6 == Event("content_block_delta", e.text, NoStop)
           a == MessageStart(e)
           b == BlockDelta(e)
           c == MessageStop(e)
<1>1. /\ m1 \in Events /\ m2 \in Events /\ m3 \in Events /\ m4 \in Events /\ m5 \in Events
      /\ m6 \in Events
    BY Marks, TypesKnown, ReasonsKnown, EventMade, EventParts
<1>2. /\ a = <<m1, m2>> \/ a = <<>>
      /\ b = <<m6>> \/ b = <<>>
      /\ c = <<m3, m4, m5>> \/ c = <<>>
    BY DEF MessageStart, BlockDelta, MessageStop
<1> HIDE DEF m1, m2, m3, m4, m5, m6, a, b, c
<1>3. a \in Seq(Events) /\ b \in Seq(Events) /\ c \in Seq(Events)
    <2>1. /\ <<>> \in Seq(Events) /\ <<m1, m2>> \in Seq(Events) /\ <<m6>> \in Seq(Events)
          /\ <<m3, m4, m5>> \in Seq(Events)
        BY <1>1, Short
    <2> QED BY <1>2, <2>1, Zenon
<1>4. a \o b \in Seq(Events)
    BY <1>3
<1>5. (a \o b) \o c \in Seq(Events)
    BY <1>3, <1>4
<1> QED BY <1>3, <1>4, <1>5 DEF a, b, c

LEMMA WrittenType ==
    ASSUME conv.protocol \in Streamers, NEW e \in Events
    PROVE  Written(e) \in Seq(Events) /\ WrittenAtEnd(format[sel]) \in Seq(Events)
<1>0. <<>> \in Seq(Events)
    OBVIOUS
<1>1. WrittenAtEnd(format[sel]) \in Seq(Events)
    BY <1>0, Marks DEF WrittenAtEnd
<1>2. CASE conv.protocol = "chat"
    <2> DEFINE c1 == Chunk(e.text, NoStop)
               c2 == Chunk(<<>>, OpenAIFinish(e.stop))
    <2>1. c1 \in Events /\ c2 \in Events /\ RoleChunk \in Events
        BY Marks, TypesKnown, ReasonsKnown, EventMade, EventParts DEF Chunk
    <2>2. Written(e) \in {<<e>>, <<RoleChunk>>, <<c1>>, <<c2>>, <<>>}
        BY <1>2 DEF Written, CopiedTo, Translated, AnthropicSSEToOpenAIStreamChunk
    <2> HIDE DEF c1, c2
    <2>3. /\ <<e>> \in Seq(Events) /\ <<RoleChunk>> \in Seq(Events) /\ <<c1>> \in Seq(Events)
          /\ <<c2>> \in Seq(Events)
        BY <2>1, Short
    <2> QED BY <1>0, <1>1, <2>2, <2>3, Zenon
<1>3. CASE conv.protocol = "anthropic"
    <2>1. \/ Written(e) = <<>>
          \/ Written(e) = MessageStart(e) \o BlockDelta(e) \o MessageStop(e)
        BY <1>3 DEF Written, OpenAIStreamChunkToAnthropicSSE
    <2> QED BY <1>0, <1>1, <2>1, PiecesType
<1>4. CASE conv.protocol = "gemini"
    <2> DEFINE c1 == Event("candidate", e.text, GeminiStreamFinish(e.stop))
    <2>1. c1 \in Events
        BY TypesKnown, ReasonsKnown, EventMade, EventParts
    <2>2. Written(e) \in {<<c1>>, <<>>}
        BY <1>4 DEF Written, OpenAIStreamChunkToGeminiSSE
    <2> HIDE DEF c1
    <2>3. <<c1>> \in Seq(Events)
        BY <2>1, Short
    <2> QED BY <1>0, <1>1, <2>2, <2>3, Zenon
<1> QED BY <1>2, <1>3, <1>4 DEF Streamers

(* What is being streamed is what the vendor asked last streams.           *)
ScriptInv ==
    /\ client.got \in Seq(Events)
    /\ script = <<>> => client.got = <<>>
    /\ pc \in {"accept", "choose", "call"} => script = <<>>
    /\ pc = "stream" => script # <<>>
    /\ script # <<>> => /\ Streams /\ tried # <<>> /\ reason \in Whys
                        /\ script \in Scripts(format[sel], heard.stream, reason)
                        /\ pos \in 1..(Len(script) + 1)

(* Steps before the stream, and steps that read nothing of it.             *)
Before ==
    /\ pc \in {"accept", "choose", "call"} /\ pc' # "stream"
    /\ script' = script /\ conv' = conv /\ client'.got = client.got

Still ==
    /\ UNCHANGED <<conv, format, tried, heard, script, pos, reason>>
    /\ client'.got = client.got /\ (client'.here => client.here)
    /\ pc' = pc \/ (pc = "stream" /\ pc' \in {"done", "panicked"})
    /\ pc' = "done" /\ pos > Len(script) => pc = "done"

LEMMA Kinds ==
    ASSUME CallInv, ScriptInv, [Next]_vars
    PROVE  Before \/ StreamBegins \/ RelayEvent \/ StreamOver \/ Still
<1>0. Client
    BY DEF CallInv
<1>1. ASSUME NEW st, client' = [client EXCEPT !.status = st] PROVE client'.got = client.got
    BY <1>0, <1>1 DEF Client
<1>2. ASSUME NEW st, NEW r, client' = [client EXCEPT !.status = st, !.reply = r]
      PROVE  client'.got = client.got
    BY <1>0, <1>2 DEF Client
<1>3. CASE Accept \/ GiveUp \/ (\E b \in Backends : Choose(b)) \/ Failed \/ Cancelled
    <2>1. pc \in {"accept", "choose", "call"} /\ pc' # "stream" /\ script' = script /\ conv' = conv
        BY <1>3 DEF Accept, GiveUp, Choose, Failed, Cancelled, Fail, Finish
    <2>2. client' = client \/ \E st : client' = [client EXCEPT !.status = st]
        BY <1>3 DEF Accept, GiveUp, Choose, Failed, Cancelled, Fail, Finish
    <2> QED BY <1>1, <2>1, <2>2 DEF Before
<1>4. CASE Answered
    <2>1. pc \in {"accept", "choose", "call"} /\ pc' # "stream" /\ script' = script /\ conv' = conv
        BY <1>4 DEF Answered
    <2>2. \E st, r : client' = [client EXCEPT !.status = st, !.reply = r]
        BY <1>4 DEF Answered
    <2> QED BY <1>2, <2>1, <2>2 DEF Before
<1>5. CASE AnsweredInDetail \/ AnsweredUnreadably
    <2>1. pc \in {"accept", "choose", "call"} /\ pc' # "stream" /\ script' = script /\ conv' = conv
        BY <1>5 DEF AnsweredInDetail, AnsweredUnreadably, Fail, Finish
    <2>2. client' = client \/ \E st : client' = [client EXCEPT !.status = st]
        BY <1>5 DEF AnsweredInDetail, AnsweredUnreadably, Fail, Finish
    <2> QED BY <1>1, <2>1, <2>2 DEF Before
<1>6. CASE LineTooLong \/ WriteFails
    <2>1. /\ UNCHANGED <<conv, format, tried, heard, script, pos, reason, client>> /\ pc = "stream"
          /\ pc' \in {"done", "panicked"} /\ pos <= Len(script)
        BY <1>6 DEF LineTooLong, WriteFails
    <2>2. pos \in Nat /\ Len(script) \in Nat
        <3>1. pos \in 1..(Len(script) + 1) /\ format[sel] \in Formats /\ reason \in Whys
              /\ script \in Scripts(format[sel], heard.stream, reason)
            BY <2>1, Selected DEF ScriptInv
        <3>2. script \in Seq(Events)
            BY <3>1, ScriptShape
        <3> QED BY <3>1, <3>2
    <2> QED BY <2>1, <2>2 DEF Still
<1>7. CASE ClientLeaves
    BY <1>0, <1>7 DEF ClientLeaves, Client, Still
<1>8. CASE UNCHANGED vars
    BY <1>8 DEF vars, Still
<1> QED BY <1>3, <1>4, <1>5, <1>6, <1>7, <1>8 DEF Next

LEMMA ScriptInit == Init => ScriptInv
BY DEF Init, ScriptInv

LEMMA ScriptKnown ==
    ASSUME CallInv, ScriptInv, script # <<>>
    PROVE  /\ format[sel] \in Formats /\ reason \in Whys
           /\ Shape(script, format[sel], StopWord(format[sel], reason))
           /\ Translates => Readable(script, format[sel], StopWord(format[sel], reason))
           /\ script \in Seq(Events) /\ Len(script) > 0 /\ pos \in 1..(Len(script) + 1)
           /\ Streams /\ conv.protocol \in Streamers
           /\ client.got \in Seq(Events)
<1>1. /\ Streams /\ tried # <<>> /\ reason \in Whys /\ pos \in 1..(Len(script) + 1)
      /\ script \in Scripts(format[sel], heard.stream, reason) /\ client.got \in Seq(Events)
    BY DEF ScriptInv
<1>2. format[sel] \in Formats
    BY <1>1, Selected
<1>3. /\ Shape(script, format[sel], StopWord(format[sel], reason))
      /\ script \in Seq(Events) /\ Len(script) > 0
      /\ heard.stream => Readable(script, format[sel], StopWord(format[sel], reason))
    BY <1>1, <1>2, ScriptShape
<1>4. Translates => heard.stream
    BY <1>1, StreamAsked
<1>5. conv.protocol \in Streamers
    BY <1>1 DEF Streams, Streamers
<1> QED BY <1>1, <1>2, <1>3, <1>4, <1>5

(* What a step of the stream adds to what the client has got.              *)
LEMMA Adds ==
    ASSUME CallInv, ScriptInv, RelayEvent \/ StreamOver
    PROVE  \E more \in Seq(Events) :
              /\ UNCHANGED <<conv, format, tried, heard, script, reason>>
              /\ client'.got = client.got \o more /\ client'.here = client.here
              /\ ~client.here => more = <<>>
              /\ RelayEvent => pos \in 1..Len(script) /\ pos' = pos + 1
              /\ RelayEvent => script[pos] \in Events
              /\ RelayEvent /\ client.here => more = Written(script[pos])
              /\ StreamOver => pos' = pos /\ (more = <<>> \/ more = WrittenAtEnd(format[sel]))
<1>1. Client /\ script # <<>>
    BY DEF CallInv, ScriptInv, RelayEvent, StreamOver
<1>2. /\ script \in Seq(Events) /\ conv.protocol \in Streamers /\ client.got \in Seq(Events)
      /\ pos \in 1..(Len(script) + 1)
    BY <1>1, ScriptKnown
<1>3. <<>> \in Seq(Events) /\ client.got \o <<>> = client.got
    BY <1>2
<1>4. ASSUME NEW e, client' = Receives(e)
      PROVE  client'.here = client.here
             /\ client'.got = IF client.here THEN client.got \o e ELSE client.got
    BY <1>1, <1>4 DEF Receives, Client
<1>5. CASE RelayEvent
    <2>1. /\ UNCHANGED <<conv, format, tried, heard, script, reason>> /\ pos' = pos + 1
          /\ pos <= Len(script) /\ client' = Receives(Written(script[pos])) /\ pc = "stream"
          /\ pc' \in {"done", "stream"}
        BY <1>5 DEF RelayEvent
    <2>2. pos \in 1..Len(script) /\ script[pos] \in Events
        BY <1>2, <2>1
    <2>3. Written(script[pos]) \in Seq(Events)
        BY <1>2, <2>2, WrittenType
    <2> DEFINE more == IF client.here THEN Written(script[pos]) ELSE <<>>
    <2>4. client'.here = client.here /\ client'.got = client.got \o more
        BY <1>3, <1>4, <2>1
    <2>5. more \in Seq(Events) /\ (~client.here => more = <<>>)
          /\ (client.here => more = Written(script[pos]))
        BY <1>3, <2>3
    <2>6. ~StreamOver
        BY <2>1 DEF StreamOver
    <2> HIDE DEF more
    <2> QED BY <2>1, <2>2, <2>4, <2>5, <2>6
<1>6. CASE StreamOver
    <2>1. /\ UNCHANGED <<conv, format, tried, heard, script, reason, pos>>
          /\ client' = client \/ client' = Receives(WrittenAtEnd(format[sel]))
        BY <1>6 DEF StreamOver
    <2>2. ~RelayEvent
        <3>1. pos' = pos /\ pos \in Nat
            BY <1>2, <2>1
        <3> QED BY <3>1 DEF RelayEvent
    <2>3. WrittenAtEnd(format[sel]) \in Seq(Events)
        BY <1>2, Marks, Short DEF WrittenAtEnd
    <2>4. CASE client' = client \/ ~client.here
        BY <1>3, <1>4, <2>1, <2>2, <2>4
    <2>5. CASE client' = Receives(WrittenAtEnd(format[sel])) /\ client.here
        BY <1>4, <2>1, <2>2, <2>3, <2>5
    <2> QED BY <2>1, <2>4, <2>5
<1> QED BY <1>5, <1>6

LEMMA ScriptStep == CallInv /\ ScriptInv /\ [Next]_vars => ScriptInv'
<1> SUFFICES ASSUME CallInv, ScriptInv, [Next]_vars PROVE ScriptInv'
    OBVIOUS
<1>1. CASE Before
    BY <1>1 DEF Before, ScriptInv
<1>2. CASE Still
    <2>1. sel' = sel /\ Streams' = Streams
        BY <1>2 DEF Still, sel, Streams
    <2> QED BY <1>2, <2>1 DEF Still, ScriptInv
<1>3. CASE StreamBegins
    <2>1. /\ Streams /\ tried # <<>> /\ reason' \in Whys /\ pos' = 1 /\ pc' = "stream"
          /\ script' \in Scripts(format[sel], heard.stream, reason')
          /\ UNCHANGED <<conv, format, tried, heard>> /\ client' = [client EXCEPT !.status = "ok"]
          /\ client.got = <<>>
        BY <1>3, RelayAssumption DEF StreamBegins, Whys, ScriptInv, CallInv, TriedOnce
    <2>2. client'.got = <<>> /\ <<>> \in Seq(Events)
        BY <2>1 DEF CallInv, Client
    <2>3. format[sel] \in Formats
        BY <2>1, Selected
    <2>4. script' \in Seq(Events) /\ Len(script') > 0
        BY <2>1, <2>3, ScriptShape
    <2>5. sel' = sel /\ Streams' = Streams
        BY <2>1 DEF sel, Streams
    <2>6. script' # <<>> /\ 1 \in 1..(Len(script') + 1)
        BY <2>4
    <2> QED BY <2>1, <2>2, <2>5, <2>6 DEF ScriptInv
<1>4. CASE RelayEvent \/ StreamOver
    <2>1. PICK more \in Seq(Events) :
              /\ UNCHANGED <<conv, format, tried, heard, script, reason>>
              /\ client'.got = client.got \o more /\ client'.here = client.here
              /\ RelayEvent => pos \in 1..Len(script) /\ pos' = pos + 1
              /\ StreamOver => pos' = pos
        BY <1>4, Adds
    <2>2. client.got \in Seq(Events) /\ script # <<>> /\ pos \in 1..(Len(script) + 1)
          /\ script \in Seq(Events) /\ pc' \in {"stream", "done"}
        BY <1>4, ScriptKnown DEF ScriptInv, RelayEvent, StreamOver
    <2>3. client'.got \in Seq(Events) /\ pos' \in 1..(Len(script) + 1)
        BY <1>4, <2>1, <2>2
    <2>4. sel' = sel /\ Streams' = Streams
        BY <2>1 DEF sel, Streams
    <2> QED BY <2>1, <2>2, <2>3, <2>4 DEF ScriptInv
<1> QED BY <1>1, <1>2, <1>3, <1>4, Kinds

-----------------------------------------------------------------------------
(* The text of a stream *)

Own(type, e) == IF e.type = type THEN e.text ELSE <<>>
OwnText(events, type) == FlattenSeq([i \in DOMAIN events |-> Own(type, events[i])])

LEMMA OwnTyped ==
    ASSUME NEW type, NEW e \in Events
    PROVE  Own(type, e) \in Text
BY EventParts, Marks DEF Own

LEMMA OwnTexts ==
    ASSUME NEW type, NEW a \in Seq(Events)
    PROVE  [i \in DOMAIN a |-> Own(type, a[i])] \in Seq(Text)
<1>1. \A i \in 1..Len(a) : Own(type, a[i]) \in Text
    BY OwnTyped
<1> QED BY <1>1

LEMMA OwnTextType ==
    ASSUME NEW type, NEW a \in Seq(Events)
    PROVE  OwnText(a, type) \in Text
<1>1. [i \in DOMAIN a |-> Own(type, a[i])] \in Seq(Seq(STRING))
    BY OwnTexts DEF Text
<1> QED BY <1>1, FlattenType DEF OwnText, Text

LEMMA OwnConcat ==
    ASSUME NEW type, NEW a \in Seq(Events), NEW b \in Seq(Events)
    PROVE  OwnText(a \o b, type) = OwnText(a, type) \o OwnText(b, type)
<1> DEFINE T(s) == [i \in DOMAIN s |-> Own(type, s[i])]
<1>1. T(a) \in Seq(Seq(STRING)) /\ T(b) \in Seq(Seq(STRING))
    BY OwnTexts DEF Text
<1>2. T(a \o b) = T(a) \o T(b)
    <2>1. Joined(a \o b, a, b)
        BY Two
    <2> DEFINE ab == a \o b
    <2>2. ab \in Seq(Events) /\ Len(ab) = Len(a) + Len(b)
          /\ (\A i \in 1..Len(a) : ab[i] = a[i]) /\ \A i \in 1..Len(b) : ab[Len(a) + i] = b[i]
        BY <2>1 DEF Joined
    <2> HIDE DEF ab
    <2> DEFINE u == T(a)
               v == T(b)
               w == T(ab)
    <2>3. u \in Seq(Seq(STRING)) /\ Len(u) = Len(a) /\ \A i \in 1..Len(a) : u[i] = Own(type, a[i])
        BY <1>1
    <2>4. v \in Seq(Seq(STRING)) /\ Len(v) = Len(b) /\ \A i \in 1..Len(b) : v[i] = Own(type, b[i])
        BY <1>1
    <2>5. w \in Seq(Seq(STRING)) /\ Len(w) = Len(ab)
          /\ \A i \in 1..Len(ab) : w[i] = Own(type, ab[i])
        <3>1. w \in Seq(Text)
            BY <2>2, OwnTexts
        <3>2. w \in Seq(Seq(STRING))
            BY <3>1 DEF Text
        <3> QED BY <2>2, <3>2
    <2> HIDE DEF u, v, w
    <2>6. w = u \o v
        <3>1. u \o v \in Seq(Seq(STRING)) /\ Len(u \o v) = Len(u) + Len(v)
            <4> DEFINE S == Seq(STRING)
            <4>1. u \in Seq(S) /\ v \in Seq(S)
                BY <2>3, <2>4
            <4> HIDE DEF S
            <4>2. u \o v \in Seq(S) /\ Len(u \o v) = Len(u) + Len(v)
                BY <4>1
            <4> QED BY <4>2 DEF S
        <3>2. ASSUME NEW i \in 1..Len(w) PROVE w[i] = (u \o v)[i]
            <4>1. CASE i \in 1..Len(a)
                BY <2>2, <2>3, <2>4, <2>5, <4>1
            <4>2. CASE i \notin 1..Len(a)
                <5> DEFINE j == i - Len(a)
                <5>1. j \in 1..Len(b) /\ i = Len(a) + j
                    BY <2>2, <2>5, <4>2
                <5>2. (u \o v)[i] = v[j]
                    BY <2>3, <2>4, <5>1
                <5> HIDE DEF j
                <5>3. w[i] = Own(type, ab[i]) /\ ab[i] = b[j] /\ v[j] = Own(type, b[j])
                    BY <2>2, <2>4, <2>5, <5>1
                <5> QED BY <5>2, <5>3 DEF j
            <4> QED BY <4>1, <4>2
        <3> DEFINE S == Seq(STRING)
                   x == u \o v
        <3>3. w \in Seq(S) /\ x \in Seq(S) /\ Len(w) = Len(x) /\ \A i \in 1..Len(w) : w[i] = x[i]
            BY <2>2, <2>3, <2>4, <2>5, <3>1, <3>2
        <3> HIDE DEF S, x
        <3>4. w = x
            BY <3>3
        <3> QED BY <3>4 DEF x
    <2> QED BY <2>6 DEF u, v, w, ab
<1> QED BY <1>1, <1>2, FlattenConcat DEF OwnText

LEMMA OwnNone ==
    ASSUME NEW type
    PROVE  OwnText(<<>>, type) = <<>>
<1>1. [i \in DOMAIN <<>> |-> Own(type, <<>>[i])] = <<>>
    OBVIOUS
<1> QED BY <1>1, FlattenEmpty DEF OwnText

LEMMA OwnOne ==
    ASSUME NEW type, NEW e \in Events
    PROVE  OwnText(<<e>>, type) = Own(type, e)
<1>1. [i \in DOMAIN <<e>> |-> Own(type, <<e>>[i])] = <<Own(type, e)>>
    OBVIOUS
<1>2. Own(type, e) \in Seq(STRING)
    BY OwnTyped DEF Text
<1> QED BY <1>1, <1>2, FlattenOne DEF OwnText

LEMMA OwnSilent ==
    ASSUME NEW type, NEW s \in Seq(Events), \A i \in 1..Len(s) : Own(type, s[i]) = <<>>
    PROVE  OwnText(s, type) = <<>>
<1> DEFINE u == [i \in DOMAIN s |-> Own(type, s[i])]
<1>1. u \in Seq(Seq(STRING))
    BY OwnTexts DEF Text
<1>2. Len(u) = Len(s) /\ \A i \in 1..Len(s) : u[i] = <<>>
    OBVIOUS
<1>3. OwnText(s, type) = FlattenSeq(u)
    BY DEF OwnText
<1> HIDE DEF u
<1> QED BY <1>1, <1>2, <1>3, FlattenNothing

LEMMA OwnOfFew ==
    ASSUME NEW type, NEW a \in Events, NEW b \in Events, NEW c \in Events,
           Own(type, a) = <<>>, Own(type, b) = <<>>, Own(type, c) = <<>>
    PROVE  OwnText(<<a, b>>, type) = <<>> /\ OwnText(<<a, b, c>>, type) = <<>>
<1> DEFINE s == <<a, b>>
           t == <<a, b, c>>
<1>1. s \in Seq(Events) /\ Len(s) = 2 /\ s[1] = a /\ s[2] = b
    OBVIOUS
<1>2. t \in Seq(Events) /\ Len(t) = 3 /\ t[1] = a /\ t[2] = b /\ t[3] = c
    OBVIOUS
<1> HIDE DEF s, t
<1>3. (\A i \in 1..Len(s) : Own(type, s[i]) = <<>>) /\ \A i \in 1..Len(t) : Own(type, t[i]) = <<>>
    <2>1. ASSUME NEW i \in 1..Len(s) PROVE Own(type, s[i]) = <<>>
        <3>1. i = 1 \/ i = 2
            BY <1>1
        <3> QED BY <1>1, <3>1
    <2>2. ASSUME NEW i \in 1..Len(t) PROVE Own(type, t[i]) = <<>>
        <3>1. i = 1 \/ i = 2 \/ i = 3
            BY <1>2
        <3> QED BY <1>2, <3>1
    <2> QED BY <2>1, <2>2
<1>4. OwnText(s, type) = <<>>
    BY <1>1, <1>3, OwnSilent
<1>5. OwnText(t, type) = <<>>
    BY <1>2, <1>3, OwnSilent
<1> QED BY <1>4, <1>5 DEF s, t

(* The text an event the vendor has sent brings the client.                *)
Passes(e) ==
    e.type = IF conv.protocol = "chat" /\ format[sel] = "anthropic" THEN "content_block_delta"
             ELSE "chunk"
Brings(e) == IF Passes(e) THEN e.text ELSE <<>>

LEMMA WrittenText ==
    ASSUME conv.protocol \in Streamers, NEW e \in Events
    PROVE  OwnText(Written(e), OwnType(conv.protocol)) = Brings(e)
<1> DEFINE type == OwnType(conv.protocol)
<1>0. e.text \in Text /\ \A x \in Text : x \o <<>> = x /\ <<>> \o x = x
    BY EventParts DEF Text
<1>1. CASE conv.protocol = "chat" /\ format[sel] # "anthropic"
    <2>1. Written(e) = <<e>> /\ type = "chunk"
        BY <1>1 DEF Written, CopiedTo, OwnType
    <2> QED BY <1>1, <2>1, OwnOne DEF Own, Brings, Passes
<1>2. CASE conv.protocol = "chat" /\ format[sel] = "anthropic"
    <2> DEFINE c1 == Chunk(e.text, NoStop)
               c2 == Chunk(<<>>, OpenAIFinish(e.stop))
    <2>1. type = "chunk" /\ Written(e) = Translated(e)
        BY <1>2 DEF Written, CopiedTo, OwnType
    <2>2. c1 \in Events /\ c2 \in Events /\ RoleChunk \in Events
        BY Marks, TypesKnown, ReasonsKnown, EventMade, EventParts DEF Chunk
    <2>3. Own("chunk", c1) = e.text /\ Own("chunk", c2) = <<>> /\ Own("chunk", RoleChunk) = <<>>
        BY Fields DEF Own, Chunk, Is
    <2>4. /\ OwnText(<<c1>>, "chunk") = e.text /\ OwnText(<<c2>>, "chunk") = <<>>
          /\ OwnText(<<RoleChunk>>, "chunk") = <<>> /\ OwnText(<<>>, "chunk") = <<>>
        BY <2>2, <2>3, OwnOne, OwnNone
    <2>5. \/ e.type = "content_block_delta" /\ e.text # <<>> /\ Translated(e) = <<c1>>
          \/ e.type = "content_block_delta" /\ e.text = <<>> /\ Translated(e) = <<>>
          \/ e.type # "content_block_delta" /\ Translated(e) \in {<<RoleChunk>>, <<c2>>, <<>>}
        BY DEF Translated, AnthropicSSEToOpenAIStreamChunk
    <2> HIDE DEF c1, c2
    <2>6. Brings(e) = IF e.type = "content_block_delta" THEN e.text ELSE <<>>
        BY <1>2 DEF Brings, Passes
    <2>7. OwnText(Translated(e), "chunk") = Brings(e)
        BY <2>4, <2>5, <2>6, Zenon
    <2> QED BY <2>1, <2>7
<1>3. CASE conv.protocol = "anthropic"
    <2>1. type = "content_block_delta" /\ Brings(e) = IF e.type = "chunk" THEN e.text ELSE <<>>
        BY <1>3 DEF OwnType, Brings, Passes
    <2>2. CASE e.type # "chunk"
        <3>1. Written(e) = <<>>
            BY <1>3, <2>2 DEF Written, OpenAIStreamChunkToAnthropicSSE
        <3> QED BY <2>1, <2>2, <3>1, OwnNone
    <2>3. CASE e.type = "chunk"
        <3> DEFINE a == MessageStart(e)
                   b == BlockDelta(e)
                   c == MessageStop(e)
                   d == "content_block_delta"
                   m1 == Mark("message_start")
                   m2 == Mark("content_block_start")
                   m3 == Mark("content_block_stop")
                   m4 == Event("message_delta", <<>>, AnthropicStop(e.stop))
                   m5 == Mark("message_stop")
                   m6 == Event("content_block_delta", e.text, NoStop)
        <3>1. Written(e) = (a \o b) \o c
            BY <1>3, <2>3 DEF Written, OpenAIStreamChunkToAnthropicSSE
        <3>2. /\ m1 \in Events /\ m2 \in Events /\ m3 \in Events /\ m4 \in Events
              /\ m5 \in Events /\ m6 \in Events
            BY Marks, TypesKnown, ReasonsKnown, EventMade, EventParts
        <3>3. /\ Own(d, m1) = <<>> /\ Own(d, m2) = <<>> /\ Own(d, m3) = <<>>
              /\ Own(d, m4) = <<>> /\ Own(d, m5) = <<>> /\ Own(d, m6) = e.text
            <4>1. /\ m1.type = "message_start" /\ m2.type = "content_block_start"
                  /\ m3.type = "content_block_stop" /\ m4.type = "message_delta"
                  /\ m5.type = "message_stop" /\ m6.type = "content_block_delta"
                  /\ m6.text = e.text
                BY DEF Mark, Event
            <4> HIDE DEF m1, m2, m3, m4, m5, m6
            <4> QED BY <4>1 DEF Own
        <3>4. /\ a = <<m1, m2>> \/ a = <<>>
              /\ (b = <<m6>> /\ e.text # <<>>) \/ (b = <<>> /\ e.text = <<>>)
              /\ c = <<m3, m4, m5>> \/ c = <<>>
            BY DEF MessageStart, BlockDelta, MessageStop
        <3>5. a \in Seq(Events) /\ b \in Seq(Events) /\ c \in Seq(Events) /\ a \o b \in Seq(Events)
            BY PiecesType
        <3> HIDE DEF m1, m2, m3, m4, m5, m6, a, b, c
        <3>6. OwnText(a, d) = <<>>
            <4>1. OwnText(<<m1, m2>>, d) = <<>>
                BY <3>2, <3>3, OwnOfFew, ZenonT(60)
            <4> QED BY <3>4, <4>1, OwnNone, Zenon
        <3>7. OwnText(b, d) = e.text
            <4>1. OwnText(<<m6>>, d) = e.text
                BY <3>2, <3>3, OwnOne
            <4> QED BY <3>4, <4>1, OwnNone, Zenon
        <3>8. OwnText(c, d) = <<>>
            <4>1. OwnText(<<m3, m4, m5>>, d) = <<>>
                BY <3>2, <3>3, OwnOfFew, ZenonT(60)
            <4> QED BY <3>4, <4>1, OwnNone, Zenon
        <3>9. OwnText((a \o b) \o c, d) = (OwnText(a, d) \o OwnText(b, d)) \o OwnText(c, d)
            <4> DEFINE ab == a \o b
            <4>1. OwnText(ab, d) = OwnText(a, d) \o OwnText(b, d) /\ ab \in Seq(Events)
                BY <3>5, OwnConcat
            <4> HIDE DEF ab
            <4>2. OwnText(ab \o c, d) = OwnText(ab, d) \o OwnText(c, d)
                BY <3>5, <4>1, OwnConcat
            <4> QED BY <4>1, <4>2, Zenon DEF ab
        <3>10. OwnText((a \o b) \o c, d) = (<<>> \o e.text) \o <<>>
            BY <3>6, <3>7, <3>8, <3>9, Zenon
        <3>11. (<<>> \o e.text) \o <<>> = e.text
            BY <1>0, Zenon
        <3>12. OwnText(Written(e), d) = e.text
            BY <3>1, <3>10, <3>11, Zenon
        <3> QED BY <2>1, <2>3, <3>12, Zenon
    <2> QED BY <2>2, <2>3
<1>4. CASE conv.protocol = "gemini"
    <2> DEFINE c1 == Event("candidate", e.text, GeminiStreamFinish(e.stop))
    <2>1. type = "candidate" /\ Brings(e) = IF e.type = "chunk" THEN e.text ELSE <<>>
        BY <1>4 DEF OwnType, Brings, Passes
    <2>2. Written(e) = IF e.type = "chunk" THEN <<c1>> ELSE <<>>
        BY <1>4 DEF Written, OpenAIStreamChunkToGeminiSSE
    <2>3. c1 \in Events /\ Own("candidate", c1) = e.text
        BY TypesKnown, ReasonsKnown, EventMade, EventParts, Fields DEF Own, Is
    <2> HIDE DEF c1
    <2>4. OwnText(<<c1>>, "candidate") = e.text
        BY <2>3, OwnOne
    <2> QED BY <2>1, <2>2, <2>4, OwnNone, Zenon
<1> QED BY <1>1, <1>2, <1>3, <1>4 DEF Streamers

(* Event off + i of the script brings word i, the others nothing.          *)
Speaks(s, off) == \A j \in 1..Len(s) : Brings(s[j]) = WordAt(j - off)

LEMMA ScriptSpeaks ==
    ASSUME NEW s \in Seq(Events), NEW stop, format[sel] \in Formats,
           Shape(s, format[sel], stop), Translates => Readable(s, format[sel], stop)
    PROVE  \E off \in Nat : Speaks(s, off) /\ (Translates => Len(s) >= off + L)
<1> DEFINE f == format[sel]
<1>0. L \in Nat /\ L >= 1 /\ Len(s) \in Nat
    BY WordsType
<1>1. CASE f = "openai-compatible" /\ Cut(s, stop)
    <2>1. PICK off \in 0..1, end \in Nat : Told(s, off, end, stop) /\ Chunked(s, end)
        BY <1>1 DEF Cut
    <2>2. /\ end >= off + L /\ Len(s) = end + 2
          /\ \A j \in 1..Len(s) : s[j].text = WordAt(j - off)
          /\ \A j \in 1..end : s[j].type = "chunk"
          /\ s[end + 1] = Mark("usage") /\ s[end + 2] = Done
        BY <2>1 DEF Told, Chunked
    <2>3. s[end + 1].type = "usage" /\ s[end + 2].type = "[DONE]"
        BY <2>2 DEF Mark, Event, Done
    <2>4. ASSUME NEW e PROVE Brings(e) = IF e.type = "chunk" THEN e.text ELSE <<>>
        BY <1>1 DEF Brings, Passes
    <2>5. ASSUME NEW j \in 1..Len(s) PROVE Brings(s[j]) = WordAt(j - off)
        <3>1. CASE j \in 1..end
            <4>1. s[j].type = "chunk" /\ s[j].text = WordAt(j - off)
                BY <2>2, <3>1
            <4> QED BY <2>4, <4>1
        <3>2. CASE j \in {end + 1, end + 2}
            <4>1. s[j].type # "chunk"
                BY <2>3, <3>2
            <4>2. j - off \notin 1..L
                BY <1>0, <2>2, <3>2
            <4> QED BY <2>4, <4>1, <4>2 DEF WordAt
        <3> QED BY <2>2, <3>1, <3>2
    <2>6. Speaks(s, off)
        BY <2>5 DEF Speaks
    <2>7. off \in Nat /\ Len(s) >= off + L
        BY <1>0, <2>1, <2>2
    <2> QED BY <2>6, <2>7
<1>2. CASE f = "anthropic" /\ conv.protocol = "chat" /\ Told(s, 2, L + 4, stop) /\ Spoken(s)
    <2>1. /\ Len(s) = L + 5 /\ \A j \in 1..Len(s) : s[j].text = WordAt(j - 2)
          /\ \A j \in 3..(L + 2) : s[j].type = "content_block_delta"
        BY <1>2 DEF Told, Spoken
    <2>2. s[1].type = "message_start" /\ s[2].type = "content_block_start"
          /\ s[L + 3].type = "content_block_stop" /\ s[L + 4].type = "message_delta"
          /\ s[L + 5].type = "message_stop"
        BY <1>2 DEF Spoken
    <2>3. ASSUME NEW e PROVE Brings(e) = IF e.type = "content_block_delta" THEN e.text ELSE <<>>
        BY <1>2 DEF Brings, Passes
    <2>4. ASSUME NEW j \in 1..Len(s) PROVE Brings(s[j]) = WordAt(j - 2)
        <3>1. CASE j \in 3..(L + 2)
            <4>1. s[j].type = "content_block_delta" /\ s[j].text = WordAt(j - 2)
                BY <2>1, <3>1
            <4> QED BY <2>3, <4>1
        <3>2. CASE j \notin 3..(L + 2)
            <4>1. j \in {1, 2, L + 3, L + 4, L + 5}
                BY <1>0, <2>1, <3>2
            <4>2. s[j].type # "content_block_delta"
                BY <2>2, <4>1
            <4>3. j - 2 \notin 1..L
                BY <1>0, <3>2
            <4> QED BY <2>3, <4>2, <4>3 DEF WordAt
        <3> QED BY <3>1, <3>2
    <2>5. Speaks(s, 2)
        BY <2>4 DEF Speaks
    <2>6. 2 \in Nat /\ Len(s) >= 2 + L
        BY <1>0, <2>1
    <2> QED BY <2>5, <2>6
<1>3. CASE /\ ~(f = "openai-compatible" /\ Cut(s, stop))
           /\ ~(f = "anthropic" /\ conv.protocol = "chat" /\ Told(s, 2, L + 4, stop) /\ Spoken(s))
    <2>1. ~Translates
        BY <1>3 DEF Translates, Readable
    <2>2. ASSUME NEW j \in 1..Len(s) PROVE Brings(s[j]) = <<>>
        <3>1. CASE Foreign(s)
            BY <3>1 DEF Foreign, Brings, Passes
        <3>2. CASE f = "anthropic" /\ conv.protocol # "chat" /\ Spoken(s)
            <4>1. /\ Len(s) = L + 5 /\ \A i \in 3..(L + 2) : s[i].type = "content_block_delta"
                  /\ s[1].type = "message_start" /\ s[2].type = "content_block_start"
                  /\ s[L + 3].type = "content_block_stop" /\ s[L + 4].type = "message_delta"
                  /\ s[L + 5].type = "message_stop"
                BY <3>2 DEF Spoken
            <4>2. j \in 3..(L + 2) \/ j \in {1, 2, L + 3, L + 4, L + 5}
                BY <1>0, <4>1
            <4>3. s[j].type # "chunk"
                BY <4>1, <4>2
            <4> QED BY <3>2, <4>3 DEF Brings, Passes
        <3> QED BY <1>3, <3>1, <3>2 DEF Shape
    <2>3. ASSUME NEW j \in 1..Len(s) PROVE WordAt(j - Len(s)) = <<>>
        BY <1>0 DEF WordAt
    <2> QED BY <1>0, <2>1, <2>2, <2>3 DEF Speaks
<1> QED BY <1>1, <1>2, <1>3

(* The words said when k events are written.                               *)
Spoke(off, k) == IF k <= off THEN 0 ELSE IF k >= off + L THEN L ELSE k - off

LEMMA SpokeMore ==
    ASSUME NEW off \in Nat, NEW k \in Nat
    PROVE  /\ Spoke(off, k) \in 0..L
           /\ SubSeq(Words, 1, Spoke(off, k + 1))
                 = SubSeq(Words, 1, Spoke(off, k)) \o WordAt(k + 1 - off)
<1>0. Words \in Seq(STRING) /\ L \in Nat /\ L >= 1 /\ Len(Words) = L
    BY WordsType DEF L
<1>1. Spoke(off, k) \in 0..L
    BY <1>0 DEF Spoke
<1>2. CASE k + 1 - off \in 1..L
    <2> DEFINE n == k - off
    <2>1. n \in 0..(L - 1) /\ Spoke(off, k) = n /\ Spoke(off, k + 1) = n + 1 /\ k + 1 - off = n + 1
        BY <1>0, <1>2 DEF Spoke
    <2>2. WordAt(k + 1 - off) = <<Words[n + 1]>>
        BY <1>2, <2>1 DEF WordAt
    <2> HIDE DEF n
    <2>3. SubSeq(Words, 1, n + 1) = SubSeq(Words, 1, n) \o <<Words[n + 1]>>
        BY <1>0, <2>1
    <2> QED BY <1>1, <2>1, <2>2, <2>3
<1>3. CASE k + 1 - off \notin 1..L
    <2>1. Spoke(off, k + 1) = Spoke(off, k) /\ WordAt(k + 1 - off) = <<>>
        BY <1>0, <1>3 DEF Spoke, WordAt
    <2> DEFINE x == SubSeq(Words, 1, Spoke(off, k))
    <2>2. x \in Seq(STRING)
        BY <1>0, <1>1
    <2> HIDE DEF x
    <2>3. x \o <<>> = x
        BY <2>2
    <2> QED BY <1>1, <2>1, <2>3 DEF x
<1> QED BY <1>2, <1>3

(* A client still there has got the text of what is written so far, one    *)
(* that has left the text of some of it.                                   *)
TextInv ==
    script # <<>> =>
        \E off, k \in Nat :
            /\ Speaks(script, off) /\ (Translates => Len(script) >= off + L)
            /\ TextGot = SubSeq(Words, 1, Spoke(off, k))
            /\ client.here => k = pos - 1

(* It has been told the reason once the event that holds it is written.    *)
ReasonTold(s, got, n) ==
    \A j \in 1..n : s[j].stop # NoStop =>
        \E i \in DOMAIN got : got[i].stop = StopWord(conv.protocol, reason)

StopInv == script # <<>> /\ client.here /\ Translates => ReasonTold(script, client.got, pos - 1)

LEMMA TextGotIs == TextGot = OwnText(client.got, OwnType(conv.protocol))
BY DEF TextGot, OwnText, Own

(* Nothing is written yet.                                                 *)
Beginning == script # <<>> /\ pos = 1 /\ client.got = <<>>

LEMMA TextBegins == CallInv /\ ScriptInv /\ Beginning => TextInv /\ StopInv
<1> SUFFICES ASSUME CallInv, ScriptInv, Beginning PROVE TextInv /\ StopInv
    OBVIOUS
<1>0. script # <<>> /\ pos = 1 /\ client.got = <<>>
    BY DEF Beginning
<1>1. /\ format[sel] \in Formats /\ script \in Seq(Events)
      /\ Shape(script, format[sel], StopWord(format[sel], reason))
      /\ Translates => Readable(script, format[sel], StopWord(format[sel], reason))
    BY <1>0, ScriptKnown
<1>2. PICK off \in Nat : Speaks(script, off) /\ (Translates => Len(script) >= off + L)
    BY <1>1, ScriptSpeaks
<1>3. TextGot = <<>>
    BY <1>0, OwnNone, TextGotIs
<1>4. SubSeq(Words, 1, Spoke(off, 0)) = <<>>
    BY <1>2, WordsType DEF Spoke
<1>5. TextInv
    <2>1. 0 \in Nat /\ 0 = pos - 1
        BY <1>0
    <2> QED BY <1>2, <1>3, <1>4, <2>1, Zenon DEF TextInv
<1>6. StopInv
    <2>1. 1..(pos - 1) = {}
        BY <1>0
    <2> QED BY <2>1 DEF StopInv, ReasonTold
<1> QED BY <1>5, <1>6

LEMMA TextBeginsNext == (CallInv /\ ScriptInv /\ Beginning => TextInv /\ StopInv)'
BY TextBegins, PTL

LEMMA StreamBeginning == CallInv /\ ScriptInv /\ StreamBegins => script' = <<>> \/ Beginning'
<1> SUFFICES ASSUME CallInv, ScriptInv, StreamBegins PROVE script' = <<>> \/ Beginning'
    OBVIOUS
<1>1. /\ pos' = 1 /\ client' = [client EXCEPT !.status = "ok"] /\ client.got = <<>>
    BY DEF StreamBegins, ScriptInv
<1>2. client'.got = <<>>
    BY <1>1 DEF CallInv, Client
<1> QED BY <1>1, <1>2 DEF Beginning

LEMMA TextStep == CallInv /\ ScriptInv /\ TextInv /\ [Next]_vars => TextInv'
<1> SUFFICES ASSUME CallInv, ScriptInv, TextInv, [Next]_vars PROVE TextInv'
    OBVIOUS
<1>0. CallInv' /\ ScriptInv'
    BY CallStep, ScriptStep
<1>1. CASE Before
    BY <1>1 DEF Before, ScriptInv, TextInv
<1>2. ASSUME UNCHANGED <<conv, format, tried, script>>, NEW off
      PROVE  Speaks(script, off)' = Speaks(script, off) /\ Translates' = Translates
    BY <1>2 DEF Speaks, Brings, Passes, Translates, sel
<1>3. CASE Still
    <2>1. /\ UNCHANGED <<conv, format, tried, script, pos>>
          /\ client'.got = client.got /\ (client'.here => client.here)
        BY <1>3 DEF Still
    <2>2. TextGot' = TextGot
        BY <2>1 DEF TextGot
    <2>3. CASE script = <<>>
        BY <2>1, <2>3 DEF TextInv
    <2>4. CASE script # <<>>
        <3>1. PICK off \in Nat, k \in Nat :
                 /\ Speaks(script, off) /\ (Translates => Len(script) >= off + L)
                 /\ TextGot = SubSeq(Words, 1, Spoke(off, k))
                 /\ client.here => k = pos - 1
            BY <2>4 DEF TextInv
        <3>2. Speaks(script, off)' /\ Translates' = Translates
            BY <1>2, <2>1, <3>1
        <3> QED BY <2>1, <2>2, <3>1, <3>2 DEF TextInv
    <2> QED BY <2>3, <2>4
<1>4. CASE StreamBegins
    <2>1. CASE script' = <<>>
        BY <2>1 DEF TextInv
    <2>2. CASE Beginning'
        BY <1>0, <2>2, TextBeginsNext
    <2> QED BY <1>4, <2>1, <2>2, StreamBeginning
<1>5. CASE RelayEvent \/ StreamOver
    <2>1. PICK more \in Seq(Events) :
              /\ UNCHANGED <<conv, format, tried, heard, script, reason>>
              /\ client'.got = client.got \o more /\ client'.here = client.here
              /\ ~client.here => more = <<>>
              /\ RelayEvent => pos \in 1..Len(script) /\ pos' = pos + 1
              /\ RelayEvent => script[pos] \in Events
              /\ RelayEvent /\ client.here => more = Written(script[pos])
              /\ StreamOver => pos' = pos /\ (more = <<>> \/ more = WrittenAtEnd(format[sel]))
        BY <1>5, Adds
    <2>2. script # <<>>
        BY <1>5 DEF ScriptInv, RelayEvent, StreamOver
    <2>3. PICK off \in Nat, k \in Nat :
             /\ Speaks(script, off) /\ (Translates => Len(script) >= off + L)
             /\ TextGot = SubSeq(Words, 1, Spoke(off, k))
             /\ client.here => k = pos - 1
        BY <2>2 DEF TextInv
    <2>4. Speaks(script, off)' /\ Translates' = Translates
        BY <1>2, <2>1, <2>3
    <2> DEFINE type == OwnType(conv.protocol)
               got == client.got
    <2>5. got \in Seq(Events) /\ conv.protocol \in Streamers /\ TextGot = OwnText(got, type)
        BY <2>2, ScriptKnown, TextGotIs
    <2>6. TextGot' = OwnText(got \o more, type)
        BY <2>1 DEF TextGot, OwnText, Own
    <2> HIDE DEF type, got
    <2>7. OwnText(got \o more, type) = OwnText(got, type) \o OwnText(more, type)
        BY <2>5, OwnConcat
    <2>8. OwnText(got, type) \in Seq(STRING)
        BY <2>5, OwnTextType DEF Text
    <2>9. CASE OwnText(more, type) = <<>> /\ (client.here => pos' = pos)
        <3> DEFINE x == OwnText(got, type)
        <3>1. x \in Seq(STRING)
            BY <2>8
        <3> HIDE DEF x
        <3>2. x \o <<>> = x
            BY <3>1
        <3>3. TextGot' = TextGot
            BY <2>5, <2>6, <2>7, <2>9, <3>2, Zenon DEF x
        <3>4. client'.here => k = pos' - 1
            BY <2>1, <2>3, <2>9
        <3> QED BY <2>1, <2>3, <2>4, <3>3, <3>4 DEF TextInv
    <2>10. CASE client.here /\ RelayEvent
        <3>1. pos \in 1..Len(script) /\ pos' = pos + 1 /\ k = pos - 1 /\ more = Written(script[pos])
              /\ script[pos] \in Events
            BY <2>1, <2>3, <2>10
        <3>2. OwnText(more, type) = Brings(script[pos])
            BY <2>5, <3>1, WrittenText DEF type
        <3>3. Brings(script[pos]) = WordAt(pos - off)
            BY <2>3, <3>1 DEF Speaks
        <3>4. k + 1 - off = pos - off /\ k + 1 = pos' - 1 /\ k + 1 \in Nat
            BY <2>3, <3>1
        <3>5. SubSeq(Words, 1, Spoke(off, k + 1)) = SubSeq(Words, 1, Spoke(off, k)) \o WordAt(k + 1 - off)
            BY <2>3, SpokeMore
        <3>6. TextGot' = SubSeq(Words, 1, Spoke(off, k + 1))
            BY <2>3, <2>5, <2>6, <2>7, <3>2, <3>3, <3>4, <3>5, Zenon
        <3> QED BY <2>1, <2>3, <2>4, <3>4, <3>6 DEF TextInv
    <2>11. OwnText(<<>>, type) = <<>> /\ OwnText(<<Done>>, type) = <<>>
        <3>1. Done \in Events /\ Own(type, Done) = <<>>
            BY Marks DEF Done, Own
        <3> QED BY <3>1, OwnNone, OwnOne
    <2>12. CASE ~client.here
        <3>1. OwnText(more, type) = <<>>
            BY <2>1, <2>11, <2>12, Zenon
        <3> QED BY <2>9, <2>12, <3>1
    <2>13. CASE StreamOver
        <3>1. more = <<>> \/ more = <<Done>>
            BY <2>1, <2>13 DEF WrittenAtEnd
        <3>2. OwnText(more, type) = <<>>
            BY <2>11, <3>1, Zenon
        <3> QED BY <2>1, <2>9, <2>13, <3>2
    <2> QED BY <1>5, <2>10, <2>12, <2>13
<1> QED BY <1>1, <1>3, <1>4, <1>5, Kinds

(* The event that holds the reason is written as one that does.            *)
LEMMA StopWritten ==
    ASSUME CallInv, ScriptInv, script # <<>>, Translates, NEW j \in 1..Len(script),
           script[j].stop # NoStop
    PROVE  \E i \in DOMAIN Written(script[j]) :
              Written(script[j])[i].stop = StopWord(conv.protocol, reason)
<1> DEFINE f == format[sel]
           stop == StopWord(f, reason)
           e == script[j]
           told == StopWord(conv.protocol, reason)
<1>0. /\ f \in Formats /\ reason \in Whys /\ Readable(script, f, stop)
      /\ conv.protocol \in Streamers /\ L \in Nat /\ L >= 1
    BY ScriptKnown, WordsType
<1>1. \/ f = "openai-compatible" /\ conv.protocol = "chat"
      \/ f = "openai-compatible" /\ conv.protocol = "anthropic"
      \/ f = "anthropic" /\ conv.protocol = "chat"
    BY <1>0 DEF Translates, Streamers
<1>2. /\ f = "openai-compatible" =>
             /\ StopWord("chat", reason) = stop
             /\ StopWord("anthropic", reason) = AnthropicStop(stop)
      /\ f = "anthropic" => StopWord("chat", reason) = OpenAIFinish(stop)
    BY <1>0, StopWords
<1>3. f = "openai-compatible" => e.stop = stop /\ e.type = "chunk"
    <2> SUFFICES ASSUME f = "openai-compatible" PROVE e.stop = stop /\ e.type = "chunk"
        OBVIOUS
    <2> HIDE DEF stop
    <2>1. PICK off \in 0..1, end \in Nat : Told(script, off, end, stop) /\ Chunked(script, end)
        BY <1>0 DEF Readable, Cut
    <2>2. e.stop = IF j = end THEN stop ELSE NoStop
        BY <2>1 DEF Told
    <2>3. j = end /\ end \in 1..end
        BY <2>1, <2>2
    <2> QED BY <2>1, <2>2, <2>3 DEF Chunked
<1>4. f = "anthropic" => e.stop = stop /\ e.type = "message_delta"
    <2> SUFFICES ASSUME f = "anthropic" PROVE e.stop = stop /\ e.type = "message_delta"
        OBVIOUS
    <2> HIDE DEF stop
    <2>1. Told(script, 2, L + 4, stop) /\ Spoken(script)
        BY <1>0 DEF Readable
    <2>2. e.stop = IF j = L + 4 THEN stop ELSE NoStop
        BY <2>1 DEF Told
    <2>3. j = L + 4
        BY <2>2
    <2> QED BY <2>1, <2>2, <2>3 DEF Spoken
<1> HIDE DEF stop
<1>5. CASE f = "openai-compatible" /\ conv.protocol = "chat"
    <2>1. Written(e) = <<e>>
        BY <1>5 DEF Written, CopiedTo
    <2>2. e.stop = told
        BY <1>2, <1>3, <1>5
    <2> HIDE DEF e, told
    <2>3. 1 \in DOMAIN <<e>> /\ <<e>>[1].stop = told
        BY <2>2
    <2> QED BY <2>1, <2>3 DEF e, told
<1>6. CASE f = "openai-compatible" /\ conv.protocol = "anthropic"
    <2> DEFINE a == MessageStart(e)
               b == BlockDelta(e)
               ab == a \o b
               m3 == Mark("content_block_stop")
               m4 == Event("message_delta", <<>>, AnthropicStop(e.stop))
               m5 == Mark("message_stop")
    <2>1. Written(e) = ab \o <<m3, m4, m5>>
        BY <1>3, <1>6 DEF Written, OpenAIStreamChunkToAnthropicSSE, MessageStop
    <2>2. m4.stop = told
        BY <1>2, <1>3, <1>6 DEF Event
    <2>3. ab \in Seq(Events) /\ e \in Events
        <3>1. e \in Events
            BY ScriptKnown
        <3> QED BY <3>1, PiecesType
    <2>4. m3 \in Events /\ m4 \in Events /\ m5 \in Events
        BY <2>3, Marks, TypesKnown, ReasonsKnown, EventMade, EventParts
    <2> HIDE DEF ab, m3, m4, m5, e, told
    <2>5. Len(ab) + 2 \in DOMAIN (ab \o <<m3, m4, m5>>) /\ (ab \o <<m3, m4, m5>>)[Len(ab) + 2] = m4
        BY <2>3, <2>4
    <2> QED BY <2>1, <2>2, <2>5 DEF e, told
<1>7. CASE f = "anthropic" /\ conv.protocol = "chat"
    <2> DEFINE c == Chunk(<<>>, OpenAIFinish(e.stop))
    <2>1. Written(e) = <<c>>
        BY <1>4, <1>7 DEF Written, CopiedTo, Translated, AnthropicSSEToOpenAIStreamChunk
    <2>2. c.stop = told
        BY <1>2, <1>4, <1>7 DEF Chunk, Event
    <2> HIDE DEF c, e, told
    <2>3. 1 \in DOMAIN <<c>> /\ <<c>>[1].stop = told
        BY <2>2
    <2> QED BY <2>1, <2>3 DEF e, told
<1> QED BY <1>1, <1>5, <1>6, <1>7

LEMMA StopStep == CallInv /\ ScriptInv /\ StopInv /\ [Next]_vars => StopInv'
<1> SUFFICES ASSUME CallInv, ScriptInv, StopInv, [Next]_vars PROVE StopInv'
    OBVIOUS
<1>0. CallInv' /\ ScriptInv'
    BY CallStep, ScriptStep
<1>1. CASE Before
    BY <1>1 DEF Before, ScriptInv, StopInv
<1>2. ASSUME UNCHANGED <<conv, format, tried>> PROVE Translates' = Translates
    BY <1>2 DEF Translates, sel
<1>3. CASE Still
    <2>1. /\ UNCHANGED <<conv, format, tried, script, pos, reason>>
          /\ client'.got = client.got /\ (client'.here => client.here)
        BY <1>3 DEF Still
    <2>2. ReasonTold(script, client.got, pos - 1)' = ReasonTold(script, client.got, pos - 1)
        BY <2>1 DEF ReasonTold
    <2> QED BY <1>2, <2>1, <2>2 DEF StopInv
<1>4. CASE StreamBegins
    <2>1. CASE script' = <<>>
        BY <2>1 DEF StopInv
    <2>2. CASE Beginning'
        BY <1>0, <2>2, TextBeginsNext
    <2> QED BY <1>4, <2>1, <2>2, StreamBeginning
<1>5. CASE RelayEvent \/ StreamOver
    <2> SUFFICES ASSUME client'.here, Translates' PROVE ReasonTold(script, client.got, pos - 1)'
        BY DEF StopInv
    <2>1. PICK more \in Seq(Events) :
              /\ UNCHANGED <<conv, format, tried, heard, script, reason>>
              /\ client'.got = client.got \o more /\ client'.here = client.here
              /\ RelayEvent => pos \in 1..Len(script) /\ pos' = pos + 1
              /\ RelayEvent /\ client.here => more = Written(script[pos])
              /\ StreamOver => pos' = pos
        BY <1>5, Adds
    <2>2. /\ client.here /\ Translates /\ script # <<>> /\ client.got \in Seq(Events)
          /\ pos \in 1..(Len(script) + 1) /\ script \in Seq(Events)
        <3>1. script # <<>>
            BY <1>5 DEF ScriptInv, RelayEvent, StreamOver
        <3> QED BY <1>2, <2>1, <3>1, ScriptKnown
    <2>3. ReasonTold(script, client.got, pos - 1)
        BY <2>2 DEF StopInv
    <2> DEFINE got == client.got
               told == StopWord(conv.protocol, reason)
               all == got \o more
    <2>4. /\ \A i \in DOMAIN got : i \in DOMAIN all /\ all[i] = got[i]
          /\ \A i \in DOMAIN more : Len(got) + i \in DOMAIN all /\ all[Len(got) + i] = more[i]
        <3> HIDE DEF got
        <3>1. got \in Seq(Events)
            BY <2>2 DEF got
        <3> QED BY <2>1, <3>1
    <2>5. client'.got = all /\ told' = told
        BY <2>1
    <2>6. ASSUME NEW j \in 1..(pos' - 1), script[j].stop # NoStop
          PROVE  \E i \in DOMAIN all : all[i].stop = told
        <3>1. CASE j \in 1..(pos - 1)
            <4>1. \E i \in DOMAIN got : got[i].stop = told
                BY <2>3, <2>6, <3>1 DEF ReasonTold
            <4> HIDE DEF got, told, all
            <4> QED BY <2>4, <4>1
        <3>2. CASE j \notin 1..(pos - 1)
            <4>1. j = pos /\ RelayEvent /\ j \in 1..Len(script)
                BY <1>5, <2>1, <2>2, <3>2
            <4>2. \E i \in DOMAIN more : more[i].stop = told
                BY <2>1, <2>2, <2>6, <4>1, StopWritten
            <4> HIDE DEF got, told, all
            <4> QED BY <2>4, <4>2
        <3> QED BY <3>1, <3>2
    <2> HIDE DEF all
    <2> QED BY <2>1, <2>5, <2>6 DEF ReasonTold
<1> QED BY <1>1, <1>3, <1>4, <1>5, Kinds

StreamInv == CallInv /\ ScriptInv /\ TextInv /\ StopInv

LEMMA TextKept == StreamInv => StreamTextKept
<1> SUFFICES ASSUME StreamInv, Streams
             PROVE  IsPrefix(TextGot, Words) /\ (WholeStream /\ Translates => TextDelivered)
    BY DEF StreamTextKept
<1>0. Words \in Seq(STRING) /\ Words # <<>> /\ L \in Nat /\ L >= 1 /\ Len(Words) = L
    BY WordsType DEF L
<1>1. CASE script = <<>>
    <2>1. client.got = <<>>
        BY <1>1 DEF StreamInv, ScriptInv
    <2>2. TextGot = <<>>
        BY <2>1, OwnNone, TextGotIs
    <2>3. IsPrefix(<<>>, Words)
        BY <1>0 DEF IsPrefix
    <2> QED BY <1>1, <2>2, <2>3 DEF WholeStream
<1>2. CASE script # <<>>
    <2>1. PICK off \in Nat, k \in Nat :
             /\ Translates => Len(script) >= off + L
             /\ TextGot = SubSeq(Words, 1, Spoke(off, k))
             /\ client.here => k = pos - 1
        BY <1>2 DEF StreamInv, TextInv
    <2>2. Spoke(off, k) \in 0..L
        BY <2>1, SpokeMore
    <2>3. IsPrefix(TextGot, Words)
        <3> DEFINE n == Spoke(off, k)
                   x == SubSeq(Words, 1, n)
        <3>1. n \in 0..L
            BY <2>2
        <3> HIDE DEF n
        <3>2. x \in Seq(STRING) /\ Len(x) = n /\ n <= Len(Words)
            BY <1>0, <3>1
        <3>3. SubSeq(x, 1, n) = x
            <4> HIDE DEF x
            <4> QED BY <3>1, <3>2
        <3>4. Len(x) <= Len(Words) /\ SubSeq(x, 1, Len(x)) = SubSeq(Words, 1, Len(x))
            BY <3>2, <3>3
        <3>5. TextGot = x
            BY <2>1 DEF n
        <3> HIDE DEF x
        <3> QED BY <3>4, <3>5 DEF IsPrefix
    <2>4. ASSUME WholeStream, Translates PROVE TextDelivered
        <3>0. /\ script \in Seq(Events) /\ pos \in 1..(Len(script) + 1)
              /\ format[sel] \in Formats /\ reason \in Whys
              /\ Readable(script, format[sel], StopWord(format[sel], reason))
            BY <1>2, <2>4, ScriptKnown DEF StreamInv
        <3>1. client.here /\ pos - 1 = Len(script) /\ k = Len(script) /\ Len(script) \in Nat
            BY <2>1, <2>4, <3>0 DEF WholeStream
        <3>2. Spoke(off, k) = L
            BY <1>0, <2>1, <2>4, <3>1 DEF Spoke
        <3>3. SubSeq(Words, 1, L) = Words
            BY <1>0
        <3>4. TextGot = Words
            BY <2>1, <3>2, <3>3
        <3> DEFINE stop == StopWord(format[sel], reason)
        <3>5. stop # NoStop /\ Readable(script, format[sel], stop)
            BY <3>0, StopWordSaid
        <3> HIDE DEF stop
        <3>6. \E j \in 1..Len(script) : script[j].stop # NoStop
            <4>1. CASE format[sel] = "openai-compatible"
                <5>1. PICK o \in 0..1, end \in Nat : Told(script, o, end, stop)
                    BY <3>5, <4>1 DEF Readable, Cut
                <5>2. end \in 1..Len(script) /\ script[end].stop = stop
                    BY <1>0, <5>1 DEF Told
                <5> QED BY <3>5, <5>2
            <4>2. CASE format[sel] = "anthropic"
                <5>1. Told(script, 2, L + 4, stop)
                    BY <3>5, <4>2 DEF Readable
                <5>2. L + 4 \in 1..Len(script) /\ script[L + 4].stop = stop
                    BY <1>0, <5>1 DEF Told
                <5> QED BY <3>5, <5>2
            <4> QED BY <2>4, <4>1, <4>2 DEF Translates
        <3>7. ReasonTold(script, client.got, Len(script))
            BY <1>2, <2>4, <3>1 DEF StreamInv, StopInv
        <3> QED BY <3>4, <3>6, <3>7 DEF TextDelivered, ReasonTold
    <2> QED BY <2>3, <2>4
<1> QED BY <1>1, <1>2

(* A stream brings the client the beginning of what one vendor says, and   *)
(* a whole and translated one all of it and the reason why the vendor has  *)
(* stopped (the stream translators of protocol and provider, and the loops *)
(* of handleStream and copyStreamWithUsage).                               *)
THEOREM StreamedWords == Spec => []StreamTextKept
<1>1. Init => StreamInv
    BY CallInit, ScriptInit DEF StreamInv, Init, TextInv, StopInv
<1>2. StreamInv /\ [Next]_vars => StreamInv'
    BY CallStep, ScriptStep, TextStep, StopStep DEF StreamInv
<1> QED BY <1>1, <1>2, TextKept, PTL DEF Spec

-----------------------------------------------------------------------------
(* The order of a stream: a chat client *)

Follows(a, b) == a # Done /\ ~b.role /\ (a.stop # NoStop => b.text = <<>>)
Orderly(got) == \A i, j \in DOMAIN got : i < j => Follows(got[i], got[j])

LEMMA ChatOne ==
    ASSUME conv.protocol = "chat", NEW e
    PROVE  /\ Written(e) = <<>> \/ \E x : Written(e) = <<x>>
           /\ format[sel] # "anthropic" => Written(e) = <<e>>
           /\ format[sel] = "anthropic" =>
                 \/ Written(e) = <<>>
                 \/ e.type = "message_start" /\ Written(e) = <<RoleChunk>>
                 \/ e.type = "content_block_delta" /\ Written(e) = <<Chunk(e.text, NoStop)>>
                 \/ /\ e.type = "message_delta"
                    /\ Written(e) = <<Chunk(<<>>, OpenAIFinish(e.stop))>>
BY DEF Written, CopiedTo, Translated, AnthropicSSEToOpenAIStreamChunk

LEMMA Single == ASSUME NEW x, NEW y PROVE (<<x>> = <<y>> => x = y) /\ <<x>> # <<>>
OBVIOUS

(* What a chat client gets for an event of Anthropic's.                    *)
ChatEvent(e, a) ==
    \/ e.type = "message_start" /\ a = RoleChunk
    \/ e.type = "content_block_delta" /\ a = Chunk(e.text, NoStop)
    \/ e.type = "message_delta" /\ a = Chunk(<<>>, OpenAIFinish(e.stop))

LEMMA ChatOther ==
    ASSUME conv.protocol = "chat", format[sel] = "anthropic", NEW e, NEW a, Written(e) = <<a>>
    PROVE  ChatEvent(e, a)
<1> DEFINE w == Written(e)
           c1 == Chunk(e.text, NoStop)
           c2 == Chunk(<<>>, OpenAIFinish(e.stop))
<1>1. \/ w = <<>>
      \/ e.type = "message_start" /\ w = <<RoleChunk>>
      \/ e.type = "content_block_delta" /\ w = <<c1>>
      \/ e.type = "message_delta" /\ w = <<c2>>
    BY ChatOne
<1>2. w = <<a>> /\ <<a>> # <<>>
    BY Single
<1>3. (<<a>> = <<RoleChunk>> => a = RoleChunk) /\ (<<a>> = <<c1>> => a = c1)
      /\ (<<a>> = <<c2>> => a = c2)
    BY Single
<1> HIDE DEF w
<1> QED BY <1>1, <1>2, <1>3, Zenon DEF ChatEvent

LEMMA Unequal ==
    /\ \A e : e.type # "[DONE]" => e # Done
    /\ \A e : NoRole(e) => ~e.role
    /\ \A text, stop : Chunk(text, stop) # Done /\ ~Chunk(text, stop).role
    /\ RoleChunk # Done
<1>1. Done.type = "[DONE]"
    BY DEF Done, Mark, Event
<1>2. ASSUME NEW text, NEW stop PROVE Chunk(text, stop) # Done /\ ~Chunk(text, stop).role
    <2>1. Chunk(text, stop).type = "chunk" /\ Chunk(text, stop).role = FALSE
        BY DEF Chunk, Event
    <2> QED BY <1>1, <2>1
<1>3. RoleChunk.type = "chunk"
    BY Marks
<1> QED BY <1>1, <1>2, <1>3 DEF NoRole

LEMMA ChatPair ==
    ASSUME CallInv, ScriptInv, script # <<>>, conv.protocol = "chat",
           NEW i \in 1..Len(script), NEW j \in 1..Len(script), i < j, NEW a, NEW b,
           Written(script[i]) = <<a>>, Written(script[j]) = <<b>>
    PROVE  Follows(a, b)
<1> DEFINE f == format[sel]
           stop == StopWord(f, reason)
           s == script
<1>0. Shape(s, f, stop) /\ L \in Nat /\ L >= 1 /\ s \in Seq(Events)
    BY ScriptKnown, WordsType
<1> HIDE DEF stop
<1>1. CASE f # "anthropic"
    <2>1. a = s[i] /\ b = s[j]
        <3>1. <<a>> = <<s[i]>> /\ <<b>> = <<s[j]>>
            BY <1>1, ChatOne
        <3> HIDE DEF s
        <3> QED BY <3>1
    <2>2. CASE Foreign(s)
        <3>1. s[i].type \in {"json", "vendor"} /\ s[i].stop = NoStop /\ NoRole(s[j])
            BY <1>0, <2>2 DEF Foreign
        <3>2. s[i].type # "[DONE]"
            BY <3>1
        <3> QED BY <2>1, <3>1, <3>2, Unequal DEF Follows
    <2>3. CASE f = "openai-compatible" /\ Cut(s, stop)
        <3>1. PICK off \in 0..1, end \in Nat : Told(s, off, end, stop) /\ Chunked(s, end)
            BY <2>3 DEF Cut
        <3>2. /\ Len(s) = end + 2 /\ end >= off + L
              /\ s[j].text = WordAt(j - off)
              /\ s[i].stop = IF i = end THEN stop ELSE NoStop
              /\ i <= end => s[i].type = "chunk"
              /\ i = end + 1 => s[i] = Mark("usage")
              /\ NoRole(s[j])
            <4>1. Len(s) = end + 2 /\ end >= off + L /\ s[end + 1] = Mark("usage")
                  /\ (\A n \in 2..Len(s) : NoRole(s[n])) /\ (\A n \in 1..end : s[n].type = "chunk")
                BY <3>1 DEF Told, Chunked
            <4>2. s[j].text = WordAt(j - off) /\ s[i].stop = IF i = end THEN stop ELSE NoStop
                BY <3>1 DEF Told
            <4>3. j \in 2..Len(s) /\ (i <= end => i \in 1..end)
                BY <4>1
            <4> QED BY <4>1, <4>2, <4>3
        <3>3. s[i].type # "[DONE]"
            <4>1. i <= end \/ i = end + 1
                BY <3>2
            <4>2. Mark("usage").type = "usage"
                BY DEF Mark, Event
            <4> QED BY <3>2, <4>1, <4>2
        <3>4. s[i].stop # NoStop => s[j].text = <<>>
            <4> SUFFICES ASSUME s[i].stop # NoStop PROVE s[j].text = <<>>
                OBVIOUS
            <4>1. i = end
                BY <3>2
            <4>2. j - off \notin 1..L
                BY <1>0, <3>1, <3>2, <4>1
            <4> QED BY <3>2, <4>2 DEF WordAt
        <3> QED BY <2>1, <3>2, <3>3, <3>4, Unequal DEF Follows
    <2> QED BY <1>0, <1>1, <2>2, <2>3 DEF Shape
<1>2. CASE f = "anthropic"
    <2>1. ChatEvent(s[i], a)
        BY <1>2, ChatOther
    <2>2. ChatEvent(s[j], b)
        BY <1>2, ChatOther
    <2>3. CASE Foreign(s)
        <3>1. s[i].type \in {"json", "vendor"}
            BY <2>3 DEF Foreign
        <3> QED BY <2>1, <3>1 DEF ChatEvent
    <2>4. CASE Spoken(s)
        <3>1. /\ Len(s) = L + 5 /\ s[2].type = "content_block_start"
              /\ (\A n \in 3..(L + 2) : s[n].type = "content_block_delta")
              /\ s[L + 3].type = "content_block_stop" /\ s[L + 4].type = "message_delta"
              /\ s[L + 5].type = "message_stop"
            BY <2>4 DEF Spoken
        <3>2. j \in 2..(L + 5) /\ i \in 1..(L + 4)
            BY <1>0, <3>1
        <3>3. s[j].type # "message_start"
            <4>1. j = 2 \/ j \in 3..(L + 2) \/ j = L + 3 \/ j = L + 4 \/ j = L + 5
                BY <1>0, <3>2
            <4> QED BY <3>1, <4>1
        <3>4. a # Done /\ ~b.role
            BY <2>1, <2>2, <3>3, Unequal DEF ChatEvent
        <3>5. CASE s[i].type = "message_delta"
            <4>1. i = L + 4
                <5>1. i = 1 \/ i = 2 \/ i \in 3..(L + 2) \/ i = L + 3 \/ i = L + 4
                    BY <1>0, <3>2
                <5> QED BY <2>4, <3>1, <3>5, <5>1 DEF Spoken
            <4>2. j = L + 5
                BY <1>0, <3>1, <4>1
            <4> QED BY <2>2, <3>1, <4>2 DEF ChatEvent
        <3>6. CASE s[i].type # "message_delta"
            <4>1. a.stop = NoStop
                BY <2>1, <3>6, Marks DEF ChatEvent, Chunk, Event
            <4> QED BY <3>4, <4>1 DEF Follows
        <3> QED BY <3>5, <3>6
    <2> QED BY <1>0, <1>2, <2>3, <2>4 DEF Shape
<1> QED BY <1>1, <1>2

(* Every event a chat client has got is one of the script's, as written.   *)
CopyInv ==
    conv.protocol = "chat" =>
        /\ Orderly(client.got)
        /\ pc = "stream" => \A i \in DOMAIN client.got :
              \E j \in 1..(pos - 1) : Written(script[j]) = <<client.got[i]>>

LEMMA CopyStep == CallInv /\ ScriptInv /\ CopyInv /\ [Next]_vars => CopyInv'
<1> SUFFICES ASSUME CallInv, ScriptInv, CopyInv, [Next]_vars, conv'.protocol = "chat"
             PROVE  /\ Orderly(client.got)'
                    /\ pc' = "stream" => \A i \in DOMAIN client'.got :
                          \E j \in 1..(pos' - 1) : Written(script[j])' = <<client'.got[i]>>
    BY DEF CopyInv
<1>0. CallInv' /\ ScriptInv'
    BY CallStep, ScriptStep
<1>1. CASE Before
    <2>1. client'.got = <<>> /\ pc' # "stream"
        BY <1>1 DEF Before, ScriptInv
    <2> QED BY <2>1 DEF Orderly
<1>2. ASSUME UNCHANGED <<conv, format, tried, script>>, NEW j
      PROVE  Written(script[j])' = Written(script[j])
    <2>1. sel' = sel
        BY <1>2 DEF sel
    <2> QED BY <1>2, <2>1 DEF Written
<1>3. CASE Still
    <2>1. /\ UNCHANGED <<conv, format, tried, script, pos>> /\ client'.got = client.got
          /\ (pc' = "stream" => pc = "stream")
        BY <1>3 DEF Still
    <2>2. \A j : Written(script[j])' = Written(script[j])
        BY <1>2, <2>1
    <2>3. Orderly(client.got)' = Orderly(client.got)
        BY <2>1 DEF Orderly
    <2> QED BY <2>1, <2>2, <2>3 DEF CopyInv
<1>4. CASE StreamBegins
    <2>1. client'.got = <<>>
        BY <1>0, <1>4, StreamBeginning DEF Beginning, ScriptInv
    <2> QED BY <2>1 DEF Orderly
<1>5. CASE RelayEvent \/ StreamOver
    <2>1. PICK more \in Seq(Events) :
              /\ UNCHANGED <<conv, format, tried, heard, script, reason>>
              /\ client'.got = client.got \o more /\ client'.here = client.here
              /\ ~client.here => more = <<>>
              /\ RelayEvent => pos \in 1..Len(script) /\ pos' = pos + 1
              /\ RelayEvent => script[pos] \in Events
              /\ RelayEvent /\ client.here => more = Written(script[pos])
              /\ StreamOver => pos' = pos /\ (more = <<>> \/ more = WrittenAtEnd(format[sel]))
        BY <1>5, Adds
    <2>2. /\ conv.protocol = "chat" /\ script # <<>> /\ pc = "stream" /\ script \in Seq(Events)
          /\ client.got \in Seq(Events) /\ pos \in 1..(Len(script) + 1)
        <3>1. script # <<>> /\ pc = "stream" /\ conv.protocol = "chat"
            BY <1>5, <2>1 DEF ScriptInv, RelayEvent, StreamOver
        <3> QED BY <3>1, ScriptKnown
    <2> DEFINE got == client.got
               W(j) == Written(script[j])
    <2>3. got \in Seq(Events) /\ Orderly(got) /\ client'.got = got \o more /\ Len(got) \in Nat
          /\ \A i \in DOMAIN got : \E j \in 1..(pos - 1) : W(j) = <<got[i]>>
        <3>1. Orderly(got) /\ \A i \in DOMAIN got : \E j \in 1..(pos - 1) : W(j) = <<got[i]>>
            BY <2>2 DEF CopyInv
        <3>2. got \in Seq(Events) /\ client'.got = got \o more
            BY <2>1, <2>2
        <3> HIDE DEF got, W
        <3> QED BY <3>1, <3>2
    <2>4. \A j : Written(script[j])' = W(j)
        BY <1>2, <2>1
    <2> HIDE DEF got, W
    <2>5. CASE more = <<>>
        <3>1. got \o <<>> = got
            BY <2>3
        <3>2. client'.got = got
            BY <2>3, <2>5, <3>1, Zenon
        <3>3. Orderly(client.got)'
            BY <2>3, <3>2 DEF Orderly
        <3>4. pos' = pos \/ pos' = pos + 1
            BY <1>5, <2>1
        <3>5. ASSUME NEW i \in DOMAIN client'.got
              PROVE  \E j \in 1..(pos' - 1) : Written(script[j])' = <<client'.got[i]>>
            <4>1. PICK j \in 1..(pos - 1) : W(j) = <<got[i]>>
                BY <2>3, <3>2, <3>5
            <4>2. j \in 1..(pos' - 1)
                BY <2>2, <3>4
            <4> QED BY <2>4, <3>2, <4>1, <4>2
        <3> QED BY <3>3, <3>5
    <2>6. ASSUME NEW b \in Events, more = <<b>>, \A i \in DOMAIN got : Follows(got[i], b)
          PROVE  /\ Orderly(client.got)'
                 /\ DOMAIN client'.got = 1..(Len(got) + 1)
                 /\ \A i \in DOMAIN got : client'.got[i] = got[i]
                 /\ client'.got[Len(got) + 1] = b
        <3> DEFINE all == got \o <<b>>
        <3>1. /\ DOMAIN all = 1..(Len(got) + 1) /\ DOMAIN got = 1..Len(got)
              /\ \A i \in DOMAIN got : all[i] = got[i]
              /\ all[Len(got) + 1] = b
            BY <2>3
        <3>2. client'.got = all
            BY <2>3, <2>6
        <3> HIDE DEF all
        <3>3. ASSUME NEW i \in DOMAIN all, NEW j \in DOMAIN all, i < j
              PROVE  Follows(all[i], all[j])
            <4>1. i \in DOMAIN got
                BY <2>3, <3>1, <3>3
            <4>2. CASE j \in DOMAIN got
                BY <2>3, <3>1, <3>3, <4>1, <4>2 DEF Orderly
            <4>3. CASE j \notin DOMAIN got
                <5>1. j = Len(got) + 1
                    BY <2>3, <3>1, <4>3
                <5> QED BY <2>6, <3>1, <4>1, <5>1
            <4> QED BY <4>2, <4>3
        <3>4. Orderly(all)
            BY <3>3 DEF Orderly
        <3>5. Orderly(client.got)'
            BY <3>2, <3>4 DEF Orderly
        <3> QED BY <3>1, <3>2, <3>5
    <2>7. CASE RelayEvent /\ more # <<>>
        <3>1. more = W(pos) /\ pos \in 1..Len(script) /\ pos' = pos + 1
            BY <2>1, <2>7 DEF W
        <3>2. PICK b : more = <<b>>
            BY <2>2, <2>7, <3>1, ChatOne DEF W
        <3>3. b \in Events
            <4>1. <<b>> \in Seq(Events) /\ <<b>>[1] = b /\ Len(<<b>>) = 1
                BY <2>1, <3>2
            <4> QED BY <4>1
        <3>4. ASSUME NEW i \in DOMAIN got PROVE Follows(got[i], b)
            <4>1. PICK j \in 1..(pos - 1) : W(j) = <<got[i]>>
                BY <2>3
            <4>2. j \in 1..Len(script) /\ j < pos
                BY <2>2, <3>1
            <4> DEFINE a == got[i]
            <4>3. Written(script[j]) = <<a>> /\ Written(script[pos]) = <<b>>
                BY <3>1, <3>2, <4>1 DEF W
            <4> HIDE DEF a
            <4>4. Follows(a, b)
                BY <2>2, <3>1, <4>2, <4>3, ChatPair
            <4> QED BY <4>4 DEF a
        <3>5. /\ Orderly(client.got)' /\ DOMAIN client'.got = 1..(Len(got) + 1)
              /\ \A i \in DOMAIN got : client'.got[i] = got[i]
              /\ client'.got[Len(got) + 1] = b
            BY <2>6, <3>2, <3>3, <3>4
        <3>6. ASSUME NEW i \in DOMAIN client'.got
              PROVE  \E j \in 1..(pos' - 1) : Written(script[j])' = <<client'.got[i]>>
            <4>1. CASE i \in DOMAIN got
                <5>1. PICK j \in 1..(pos - 1) : W(j) = <<got[i]>>
                    BY <2>3, <4>1
                <5>2. j \in 1..(pos' - 1)
                    BY <2>2, <3>1
                <5> QED BY <2>4, <3>5, <4>1, <5>1, <5>2
            <4>2. CASE i \notin DOMAIN got
                <5>1. i = Len(got) + 1 /\ pos \in 1..(pos' - 1)
                    BY <2>3, <3>1, <3>5, <4>2
                <5> QED BY <2>4, <3>1, <3>2, <3>5, <5>1
            <4> QED BY <4>1, <4>2
        <3> QED BY <3>5, <3>6
    <2>8. CASE StreamOver /\ more # <<>>
        <3>1. more = <<Done>> /\ format[sel] = "anthropic" /\ pc' = "done"
            BY <2>1, <2>8 DEF WrittenAtEnd, StreamOver
        <3>2. Done \in Events /\ NoRole(Done) /\ Done.text = <<>>
            BY Marks, Fields DEF Done, Is
        <3>3. ASSUME NEW i \in DOMAIN got PROVE Follows(got[i], Done)
            <4>1. PICK j \in 1..(pos - 1) : W(j) = <<got[i]>>
                BY <2>3
            <4>2. ChatEvent(script[j], got[i])
                BY <2>2, <3>1, <4>1, ChatOther DEF W
            <4> QED BY <3>2, <4>2, Unequal DEF ChatEvent, Follows
        <3> QED BY <2>6, <3>1, <3>2, <3>3
    <2> QED BY <1>5, <2>5, <2>7, <2>8
<1> QED BY <1>1, <1>3, <1>4, <1>5, Kinds

-----------------------------------------------------------------------------
(* The order of a stream: an Anthropic client *)

TypesOf(events) == [i \in DOMAIN events |-> events[i].type]

Starts == <<"message_start", "content_block_start">>
Blocks(n) == [i \in 1..n |-> "content_block_delta"]
Stops == <<"content_block_stop", "message_delta", "message_stop">>

(* Concatenation under a name of its own, kept folded in the proofs.        *)
Then(a, b) == a \o b

LEMMA Concats ==
    ASSUME NEW S, NEW x \in Seq(S), NEW y \in Seq(S), NEW z \in Seq(S)
    PROVE  /\ Then(x, y) \in Seq(S) /\ Then(x, <<>>) = x /\ Then(<<>>, x) = x
           /\ Then(Then(x, y), z) = Then(x, Then(y, z))
           /\ Len(Then(x, y)) = Len(x) + Len(y)
BY DEF Then

(* What is told once k events of a cut are written.                        *)
Part(off, end, k) ==
    IF k = 0 THEN <<>>
    ELSE IF k >= end THEN Then(Then(Starts, Blocks(Spoke(off, k))), Stops)
    ELSE Then(Starts, Blocks(Spoke(off, k)))

LEMMA PartsType ==
    /\ Starts \in Seq(EventTypes) /\ Stops \in Seq(EventTypes) /\ <<>> \in Seq(EventTypes)
    /\ \A n \in Nat : /\ Blocks(n) \in Seq(EventTypes) /\ Len(Blocks(n)) = n
                      /\ Blocks(n + 1) = Then(Blocks(n), Blocks(1))
    /\ Blocks(0) = <<>> /\ Blocks(1) = <<"content_block_delta">>
<1>1. /\ Starts \in Seq(EventTypes) /\ Stops \in Seq(EventTypes) /\ <<>> \in Seq(EventTypes)
    BY TypesKnown DEF Starts, Stops
<1>2. ASSUME NEW n \in Nat PROVE Blocks(n) \in Seq(EventTypes) /\ Len(Blocks(n)) = n
    BY TypesKnown DEF Blocks
<1>3. ASSUME NEW n \in Nat PROVE Blocks(n + 1) = Then(Blocks(n), Blocks(1))
    BY DEF Blocks, Then
<1>4. Blocks(0) = <<>> /\ Blocks(1) = <<"content_block_delta">>
    BY DEF Blocks
<1> QED BY <1>1, <1>2, <1>3, <1>4

(* What the next event of a cut adds: the start with its first event, a     *)
(* block with a word, the stop with its last.                              *)
LEMMA PartMore ==
    ASSUME NEW off \in 0..1, NEW end \in Nat, end >= off + L, NEW k \in Nat,
           NEW a, NEW b, NEW c,
           k = 0 => a = Starts, k # 0 => a = <<>>,
           k + 1 - off \in 1..L => b = Blocks(1), k + 1 - off \notin 1..L => b = <<>>,
           k + 1 = end => c = Stops, k + 1 # end => c = <<>>
    PROVE  /\ Part(off, end, k) \in Seq(EventTypes)
           /\ Part(off, end, k + 1) = Then(Part(off, end, k), Then(Then(a, b), c))
<1> DEFINE n == Spoke(off, k)
           m == Spoke(off, k + 1)
           x == Blocks(n)
           y == Blocks(m)
           p == Part(off, end, k)
           q == Part(off, end, k + 1)
<1>0. L \in Nat /\ L >= 1 /\ end >= 1
    BY WordsType
<1>1. n \in Nat /\ m \in Nat /\ m = IF k + 1 - off \in 1..L THEN n + 1 ELSE n
    BY <1>0 DEF Spoke
<1>2. x \in Seq(EventTypes) /\ y \in Seq(EventTypes) /\ Starts \in Seq(EventTypes)
      /\ Stops \in Seq(EventTypes) /\ <<>> \in Seq(EventTypes)
      /\ Blocks(1) \in Seq(EventTypes)
    BY <1>1, PartsType
<1>3. a \in Seq(EventTypes) /\ b \in Seq(EventTypes) /\ c \in Seq(EventTypes)
    <2>1. a = Starts \/ a = <<>>
        BY DEF Starts
    <2>2. b = Blocks(1) \/ b = <<>>
        OBVIOUS
    <2>3. c = Stops \/ c = <<>>
        OBVIOUS
    <2> QED BY <1>2, <2>1, <2>2, <2>3
<1>4. y = Then(x, b)
    <2> HIDE DEF n, m
    <2>1. CASE k + 1 - off \in 1..L
        BY <1>1, <2>1, PartsType
    <2>2. CASE k + 1 - off \notin 1..L
        BY <1>1, <1>2, <2>2, Concats
    <2> QED BY <2>1, <2>2
<1>5. /\ k = 0 => p = <<>>
      /\ k > 0 /\ k >= end => p = Then(Then(Starts, x), Stops)
      /\ k > 0 /\ k < end => p = Then(Starts, x)
      /\ k + 1 >= end => q = Then(Then(Starts, y), Stops)
      /\ k + 1 < end => q = Then(Starts, y)
    BY DEF Part
<1>6. k = 0 => x = <<>>
    <2> SUFFICES ASSUME k = 0 PROVE x = <<>>
        OBVIOUS
    <2>1. n = 0
        BY <1>0 DEF Spoke
    <2> HIDE DEF n
    <2> QED BY <2>1, PartsType
<1> HIDE DEF p, q, x, y
<1>7. /\ Then(Starts, x) \in Seq(EventTypes) /\ Then(a, b) \in Seq(EventTypes)
      /\ Then(Starts, y) \in Seq(EventTypes)
    BY <1>2, <1>3, Concats
<1>8. Then(Then(a, b), c) \in Seq(EventTypes) /\ Then(Then(Starts, x), Stops) \in Seq(EventTypes)
    BY <1>2, <1>3, <1>7, Concats
<1>9. p \in Seq(EventTypes)
    <2>1. CASE k = 0
        BY <1>2, <1>5, <2>1
    <2>2. CASE k > 0 /\ k < end
        BY <1>5, <1>7, <2>2
    <2>3. CASE k > 0 /\ k >= end
        BY <1>5, <1>8, <2>3
    <2>4. k = 0 \/ (k > 0 /\ k < end) \/ (k > 0 /\ k >= end)
        OBVIOUS
    <2> QED BY <2>1, <2>2, <2>3, <2>4
<1>10. CASE k < end
    <2>1. q = Then(Then(Starts, y), c)
        <3>1. CASE k + 1 = end
            BY <1>5, <3>1
        <3>2. CASE k + 1 < end
            <4>1. Then(Then(Starts, y), <<>>) = Then(Starts, y)
                BY <1>7, Concats
            <4> QED BY <1>5, <3>2, <4>1
        <3> QED BY <1>0, <1>10, <3>1, <3>2
    <2>2. Then(p, Then(Then(a, b), c)) = Then(Then(p, Then(a, b)), c)
        BY <1>3, <1>7, <1>9, Concats
    <2>3. Then(p, Then(a, b)) = Then(Starts, y)
        <3>1. CASE k = 0
            <4>1. p = <<>> /\ a = Starts /\ y = b
                BY <1>3, <1>4, <1>5, <1>6, <3>1, Concats
            <4> QED BY <1>7, <4>1, Concats
        <3>2. CASE k > 0
            <4>1. p = Then(Starts, x) /\ a = <<>>
                BY <1>5, <1>10, <3>2
            <4>2. Then(a, b) = b
                BY <1>3, <4>1, Concats
            <4>3. Then(Then(Starts, x), b) = Then(Starts, Then(x, b))
                BY <1>2, <1>3, Concats
            <4> QED BY <1>4, <4>1, <4>2, <4>3
        <3> QED BY <3>1, <3>2
    <2> QED BY <1>9, <2>1, <2>2, <2>3 DEF p, q
<1>11. CASE k >= end
    <2>1. k > 0 /\ k # 0 /\ k + 1 - off \notin 1..L /\ k + 1 # end
        BY <1>0, <1>11
    <2>2. a = <<>> /\ b = <<>> /\ c = <<>>
        BY <2>1
    <2>3. y = x
        BY <1>2, <1>4, <2>2, Concats
    <2>4. p = q
        BY <1>5, <1>11, <2>1, <2>3
    <2>5. Then(Then(a, b), c) = <<>> /\ Then(p, <<>>) = p
        BY <1>2, <1>9, <2>2, Concats
    <2> QED BY <1>9, <2>4, <2>5 DEF p, q
<1> QED BY <1>0, <1>10, <1>11

(* It is always the beginning of a message.                                *)
LEMMA Beginnings ==
    ASSUME NEW h \in Seq(EventTypes), NEW z \in Seq(EventTypes)
    PROVE  /\ IsPrefix(h, Then(h, z)) /\ IsPrefix(<<>>, h) /\ IsPrefix(h, h)
BY DEF IsPrefix, Then

LEMMA Lengths ==
    ASSUME NEW x \in Seq(EventTypes), NEW y \in Seq(EventTypes)
    PROVE  Then(x, y) \in Seq(EventTypes) /\ Len(Then(x, y)) = Len(x) + Len(y)
BY DEF Then

LEMMA PartIsBeginning ==
    ASSUME NEW off \in 0..1, NEW end \in Nat, NEW k \in Nat, end >= off + L
    PROVE  \E n \in 0..Len(Part(off, end, k)) : IsPrefix(Part(off, end, k), MessageOf(n))
<1> DEFINE n == Spoke(off, k)
           x == Blocks(n)
           p == Part(off, end, k)
           h == Then(Starts, x)
           w == Then(h, Stops)
<1>0. L \in Nat /\ L >= 1 /\ n \in Nat
    BY WordsType DEF Spoke
<1>1. /\ x \in Seq(EventTypes) /\ Len(x) = n /\ Starts \in Seq(EventTypes)
      /\ Stops \in Seq(EventTypes) /\ Len(Starts) = 2 /\ Len(Stops) = 3
    BY <1>0, PartsType DEF Starts, Stops
<1>2. MessageOf(n) = w
    BY DEF MessageOf, Starts, Stops, Blocks, Then
<1>3. p = <<>> \/ p = h \/ p = w
    BY DEF Part
<1> HIDE DEF n, x, p
<1>4. h \in Seq(EventTypes) /\ Len(h) = 2 + n
    BY <1>1, Lengths
<1> HIDE DEF h
<1>5. w \in Seq(EventTypes) /\ Len(w) = 5 + n
    <2>1. w \in Seq(EventTypes) /\ Len(w) = Len(h) + Len(Stops)
        BY <1>1, <1>4, Lengths
    <2> HIDE DEF w
    <2> QED BY <1>0, <1>1, <1>4, <2>1
<1> HIDE DEF w
<1>6. IsPrefix(h, w) /\ IsPrefix(w, w)
    BY <1>1, <1>4, <1>5, Beginnings DEF w
<1>7. CASE p = h
    BY <1>0, <1>2, <1>4, <1>6, <1>7 DEF p
<1>8. CASE p = w
    BY <1>0, <1>2, <1>5, <1>6, <1>8 DEF p
<1>9. CASE p = <<>>
    <2> DEFINE v == MessageOf(0)
    <2>1. v = Then(Then(Starts, Blocks(0)), Stops)
        BY DEF MessageOf, Starts, Stops, Blocks, Then
    <2>2. Then(Starts, Blocks(0)) \in Seq(EventTypes)
        BY PartsType, Concats
    <2>3. v \in Seq(EventTypes)
        BY <1>1, <2>1, <2>2, Concats
    <2> HIDE DEF v
    <2>4. IsPrefix(<<>>, v) /\ 0 \in 0..Len(<<>>)
        BY <2>3, Beginnings
    <2> QED BY <1>9, <2>4 DEF v, p
<1> QED BY <1>3, <1>7, <1>8, <1>9

LEMMA TypesConcat ==
    ASSUME NEW a \in Seq(Events), NEW b \in Seq(Events)
    PROVE  /\ TypesOf(a) \in Seq(EventTypes)
           /\ TypesOf(a \o b) = Then(TypesOf(a), TypesOf(b))
<1>1. ASSUME NEW s \in Seq(Events)
      PROVE  /\ TypesOf(s) \in Seq(EventTypes) /\ Len(TypesOf(s)) = Len(s)
             /\ \A i \in 1..Len(s) : TypesOf(s)[i] = s[i].type
    <2>1. DOMAIN s = 1..Len(s) /\ Len(s) \in Nat
        OBVIOUS
    <2>2. ASSUME NEW i \in 1..Len(s) PROVE s[i].type \in EventTypes
        <3>1. s[i] \in Events
            BY <2>2
        <3> QED BY <3>1, EventParts
    <2> QED BY <2>1, <2>2 DEF TypesOf
<1> DEFINE ab == a \o b
<1>2. Joined(ab, a, b)
    BY Two
<1>3. ab \in Seq(Events) /\ Len(a) \in Nat /\ Len(b) \in Nat
    OBVIOUS
<1> HIDE DEF ab
<1> DEFINE x == TypesOf(a)
           y == TypesOf(b)
           z == TypesOf(ab)
<1>4. /\ x \in Seq(EventTypes) /\ Len(x) = Len(a) /\ \A i \in 1..Len(a) : x[i] = a[i].type
      /\ y \in Seq(EventTypes) /\ Len(y) = Len(b) /\ \A i \in 1..Len(b) : y[i] = b[i].type
      /\ z \in Seq(EventTypes) /\ Len(z) = Len(ab) /\ \A i \in 1..Len(ab) : z[i] = ab[i].type
    BY <1>1, <1>3
<1> HIDE DEF x, y, z
<1>5. /\ Len(z) = Len(x) + Len(y)
      /\ \A i \in 1..Len(x) : z[i] = x[i]
      /\ \A i \in 1..Len(y) : z[Len(x) + i] = y[i]
    <2>1. /\ Len(ab) = Len(a) + Len(b)
          /\ \A i \in 1..Len(a) : ab[i] = a[i] /\ i \in 1..Len(ab)
          /\ \A i \in 1..Len(b) : ab[Len(a) + i] = b[i] /\ Len(a) + i \in 1..Len(ab)
        BY <1>2, <1>3 DEF Joined
    <2>2. ASSUME NEW i \in 1..Len(x) PROVE z[i] = x[i]
        BY <1>4, <2>1, <2>2
    <2>3. ASSUME NEW i \in 1..Len(y) PROVE z[Len(x) + i] = y[i]
        <3> DEFINE j == Len(x) + i
        <3>1. i \in 1..Len(b) /\ y[i] = b[i].type
            BY <1>4, <2>3
        <3>2. j = Len(a) + i
            BY <1>4
        <3> HIDE DEF j
        <3>3. ab[j] = b[i] /\ j \in 1..Len(z)
            BY <1>4, <2>1, <3>1, <3>2, Zenon
        <3>4. z[j] = ab[j].type
            BY <1>4, <3>3, Zenon
        <3> QED BY <3>1, <3>3, <3>4, Zenon DEF j
    <2> QED BY <1>4, <2>1, <2>2, <2>3
<1>6. z = Then(x, y)
    <2>1. x \in Seq(EventTypes) /\ y \in Seq(EventTypes) /\ z \in Seq(EventTypes)
        BY <1>4
    <2> QED BY <1>5, <2>1 DEF Then
<1> QED BY <1>4, <1>6 DEF x, y, z, ab

(* The types of what an Anthropic client gets for an event.                *)
LEMMA TypesWritten ==
    ASSUME conv.protocol = "anthropic", NEW e \in Events
    PROVE  /\ e.type # "chunk" => Written(e) = <<>>
           /\ e.type = "chunk" =>
                 TypesOf(Written(e)) = Then(Then(TypesOf(MessageStart(e)), TypesOf(BlockDelta(e))),
                                            TypesOf(MessageStop(e)))
           /\ HasRole(e) => TypesOf(MessageStart(e)) = Starts
           /\ NoRole(e) => TypesOf(MessageStart(e)) = <<>>
           /\ e.text # <<>> => TypesOf(BlockDelta(e)) = Blocks(1)
           /\ e.text = <<>> => TypesOf(BlockDelta(e)) = <<>>
           /\ e.stop # NoStop => TypesOf(MessageStop(e)) = Stops
           /\ e.stop = NoStop => TypesOf(MessageStop(e)) = <<>>
<1>0. TypesOf(<<>>) = <<>>
    BY DEF TypesOf
<1>1. e.type # "chunk" => Written(e) = <<>>
    BY DEF Written, OpenAIStreamChunkToAnthropicSSE
<1>2. ASSUME e.type = "chunk"
      PROVE  TypesOf(Written(e)) = Then(Then(TypesOf(MessageStart(e)), TypesOf(BlockDelta(e))),
                                        TypesOf(MessageStop(e)))
    <2>1. Written(e) = MessageStart(e) \o BlockDelta(e) \o MessageStop(e)
        BY <1>2 DEF Written, OpenAIStreamChunkToAnthropicSSE
    <2> DEFINE a == MessageStart(e)
               b == BlockDelta(e)
               c == MessageStop(e)
    <2>2. a \in Seq(Events) /\ b \in Seq(Events) /\ c \in Seq(Events) /\ a \o b \in Seq(Events)
        BY PiecesType
    <2> HIDE DEF a, b, c
    <2>3. TypesOf(a \o b) = Then(TypesOf(a), TypesOf(b))
        BY <2>2, TypesConcat
    <2> DEFINE ab == a \o b
    <2>4. ab \in Seq(Events)
        BY <2>2
    <2> HIDE DEF ab
    <2>5. TypesOf(ab \o c) = Then(TypesOf(ab), TypesOf(c))
        BY <2>2, <2>4, TypesConcat
    <2> QED BY <2>1, <2>3, <2>5, Zenon DEF ab, a, b, c
<1>3. HasRole(e) => TypesOf(MessageStart(e)) = Starts
    <2> SUFFICES ASSUME HasRole(e) PROVE TypesOf(MessageStart(e)) = Starts
        OBVIOUS
    <2> DEFINE m1 == Mark("message_start")
               m2 == Mark("content_block_start")
    <2>1. MessageStart(e) = <<m1, m2>>
        BY DEF MessageStart, HasRole
    <2>2. m1.type = "message_start" /\ m2.type = "content_block_start"
        BY Fields DEF Is
    <2> HIDE DEF m1, m2
    <2> QED BY <2>1, <2>2 DEF TypesOf, Starts
<1>4. NoRole(e) => TypesOf(MessageStart(e)) = <<>>
    <2> SUFFICES ASSUME NoRole(e) PROVE TypesOf(MessageStart(e)) = <<>>
        OBVIOUS
    <2>1. MessageStart(e) = <<>>
        BY DEF MessageStart, NoRole
    <2> QED BY <1>0, <2>1
<1>5. ASSUME e.text # <<>> PROVE TypesOf(BlockDelta(e)) = Blocks(1)
    <2> DEFINE m == Event("content_block_delta", e.text, NoStop)
    <2>1. BlockDelta(e) = <<m>>
        BY <1>5 DEF BlockDelta
    <2>2. m.type = "content_block_delta"
        BY Fields DEF Is
    <2> HIDE DEF m
    <2>3. TypesOf(<<m>>) = <<"content_block_delta">>
        BY <2>2 DEF TypesOf
    <2> QED BY <2>1, <2>3, PartsType, Zenon
<1>6. ASSUME e.text = <<>> PROVE TypesOf(BlockDelta(e)) = <<>>
    BY <1>0, <1>6 DEF BlockDelta
<1>7. ASSUME e.stop # NoStop PROVE TypesOf(MessageStop(e)) = Stops
    <2> DEFINE m1 == Mark("content_block_stop")
               m2 == Event("message_delta", <<>>, AnthropicStop(e.stop))
               m3 == Mark("message_stop")
    <2>1. MessageStop(e) = <<m1, m2, m3>>
        BY <1>7 DEF MessageStop
    <2>2. m1.type = "content_block_stop" /\ m2.type = "message_delta" /\ m3.type = "message_stop"
        BY Fields DEF Is
    <2> HIDE DEF m1, m2, m3
    <2> QED BY <2>1, <2>2 DEF TypesOf, Stops
<1>8. ASSUME e.stop = NoStop PROVE TypesOf(MessageStop(e)) = <<>>
    BY <1>0, <1>8 DEF MessageStop
<1> QED BY <1>1, <1>2, <1>3, <1>4, <1>5, <1>6, <1>7, <1>8

(* A cut event by event: the role with its first, a word with each of L,   *)
(* the reason with the last of its chunks.                                 *)
Whole(s, off, end) ==
    /\ end >= off + L
    /\ \A i \in 1..Len(s) : /\ i = 1 => HasRole(s[i])
                            /\ i # 1 => NoRole(s[i])
                            /\ s[i].text = WordAt(i - off)
                            /\ i = end => s[i].stop # NoStop
                            /\ i # end => s[i].stop = NoStop
                            /\ i <= end => s[i].type = "chunk"
                            /\ i > end => s[i].type # "chunk"

LEMMA CutIsWhole ==
    ASSUME NEW s, NEW off \in 0..1, NEW end \in Nat, NEW stop, stop # NoStop,
           Told(s, off, end, stop), Chunked(s, end)
    PROVE  Whole(s, off, end)
<1>1. Mark("usage").type # "chunk" /\ Done.type # "chunk"
    <2>1. Mark("usage").type = "usage" /\ Done.type = "[DONE]"
        BY Fields DEF Is, Done
    <2> QED BY <2>1
<1>2. Len(s) = end + 2 /\ end >= off + L
    BY DEF Told, Chunked
<1>3. ASSUME NEW i \in 1..Len(s)
      PROVE  /\ i = 1 => HasRole(s[i])
             /\ i # 1 => NoRole(s[i])
             /\ i <= end => s[i].type = "chunk"
             /\ i > end => s[i].type # "chunk"
    <2>1. i = 1 => HasRole(s[i])
        BY DEF Chunked
    <2>2. i # 1 => NoRole(s[i])
        BY DEF Chunked
    <2>3. i <= end => s[i].type = "chunk"
        BY DEF Chunked
    <2>4. ASSUME i > end PROVE s[i].type # "chunk"
        <3>1. i = end + 1 \/ i = end + 2
            BY <1>2, <2>4
        <3>2. s[end + 1] = Mark("usage") /\ s[end + 2] = Done
            BY DEF Chunked
        <3> QED BY <1>1, <3>1, <3>2
    <2> QED BY <2>1, <2>2, <2>3, <2>4
<1>4. ASSUME NEW i \in 1..Len(s)
      PROVE  /\ s[i].text = WordAt(i - off)
             /\ i = end => s[i].stop # NoStop
             /\ i # end => s[i].stop = NoStop
    BY DEF Told
<1> QED BY <1>2, <1>3, <1>4 DEF Whole

LEMMA PartWritten ==
    ASSUME conv.protocol = "anthropic", NEW s \in Seq(Events), NEW off \in 0..1, NEW end \in Nat,
           Whole(s, off, end), NEW k \in Nat, k < Len(s)
    PROVE  Part(off, end, k + 1) = Then(Part(off, end, k), TypesOf(Written(s[k + 1])))
<1> DEFINE e == s[k + 1]
           a == TypesOf(MessageStart(e))
           b == TypesOf(BlockDelta(e))
           c == TypesOf(MessageStop(e))
           p == Part(off, end, k)
<1>1. e \in Events /\ k + 1 \in 1..Len(s)
    OBVIOUS
<1>2. /\ k + 1 = 1 => HasRole(e)
      /\ k + 1 # 1 => NoRole(e)
      /\ e.text = WordAt(k + 1 - off)
      /\ k + 1 = end => e.stop # NoStop
      /\ k + 1 # end => e.stop = NoStop
      /\ k + 1 <= end => e.type = "chunk"
      /\ k + 1 > end => e.type # "chunk"
      /\ end >= off + L
    BY <1>1 DEF Whole
<1>3. /\ k + 1 - off \in 1..L => e.text # <<>>
      /\ k + 1 - off \notin 1..L => e.text = <<>>
    BY <1>2 DEF WordAt
<1> HIDE DEF e
<1>4. /\ k = 0 => a = Starts
      /\ k # 0 => a = <<>>
      /\ k + 1 - off \in 1..L => b = Blocks(1)
      /\ k + 1 - off \notin 1..L => b = <<>>
      /\ k + 1 = end => c = Stops
      /\ k + 1 # end => c = <<>>
      /\ e.type = "chunk" => TypesOf(Written(e)) = Then(Then(a, b), c)
      /\ e.type # "chunk" => Written(e) = <<>>
    BY <1>1, <1>2, <1>3, TypesWritten
<1> HIDE DEF a, b, c
<1>5. p \in Seq(EventTypes) /\ Part(off, end, k + 1) = Then(p, Then(Then(a, b), c))
    BY <1>2, <1>4, PartMore
<1>6. CASE e.type = "chunk"
    BY <1>4, <1>5, <1>6 DEF e
<1>7. CASE e.type # "chunk"
    <2>1. TypesOf(Written(e)) = <<>>
        BY <1>4, <1>7 DEF TypesOf
    <2>2. k + 1 > end /\ end >= 1 /\ k # 0 /\ k + 1 # end /\ k + 1 - off \notin 1..L
        BY <1>2, <1>7, WordsType
    <2>3. a = <<>> /\ b = <<>> /\ c = <<>>
        BY <1>4, <2>2
    <2>4. Then(Then(<<>>, <<>>), <<>>) = <<>>
        BY PartsType, Concats
    <2> QED BY <1>5, <2>1, <2>3, <2>4 DEF e
<1> QED BY <1>6, <1>7

(* What an Anthropic client has got of a cut is what is told once some of  *)
(* its events are written, the last read one if the client is still there. *)
AnthroInv ==
    script # <<>> /\ conv.protocol = "anthropic" =>
        \/ client.got = <<>> /\ \A j \in 1..Len(script) : script[j].type # "chunk"
        \/ \E off \in 0..1, end \in Nat, k \in Nat :
              /\ Whole(script, off, end) /\ TypesOf(client.got) = Part(off, end, k)
              /\ client.here => k = pos - 1

LEMMA AnthroBegins == CallInv /\ ScriptInv /\ Beginning => AnthroInv
<1> SUFFICES ASSUME CallInv, ScriptInv, Beginning, conv.protocol = "anthropic" PROVE AnthroInv
    BY DEF AnthroInv
<1>0. script # <<>> /\ pos = 1 /\ client.got = <<>>
    BY DEF Beginning
<1> DEFINE f == format[sel]
           w == StopWord(f, reason)
<1>1. f \in Formats /\ reason \in Whys /\ Shape(script, f, w) /\ script \in Seq(Events)
    BY <1>0, ScriptKnown
<1>2. w # NoStop
    BY <1>1, StopWordSaid
<1> HIDE DEF f, w
<1>3. CASE Foreign(script)
    <2>1. ASSUME NEW j \in 1..Len(script) PROVE script[j].type # "chunk"
        <3>1. script[j].type \in {"json", "vendor"}
            BY <1>3 DEF Foreign
        <3> QED BY <3>1
    <2> QED BY <1>0, <2>1 DEF AnthroInv
<1>4. CASE Cut(script, w)
    <2>1. PICK off \in 0..1, end \in Nat : Told(script, off, end, w) /\ Chunked(script, end)
        BY <1>4 DEF Cut
    <2>2. Whole(script, off, end)
        BY <1>2, <2>1, CutIsWhole
    <2>3. TypesOf(client.got) = Part(off, end, 0)
        BY <1>0 DEF TypesOf, Part
    <2>4. 0 \in Nat /\ 0 = pos - 1
        BY <1>0
    <2> QED BY <2>2, <2>3, <2>4, Zenon DEF AnthroInv
<1>5. CASE Spoken(script)
    <2>1. ASSUME NEW j \in 1..Len(script) PROVE script[j].type # "chunk"
        <3>0. L \in Nat /\ Len(script) = L + 5
            BY <1>5, WordsType DEF Spoken
        <3>1. j = 1 \/ j = 2 \/ j \in 3..(L + 2) \/ j = L + 3 \/ j = L + 4 \/ j = L + 5
            BY <3>0
        <3>2. script[j].type \in {"message_start", "content_block_start", "content_block_delta",
                                  "content_block_stop", "message_delta", "message_stop"}
            BY <1>5, <3>1 DEF Spoken
        <3> QED BY <3>2
    <2> QED BY <1>0, <2>1 DEF AnthroInv
<1> QED BY <1>1, <1>3, <1>4, <1>5 DEF Shape

LEMMA AnthroBeginsNext == (CallInv /\ ScriptInv /\ Beginning => AnthroInv)'
BY AnthroBegins, PTL

LEMMA AnthroStep == CallInv /\ ScriptInv /\ AnthroInv /\ [Next]_vars => AnthroInv'
<1> SUFFICES ASSUME CallInv, ScriptInv, AnthroInv, [Next]_vars,
                    script' # <<>>, conv'.protocol = "anthropic"
             PROVE  AnthroInv'
    BY DEF AnthroInv
<1>0. CallInv' /\ ScriptInv'
    BY CallStep, ScriptStep
<1>1. CASE Before
    BY <1>1 DEF Before, ScriptInv
<1>2. CASE Still
    <2>1. /\ UNCHANGED <<conv, script, pos>> /\ client'.got = client.got
          /\ (client'.here => client.here)
        BY <1>2 DEF Still
    <2>2. CASE client.got = <<>> /\ \A j \in 1..Len(script) : script[j].type # "chunk"
        BY <2>1, <2>2 DEF AnthroInv
    <2>3. CASE \E off \in 0..1, end \in Nat, k \in Nat :
                  /\ Whole(script, off, end) /\ TypesOf(client.got) = Part(off, end, k)
                  /\ client.here => k = pos - 1
        <3>1. PICK off \in 0..1, end \in Nat, k \in Nat :
                  /\ Whole(script, off, end) /\ TypesOf(client.got) = Part(off, end, k)
                  /\ client.here => k = pos - 1
            BY <2>3
        <3>2. Whole(script, off, end)' /\ TypesOf(client'.got) = Part(off, end, k)
              /\ (client'.here => k = pos' - 1)
            BY <2>1, <3>1 DEF Whole
        <3> QED BY <3>2 DEF AnthroInv
    <2> QED BY <2>1, <2>2, <2>3 DEF AnthroInv
<1>3. CASE StreamBegins
    BY <1>0, <1>3, StreamBeginning, AnthroBeginsNext
<1>4. CASE RelayEvent \/ StreamOver
    <2>1. PICK more \in Seq(Events) :
              /\ UNCHANGED <<conv, format, tried, heard, script, reason>>
              /\ client'.got = client.got \o more /\ client'.here = client.here
              /\ ~client.here => more = <<>>
              /\ RelayEvent => pos \in 1..Len(script) /\ pos' = pos + 1
              /\ RelayEvent => script[pos] \in Events
              /\ RelayEvent /\ client.here => more = Written(script[pos])
              /\ StreamOver => pos' = pos /\ (more = <<>> \/ more = WrittenAtEnd(format[sel]))
        BY <1>4, Adds
    <2>2. /\ conv.protocol = "anthropic" /\ script # <<>> /\ script \in Seq(Events)
          /\ client.got \in Seq(Events) /\ Streams
        <3>1. script # <<>> /\ conv.protocol = "anthropic"
            BY <2>1
        <3> QED BY <3>1, ScriptKnown
    <2> DEFINE got == client.got
    <2>3. got \in Seq(Events) /\ got \o <<>> = got
        BY <2>2
    <2> HIDE DEF got
    <2>4. CASE client'.got = client.got /\ (client.here => pos' = pos)
        <3>1. CASE client.got = <<>> /\ \A j \in 1..Len(script) : script[j].type # "chunk"
            BY <2>1, <2>4, <3>1 DEF AnthroInv
        <3>2. CASE \E off \in 0..1, end \in Nat, k \in Nat :
                      /\ Whole(script, off, end) /\ TypesOf(client.got) = Part(off, end, k)
                      /\ client.here => k = pos - 1
            <4>1. PICK off \in 0..1, end \in Nat, k \in Nat :
                      /\ Whole(script, off, end) /\ TypesOf(client.got) = Part(off, end, k)
                      /\ client.here => k = pos - 1
                BY <3>2
            <4>2. Whole(script, off, end)' /\ TypesOf(client'.got) = Part(off, end, k)
                  /\ (client'.here => k = pos' - 1)
                BY <2>1, <2>4, <4>1 DEF Whole
            <4> QED BY <4>2 DEF AnthroInv
        <3> QED BY <2>2, <3>1, <3>2 DEF AnthroInv
    <2>5. CASE ~client.here
        <3>1. client'.got = client.got
            BY <2>1, <2>3, <2>5 DEF got
        <3> QED BY <2>4, <2>5, <3>1
    <2>6. CASE StreamOver
        <3>1. client' = client
            BY <2>2, <2>6 DEF StreamOver, Direct
        <3> QED BY <2>1, <2>4, <2>6, <3>1
    <2>7. CASE RelayEvent /\ client.here
        <3>1. /\ pos \in 1..Len(script) /\ pos' = pos + 1 /\ script[pos] \in Events
              /\ more = Written(script[pos])
            BY <2>1, <2>7
        <3>2. CASE client.got = <<>> /\ \A j \in 1..Len(script) : script[j].type # "chunk"
            <4>1. more = <<>>
                BY <2>2, <3>1, <3>2, TypesWritten
            <4>2. client'.got = client.got
                BY <2>1, <2>3, <4>1 DEF got
            <4> QED BY <2>1, <3>2, <4>2 DEF AnthroInv
        <3>3. CASE \E off \in 0..1, end \in Nat, k \in Nat :
                      /\ Whole(script, off, end) /\ TypesOf(client.got) = Part(off, end, k)
                      /\ client.here => k = pos - 1
            <4>1. PICK off \in 0..1, end \in Nat, k \in Nat :
                      /\ Whole(script, off, end) /\ TypesOf(client.got) = Part(off, end, k)
                      /\ client.here => k = pos - 1
                BY <3>3
            <4>2. k = pos - 1 /\ k < Len(script) /\ k + 1 = pos /\ k + 1 = pos' - 1 /\ k + 1 \in Nat
                BY <2>2, <2>7, <3>1, <4>1
            <4>3. Part(off, end, k + 1) = Then(Part(off, end, k), TypesOf(Written(script[k + 1])))
                BY <2>2, <4>1, <4>2, PartWritten
            <4>4. TypesOf(got \o more) = Then(TypesOf(got), TypesOf(more))
                BY <2>1, <2>3, TypesConcat
            <4>5. TypesOf(client'.got) = Part(off, end, k + 1)
                BY <2>1, <3>1, <4>1, <4>2, <4>3, <4>4, Zenon DEF got
            <4>6. Whole(script, off, end)'
                BY <2>1, <4>1 DEF Whole
            <4> QED BY <4>2, <4>5, <4>6 DEF AnthroInv
        <3> QED BY <2>2, <3>2, <3>3 DEF AnthroInv
    <2> QED BY <1>4, <2>5, <2>6, <2>7
<1> QED BY <1>1, <1>2, <1>3, <1>4, Kinds

OrderInv == CallInv /\ ScriptInv /\ CopyInv /\ AnthroInv

LEMMA InOrder == OrderInv => StreamWellFormed
<1> SUFFICES ASSUME OrderInv PROVE StreamWellFormed
    OBVIOUS
<1>1. ASSUME conv.protocol = "anthropic" PROVE \E n \in 0..Len(Types) : IsPrefix(Types, MessageOf(n))
    <2>0. Types = TypesOf(client.got)
        BY DEF Types, TypesOf
    <2>1. PICK off \in 0..1, end \in Nat, k \in Nat :
             end >= off + L /\ Types = Part(off, end, k)
        <3>1. CASE client.got = <<>>
            <4>1. Types = Part(0, L, 0) /\ L \in Nat /\ L >= 0 + L
                BY <2>0, <3>1, WordsType DEF TypesOf, Part
            <4> QED BY <4>1
        <3>2. CASE client.got # <<>>
            <4>1. script # <<>>
                BY <3>2 DEF OrderInv, ScriptInv
            <4>2. PICK off \in 0..1, end \in Nat, k \in Nat :
                     Whole(script, off, end) /\ TypesOf(client.got) = Part(off, end, k)
                BY <1>1, <3>2, <4>1 DEF OrderInv, AnthroInv
            <4> QED BY <2>0, <4>2 DEF Whole
        <3> QED BY <3>1, <3>2
    <2>2. \E n \in 0..Len(Part(off, end, k)) : IsPrefix(Part(off, end, k), MessageOf(n))
        BY <2>1, PartIsBeginning
    <2> QED BY <2>1, <2>2
<1>2. ASSUME conv.protocol = "chat", NEW i \in DOMAIN client.got, NEW j \in DOMAIN client.got, i < j
      PROVE  /\ client.got[i] # Done
             /\ ~client.got[j].role
             /\ client.got[i].stop # NoStop => client.got[j].text = <<>>
    <2>1. Follows(client.got[i], client.got[j])
        BY <1>2 DEF OrderInv, CopyInv, Orderly
    <2> QED BY <2>1, Zenon DEF Follows
<1> QED BY <1>1, <1>2 DEF StreamWellFormed

(* At every moment an Anthropic client has got the beginning of a message, *)
(* and a chat client its events in their order: one role, first, no text   *)
(* after the reason, one end mark, last, however the vendor cuts its       *)
(* chunks (protocol/anthropic.go, provider/anthropic.go).                  *)
THEOREM StreamInOrder == Spec => []StreamWellFormed
<1>1. Init => OrderInv
    <2> SUFFICES ASSUME Init PROVE OrderInv
        OBVIOUS
    <2>1. script = <<>> /\ client.got = <<>>
        BY DEF Init
    <2>2. CopyInv /\ AnthroInv
        BY <2>1 DEF CopyInv, Orderly, AnthroInv
    <2> QED BY <2>2, CallInit, ScriptInit DEF OrderInv
<1>2. OrderInv /\ [Next]_vars => OrderInv'
    BY CallStep, ScriptStep, CopyStep, AnthroStep DEF OrderInv
<1> QED BY <1>1, <1>2, InOrder, PTL DEF Spec

-----------------------------------------------------------------------------
(* What the vendor hears: texts and messages *)

Spellings == STRING \cup {"pixels"}
Sayings == Seq(Spellings)
Parts == [type : {"text", "input_text", "image"}, text : Sayings]
Contents == Seq(Parts)
Turned == [role : {"user", "assistant", "model"}, content : Contents]

TextsIn(messages) ==
    FlattenSeq([i \in DOMAIN messages |->
                   IF IsSystem(messages[i]) THEN <<String(messages[i].content)>> ELSE <<>>])

LEMMA TextsAre == ASSUME NEW q PROVE SystemTexts(q) = TextsIn(q.messages)
BY DEF SystemTexts, TextsIn

LEMMA TextIsSaying == Text \subseteq Sayings
BY DEF Text, Sayings, Spellings

LEMMA PlainString ==
    ASSUME NEW t \in Sayings
    PROVE  StringContent(t) \in Contents /\ String(StringContent(t)) = t
<1> DEFINE b == Block("text", t)
<1>1. b.type = "text" /\ b.text = t /\ b = [type |-> "text", text |-> t]
    BY DEF Block
<1>2. StringContent(t) = <<b>>
    BY DEF StringContent
<1>3. b \in Parts
    BY <1>1 DEF Parts
<1> HIDE DEF b
<1>4. <<b>> \in Contents
    BY <1>3 DEF Contents
<1>5. String(<<b>>) = FlattenSeq(<<t>>)
    <2>1. [i \in DOMAIN <<b>> |-> IF IsText(<<b>>[i]) THEN <<b>>[i].text ELSE <<>>] = <<t>>
        BY <1>1 DEF IsText
    <2> QED BY <2>1 DEF String
<1>6. FlattenSeq(<<t>>) = t
    BY FlattenOne DEF Sayings
<1> QED BY <1>2, <1>4, <1>5, <1>6

LEMMA StringType ==
    ASSUME NEW content \in Contents
    PROVE  String(content) \in Sayings
<1> DEFINE parts == [i \in DOMAIN content |-> IF IsText(content[i]) THEN content[i].text ELSE <<>>]
<1>1. <<>> \in Sayings /\ \A i \in 1..Len(content) : content[i].text \in Sayings
    <2>1. ASSUME NEW i \in 1..Len(content)
          PROVE  content[i].text \in Sayings
        <3>1. content[i] \in Parts
            BY DEF Contents
        <3> QED BY <3>1 DEF Parts
    <2>2. <<>> \in Sayings
        BY DEF Sayings
    <2> QED BY <2>1, <2>2
<1>2. DOMAIN content = 1..Len(content) /\ Len(content) \in Nat
    BY DEF Contents
<1>3. parts \in Seq(Sayings)
    <2>1. \A i \in 1..Len(content) :
             (IF IsText(content[i]) THEN content[i].text ELSE <<>>) \in Sayings
        BY <1>1
    <2> QED BY <1>2, <2>1
<1>4. String(content) = FlattenSeq(parts)
    BY DEF String
<1> HIDE DEF parts
<1> QED BY <1>3, <1>4, FlattenType DEF Sayings

LEMMA Concatenation ==
    ASSUME NEW S, NEW a \in Seq(S), NEW b \in Seq(S)
    PROVE  /\ a \o b \in Seq(S) /\ Len(a \o b) = Len(a) + Len(b)
           /\ \A i \in 1..Len(a) : (a \o b)[i] = a[i]
           /\ \A i \in 1..Len(b) : (a \o b)[Len(a) + i] = b[i]
OBVIOUS

LEMMA IsConcatenation ==
    ASSUME NEW S, NEW a \in Seq(S), NEW b \in Seq(S), NEW c \in Seq(S), Len(c) = Len(a) + Len(b),
           \A i \in 1..Len(a) : c[i] = a[i],
           \A i \in 1..Len(b) : c[Len(a) + i] = b[i]
    PROVE  c = a \o b
OBVIOUS

(* A system message, a turn.                                               *)
LEMMA MessageFields ==
    ASSUME NEW role, NEW content
    PROVE  /\ Message(role, content) = [role |-> role, content |-> content]
           /\ Message(role, content).role = role /\ Message(role, content).content = content
BY DEF Message

LEMMA SystemAre ==
    ASSUME NEW x \in Seq(Sayings)
    PROVE  /\ DOMAIN SystemMessages(x) = 1..Len(x) /\ Len(SystemMessages(x)) = Len(x)
           /\ \A i \in 1..Len(x) : /\ SystemMessages(x)[i] = Message("system", StringContent(x[i]))
                                   /\ IsSystem(SystemMessages(x)[i])
                                   /\ String(SystemMessages(x)[i].content) = x[i]
<1>1. DOMAIN x = 1..Len(x) /\ Len(x) \in Nat
    OBVIOUS
<1>2. \A i \in 1..Len(x) : SystemMessages(x)[i] = Message("system", StringContent(x[i]))
    BY <1>1 DEF SystemMessages
<1>3. DOMAIN SystemMessages(x) = 1..Len(x) /\ Len(SystemMessages(x)) = Len(x)
    BY <1>1 DEF SystemMessages
<1>4. ASSUME NEW i \in 1..Len(x)
      PROVE  IsSystem(SystemMessages(x)[i]) /\ String(SystemMessages(x)[i].content) = x[i]
    <2>1. x[i] \in Sayings
        OBVIOUS
    <2>2. String(StringContent(x[i])) = x[i]
        BY <2>1, PlainString
    <2>3. SystemMessages(x)[i] = Message("system", StringContent(x[i]))
        BY <1>2
    <2> QED BY <2>2, <2>3, MessageFields DEF IsSystem
<1> QED BY <1>2, <1>3, <1>4

Messages == [role : {"system", "user", "assistant", "model"}, content : Contents]

LEMMA SpeechType ==
    ASSUME NEW x \in Seq(Sayings), NEW s \in Seq(Turned)
    PROVE  SystemMessages(x) \in Seq(Messages) /\ s \in Seq(Messages)
<1>1. ASSUME NEW i \in 1..Len(x) PROVE SystemMessages(x)[i] \in Messages
    <2>1. x[i] \in Sayings
        OBVIOUS
    <2>2. StringContent(x[i]) \in Contents
        BY <2>1, PlainString
    <2>3. SystemMessages(x)[i] = Message("system", StringContent(x[i]))
        BY SystemAre
    <2> QED BY <2>2, <2>3, MessageFields DEF Messages
<1>2. SystemMessages(x) \in Seq(Messages)
    <2>1. SystemMessages(x) = [i \in 1..Len(x) |-> SystemMessages(x)[i]] /\ Len(x) \in Nat
        BY DEF SystemMessages
    <2> QED BY <1>1, <2>1
<1>3. Turned \subseteq Messages
    BY DEF Turned, Messages
<1> QED BY <1>2, <1>3

(* Turns and system texts of system messages followed by turns.            *)
LEMMA SpeechSplits ==
    ASSUME NEW x \in Seq(Sayings), NEW s \in Seq(Turned)
    PROVE  /\ Turns(SystemMessages(x) \o s) = s
           /\ TextsIn(SystemMessages(x) \o s) = x
<1> DEFINE a == SystemMessages(x)
           ms == a \o s
           n == Len(x)
           l == Len(s)
           turnAt(i) == IF IsSystem(ms[i]) THEN <<>> ELSE <<ms[i]>>
           textAt(i) == IF IsSystem(ms[i]) THEN <<String(ms[i].content)>> ELSE <<>>
           none(k) == [i \in 1..k |-> <<>>]
           turns == [i \in DOMAIN s |-> <<s[i]>>]
           texts == [i \in DOMAIN x |-> <<x[i]>>]
           f == [i \in DOMAIN ms |-> turnAt(i)]
           g == [i \in DOMAIN ms |-> textAt(i)]
<1>0. n \in Nat /\ l \in Nat /\ DOMAIN x = 1..n /\ DOMAIN s = 1..l
    OBVIOUS
<1>1. /\ Len(a) = n /\ \A i \in 1..n : IsSystem(a[i]) /\ String(a[i].content) = x[i]
    BY SystemAre
<1>2. ASSUME NEW i \in 1..l PROVE ~IsSystem(s[i])
    <2>1. s[i] \in Turned
        OBVIOUS
    <2> QED BY <2>1 DEF Turned, IsSystem
<1>3. /\ DOMAIN ms = 1..(n + l) /\ Len(ms) = n + l
      /\ \A i \in 1..n : ms[i] = a[i]
      /\ \A i \in 1..l : ms[n + i] = s[i]
    <2>1. a \in Seq(Messages) /\ s \in Seq(Messages)
        BY SpeechType
    <2> HIDE DEF a
    <2>2. /\ ms \in Seq(Messages) /\ Len(ms) = Len(a) + Len(s)
          /\ \A i \in 1..Len(a) : ms[i] = a[i]
          /\ \A i \in 1..Len(s) : ms[Len(a) + i] = s[i]
        BY <2>1, Concatenation
    <2> HIDE DEF ms
    <2>3. Len(a) = n /\ Len(s) = l
        BY <1>1
    <2>4. DOMAIN ms = 1..Len(ms)
        BY <2>2
    <2> QED BY <2>2, <2>3, <2>4, Zenon
<1> HIDE DEF a, ms
<1>4. Turns(ms) = FlattenSeq(f) /\ TextsIn(ms) = FlattenSeq(g)
    BY DEF Turns, TextsIn
<1>5. ASSUME NEW i \in 1..n PROVE turnAt(i) = <<>> /\ textAt(i) = <<x[i]>>
    BY <1>1, <1>3, <1>5
<1>6. ASSUME NEW i \in 1..l PROVE turnAt(n + i) = <<s[i]>> /\ textAt(n + i) = <<>>
    BY <1>2, <1>3, <1>6
<1>7. /\ DOMAIN f = 1..(n + l) /\ \A i \in 1..(n + l) : f[i] = turnAt(i)
      /\ DOMAIN g = 1..(n + l) /\ \A i \in 1..(n + l) : g[i] = textAt(i)
    BY <1>3
<1> HIDE DEF turnAt, textAt, f, g
<1>8. /\ none(n) \in Seq(Seq(Turned)) /\ Len(none(n)) = n /\ \A i \in 1..n : none(n)[i] = <<>>
      /\ none(l) \in Seq(Seq(Sayings)) /\ Len(none(l)) = l /\ \A i \in 1..l : none(l)[i] = <<>>
      /\ turns \in Seq(Seq(Turned)) /\ Len(turns) = l /\ \A i \in 1..l : turns[i] = <<s[i]>>
      /\ texts \in Seq(Seq(Sayings)) /\ Len(texts) = n /\ \A i \in 1..n : texts[i] = <<x[i]>>
    <2>1. /\ none(n) \in Seq(Seq(Turned)) /\ Len(none(n)) = n /\ \A i \in 1..n : none(n)[i] = <<>>
        BY <1>0
    <2>2. /\ none(l) \in Seq(Seq(Sayings)) /\ Len(none(l)) = l /\ \A i \in 1..l : none(l)[i] = <<>>
        BY <1>0
    <2>3. /\ turns \in Seq(Seq(Turned)) /\ Len(turns) = l /\ \A i \in 1..l : turns[i] = <<s[i]>>
        BY <1>0
    <2>4. /\ texts \in Seq(Seq(Sayings)) /\ Len(texts) = n /\ \A i \in 1..n : texts[i] = <<x[i]>>
        BY <1>0
    <2> QED BY <2>1, <2>2, <2>3, <2>4
<1>9. FlattenSeq(turns) = s /\ FlattenSeq(texts) = x
    BY FlattenSingles
<1> DEFINE nn == none(n)
           nl == none(l)
<1>10. FlattenSeq(nn) = <<>> /\ FlattenSeq(nl) = <<>>
    <2> HIDE DEF none
    <2> QED BY <1>8, FlattenNothing
<1>11. /\ nn \in Seq(Seq(Turned)) /\ Len(nn) = n /\ \A i \in 1..n : nn[i] = <<>>
       /\ nl \in Seq(Seq(Sayings)) /\ Len(nl) = l /\ \A i \in 1..l : nl[i] = <<>>
    BY <1>8
<1> HIDE DEF none, turns, texts, nn, nl
<1>12. f = nn \o turns
    <2>1. ASSUME NEW i \in 1..(n + l) PROVE f[i] \in Seq(Turned)
        <3>1. CASE i \in 1..n
            <4>1. f[i] = <<>>
                BY <1>5, <1>7, <3>1
            <4> QED BY <4>1
        <3>2. CASE i \notin 1..n
            <4>1. i - n \in 1..l /\ n + (i - n) = i
                BY <1>0, <3>2
            <4>2. f[i] = <<s[i - n]>>
                BY <1>6, <1>7, <4>1
            <4> QED BY <4>1, <4>2
        <3> QED BY <3>1, <3>2
    <2>2. f \in Seq(Seq(Turned)) /\ Len(f) = n + l
        <3>1. f = [i \in 1..(n + l) |-> f[i]]
            BY <1>7 DEF f
        <3>2. n + l \in Nat
            BY <1>0
        <3> HIDE DEF f
        <3> QED BY <2>1, <3>1, <3>2
    <2>3. ASSUME NEW i \in 1..n PROVE f[i] = nn[i]
        <3>1. i \in 1..(n + l)
            BY <1>0
        <3> QED BY <1>5, <1>7, <1>8, <1>11, <3>1
    <2>4. ASSUME NEW i \in 1..l PROVE f[n + i] = turns[i]
        <3>1. n + i \in 1..(n + l)
            BY <1>0
        <3> QED BY <1>6, <1>7, <1>8, <1>11, <3>1
    <2>5. /\ nn \in Seq(Seq(Turned)) /\ turns \in Seq(Seq(Turned))
          /\ Len(nn) = n /\ Len(turns) = l
        BY <1>8, <1>11
    <2>6. /\ Len(f) = Len(nn) + Len(turns)
          /\ \A i \in 1..Len(nn) : f[i] = nn[i]
          /\ \A i \in 1..Len(turns) : f[Len(nn) + i] = turns[i]
        BY <2>2, <2>3, <2>4, <2>5
    <2> QED BY <2>2, <2>5, <2>6, IsConcatenation
<1>13. g = texts \o nl
    <2>1. ASSUME NEW i \in 1..(n + l) PROVE g[i] \in Seq(Sayings)
        <3>1. CASE i \in 1..n
            <4>1. g[i] = <<x[i]>>
                BY <1>0, <1>5, <1>7, <3>1
            <4> QED BY <3>1, <4>1
        <3>2. CASE i \notin 1..n
            <4>1. i - n \in 1..l /\ n + (i - n) = i
                BY <1>0, <3>2
            <4>2. g[i] = <<>>
                BY <1>6, <1>7, <4>1
            <4> QED BY <4>2
        <3> QED BY <3>1, <3>2
    <2>2. g \in Seq(Seq(Sayings)) /\ Len(g) = n + l
        <3>1. g = [i \in 1..(n + l) |-> g[i]]
            BY <1>7 DEF g
        <3>2. n + l \in Nat
            BY <1>0
        <3> HIDE DEF g
        <3> QED BY <2>1, <3>1, <3>2
    <2>3. ASSUME NEW i \in 1..n PROVE g[i] = texts[i]
        <3>1. i \in 1..(n + l)
            BY <1>0
        <3> QED BY <1>5, <1>7, <1>8, <1>11, <3>1
    <2>4. ASSUME NEW i \in 1..l PROVE g[n + i] = nl[i]
        <3>1. n + i \in 1..(n + l)
            BY <1>0
        <3> QED BY <1>6, <1>7, <1>8, <1>11, <3>1
    <2>5. /\ texts \in Seq(Seq(Sayings)) /\ nl \in Seq(Seq(Sayings))
          /\ Len(texts) = n /\ Len(nl) = l
        BY <1>8, <1>11
    <2>6. /\ Len(g) = Len(texts) + Len(nl)
          /\ \A i \in 1..Len(texts) : g[i] = texts[i]
          /\ \A i \in 1..Len(nl) : g[Len(texts) + i] = nl[i]
        BY <2>2, <2>3, <2>4, <2>5
    <2> QED BY <2>2, <2>5, <2>6, IsConcatenation
<1>14. /\ FlattenSeq(nn \o turns) = FlattenSeq(nn) \o FlattenSeq(turns)
       /\ FlattenSeq(texts \o nl) = FlattenSeq(texts) \o FlattenSeq(nl)
    BY <1>8, <1>11, FlattenConcat
<1>15. <<>> \o s = s /\ x \o <<>> = x
    OBVIOUS
<1> QED BY <1>4, <1>9, <1>10, <1>12, <1>13, <1>14, <1>15, Zenon DEF ms, a

(* Who says what, in any of the adapters' words for it.                    *)
SaidIn(m) ==
    [role |-> IF m.role = "model" THEN "assistant" ELSE m.role, text |-> String(m.content)]
Voices(s) == [i \in DOMAIN s |-> SaidIn(s[i])]

Plainly(s) == [i \in DOMAIN s |-> Plain(s[i])]
GeminiRole(m) == IF m.role = "assistant" THEN "model" ELSE m.role
AsGemini(s) == [i \in DOMAIN s |-> [Plain(s[i]) EXCEPT !.role = GeminiRole(s[i])]]

LEMMA PlainOne ==
    ASSUME NEW m \in Messages
    PROVE  /\ Plain(m) \in Messages /\ Plain(m).role = m.role
           /\ String(Plain(m).content) = String(m.content)
           /\ Plain(m) = [role |-> m.role, content |-> Plain(m).content]
           /\ Plain(m).content \in Contents
<1>1. m.content \in Contents /\ m.role \in {"system", "user", "assistant", "model"}
    BY DEF Messages
<1>2. String(m.content) \in Sayings
    BY <1>1, StringType
<1> DEFINE c == StringContent(String(m.content))
<1>3. c \in Contents /\ String(c) = String(m.content)
    BY <1>2, PlainString
<1>4. Plain(m) = Message(m.role, c)
    BY DEF Plain
<1> HIDE DEF c
<1>5. Plain(m) = [role |-> m.role, content |-> c] /\ Plain(m).role = m.role /\ Plain(m).content = c
    BY <1>4, MessageFields
<1> QED BY <1>1, <1>3, <1>5 DEF Messages

LEMMA PlainVoices ==
    ASSUME NEW s \in Seq(Turned)
    PROVE  Plainly(s) \in Seq(Turned) /\ Voices(Plainly(s)) = Voices(s)
<1>0. DOMAIN s = 1..Len(s) /\ Len(s) \in Nat
    OBVIOUS
<1>1. ASSUME NEW i \in 1..Len(s)
      PROVE  Plain(s[i]) \in Turned /\ SaidIn(Plain(s[i])) = SaidIn(s[i])
    <2> DEFINE m == s[i]
    <2>1. m \in Turned
        OBVIOUS
    <2>2. m \in Messages /\ m.role \in {"user", "assistant", "model"}
        BY <2>1 DEF Turned, Messages
    <2> HIDE DEF m
    <2>3. /\ Plain(m) = [role |-> m.role, content |-> Plain(m).content]
          /\ Plain(m).content \in Contents
          /\ Plain(m).role = m.role /\ String(Plain(m).content) = String(m.content)
        BY <2>2, PlainOne
    <2>4. Plain(m) \in Turned
        BY <2>2, <2>3 DEF Turned
    <2>5. SaidIn(Plain(m)) = SaidIn(m)
        BY <2>3 DEF SaidIn
    <2> QED BY <2>4, <2>5 DEF m
<1>2. /\ Plainly(s) \in Seq(Turned) /\ DOMAIN Plainly(s) = 1..Len(s)
      /\ \A i \in 1..Len(s) : Plainly(s)[i] = Plain(s[i])
    BY <1>0, <1>1 DEF Plainly
<1> QED BY <1>0, <1>1, <1>2 DEF Voices

LEMMA GeminiVoices ==
    ASSUME NEW s \in Seq(Turned)
    PROVE  AsGemini(s) \in Seq(Turned) /\ Voices(AsGemini(s)) = Voices(s)
<1> DEFINE G(m) == [Plain(m) EXCEPT !.role = GeminiRole(m)]
<1>0. DOMAIN s = 1..Len(s) /\ Len(s) \in Nat
    OBVIOUS
<1>1. ASSUME NEW i \in 1..Len(s)
      PROVE  G(s[i]) \in Turned /\ SaidIn(G(s[i])) = SaidIn(s[i])
    <2> DEFINE m == s[i]
               p == Plain(m)
               r == GeminiRole(m)
    <2>1. m \in Turned
        OBVIOUS
    <2>2. m \in Messages /\ m.role \in {"user", "assistant", "model"}
        BY <2>1 DEF Turned, Messages
    <2> HIDE DEF m
    <2>3. /\ p = [role |-> m.role, content |-> p.content]
          /\ p.content \in Contents /\ String(p.content) = String(m.content)
        BY <2>2, PlainOne
    <2>6. r \in {"user", "model"} /\ (r = "user" => m.role = "user")
          /\ (r = "model" => m.role \in {"assistant", "model"})
        BY <2>2 DEF GeminiRole
    <2> HIDE DEF p, r
    <2>7. [p EXCEPT !.role = r] = [role |-> r, content |-> p.content]
        BY <2>3
    <2> DEFINE q == [p EXCEPT !.role = r]
    <2>8. q \in Turned /\ q.role = r /\ q.content = p.content
        BY <2>3, <2>6, <2>7 DEF Turned
    <2> HIDE DEF q
    <2>5. SaidIn(q) = SaidIn(m)
        BY <2>2, <2>3, <2>6, <2>8 DEF SaidIn
    <2> QED BY <2>5, <2>8 DEF m, q, p, r
<1> HIDE DEF G
<1>2. /\ AsGemini(s) \in Seq(Turned) /\ DOMAIN AsGemini(s) = 1..Len(s)
      /\ \A i \in 1..Len(s) : AsGemini(s)[i] = G(s[i])
    <2>1. AsGemini(s) = [i \in 1..Len(s) |-> G(s[i])]
        BY <1>0 DEF AsGemini, G
    <2> QED BY <1>0, <1>1, <2>1
<1> QED BY <1>0, <1>1, <1>2 DEF Voices

LEMMA PlainSpeech ==
    ASSUME NEW x \in Seq(Sayings), NEW s \in Seq(Turned)
    PROVE  Plainly(SystemMessages(x) \o s) = SystemMessages(x) \o Plainly(s)
<1> DEFINE a == SystemMessages(x)
           b == Plainly(s)
           ms == a \o s
           c == Plainly(ms)
<1>0. Len(x) \in Nat /\ Len(s) \in Nat /\ DOMAIN s = 1..Len(s)
    OBVIOUS
<1>1. a \in Seq(Messages) /\ s \in Seq(Messages) /\ Len(a) = Len(x)
    BY SpeechType, SystemAre
<1>2. ASSUME NEW i \in 1..Len(x) PROVE Plain(a[i]) = a[i]
    <2> DEFINE y == StringContent(x[i])
    <2>1. a[i] = Message("system", y)
        BY SystemAre
    <2>2. x[i] \in Sayings
        OBVIOUS
    <2>3. String(y) = x[i]
        BY <2>2, PlainString
    <2> HIDE DEF a
    <2>4. a[i].role = "system" /\ a[i].content = y
        BY <2>1, MessageFields
    <2>5. Plain(a[i]) = Message("system", StringContent(String(y)))
        BY <2>4 DEF Plain
    <2> QED BY <2>1, <2>3, <2>5
<1> HIDE DEF a
<1>3. /\ ms \in Seq(Messages) /\ Len(ms) = Len(a) + Len(s)
      /\ \A i \in 1..Len(a) : ms[i] = a[i]
      /\ \A i \in 1..Len(s) : ms[Len(a) + i] = s[i]
    <2>1. a \in Seq(Messages) /\ s \in Seq(Messages)
        BY <1>1
    <2> QED BY <2>1, Concatenation
<1> HIDE DEF ms
<1>4. DOMAIN ms = 1..(Len(x) + Len(s))
    BY <1>1, <1>3
<1>5. /\ DOMAIN c = 1..(Len(x) + Len(s))
      /\ \A i \in 1..(Len(x) + Len(s)) : c[i] = Plain(ms[i])
    BY <1>4 DEF Plainly
<1>6. c \in Seq(Messages) /\ Len(c) = Len(x) + Len(s)
    <2>1. ASSUME NEW i \in 1..(Len(x) + Len(s)) PROVE Plain(ms[i]) \in Messages
        <3>1. ms[i] \in Messages
            BY <1>1, <1>3, <1>4
        <3> QED BY <3>1, PlainOne
    <2>2. c = [i \in 1..(Len(x) + Len(s)) |-> Plain(ms[i])] /\ Len(x) + Len(s) \in Nat
        BY <1>0, <1>4 DEF Plainly
    <2> HIDE DEF c
    <2> QED BY <2>1, <2>2
<1>7. b \in Seq(Messages) /\ Len(b) = Len(s) /\ \A i \in 1..Len(s) : b[i] = Plain(s[i])
    <2>1. ASSUME NEW i \in 1..Len(s) PROVE Plain(s[i]) \in Messages
        <3>1. s[i] \in Messages
            BY <1>1
        <3> QED BY <3>1, PlainOne
    <2>2. b = [i \in 1..Len(s) |-> Plain(s[i])]
        BY <1>0 DEF Plainly
    <2> HIDE DEF b
    <2> QED BY <1>0, <2>1, <2>2
<1> HIDE DEF b, c
<1>8. ASSUME NEW i \in 1..Len(a) PROVE c[i] = a[i]
    <2>1. i \in 1..(Len(x) + Len(s)) /\ i \in 1..Len(x)
        BY <1>0, <1>1
    <2> QED BY <1>2, <1>3, <1>5, <2>1
<1>9. ASSUME NEW i \in 1..Len(b) PROVE c[Len(a) + i] = b[i]
    <2>1. Len(a) + i \in 1..(Len(x) + Len(s)) /\ i \in 1..Len(s)
        BY <1>0, <1>1, <1>7
    <2> QED BY <1>3, <1>5, <1>7, <2>1
<1>10. Len(c) = Len(a) + Len(b)
    BY <1>1, <1>6, <1>7
<1> QED BY <1>1, <1>6, <1>7, <1>8, <1>9, <1>10, IsConcatenation DEF a, b, c, ms

(* One text at most.                                                       *)
Few(x) == x = <<>> \/ \E e \in Sayings : x = <<e>>

LEMMA JoinFew ==
    /\ Join(<<>>) = <<>> /\ NotEmpty(<<>>) = <<>> /\ LastOnly(<<>>) = <<>>
    /\ \A e \in Sayings : /\ Join(<<e>>) = e /\ LastOnly(<<e>>) = <<e>>
                          /\ NotEmpty(<<e>>) = IF e = <<>> THEN <<>> ELSE <<e>>
<1>1. Join(<<>>) = <<>> /\ NotEmpty(<<>>) = <<>> /\ LastOnly(<<>>) = <<>>
    <2>1. [i \in DOMAIN <<>> |-> IF <<>>[i] = <<>> THEN <<>> ELSE <<<<>>[i]>>] = <<>>
        OBVIOUS
    <2> QED BY <2>1, FlattenEmpty DEF Join, NotEmpty, LastOnly
<1>2. ASSUME NEW e \in Sayings
      PROVE  /\ Join(<<e>>) = e /\ LastOnly(<<e>>) = <<e>>
             /\ NotEmpty(<<e>>) = IF e = <<>> THEN <<>> ELSE <<e>>
    <2>1. Join(<<e>>) = e
        BY FlattenOne DEF Join, Sayings
    <2>2. LastOnly(<<e>>) = <<e>>
        BY DEF LastOnly, Last
    <2> DEFINE k == IF e = <<>> THEN <<>> ELSE <<e>>
    <2>3. k \in Seq(Sayings)
        OBVIOUS
    <2>4. NotEmpty(<<e>>) = FlattenSeq(<<k>>)
        <3>1. [i \in DOMAIN <<e>> |-> IF <<e>>[i] = <<>> THEN <<>> ELSE <<<<e>>[i]>>] = <<k>>
            OBVIOUS
        <3> QED BY <3>1 DEF NotEmpty
    <2> HIDE DEF k
    <2>5. FlattenSeq(<<k>>) = k
        BY <2>3, FlattenOne
    <2> QED BY <2>1, <2>2, <2>4, <2>5 DEF k
<1> QED BY <1>1, <1>2

LEMMA FewTexts ==
    ASSUME NEW x, Few(x)
    PROVE  /\ x \in Seq(Sayings) /\ NotEmpty(x) \in Seq(Sayings) /\ Few(NotEmpty(x))
           /\ Join(NotEmpty(x)) = Join(x) /\ LastOnly(x) = x
<1>1. CASE x = <<>>
    <2>1. <<>> \in Seq(Sayings)
        OBVIOUS
    <2> QED BY <1>1, <2>1, JoinFew DEF Few
<1>2. ASSUME NEW e \in Sayings, x = <<e>>
      PROVE  /\ x \in Seq(Sayings) /\ NotEmpty(x) \in Seq(Sayings) /\ Few(NotEmpty(x))
             /\ Join(NotEmpty(x)) = Join(x) /\ LastOnly(x) = x
    <2>1. x \in Seq(Sayings) /\ <<>> \in Seq(Sayings)
        BY <1>2
    <2>2. Join(x) = e /\ LastOnly(x) = x
        BY <1>2, JoinFew
    <2>3. CASE e = <<>>
        <3>1. NotEmpty(x) = <<>>
            BY <1>2, <2>3, JoinFew
        <3> QED BY <2>1, <2>2, <2>3, <3>1, JoinFew DEF Few
    <2>4. CASE e # <<>>
        <3>1. NotEmpty(x) = x
            BY <1>2, <2>4, JoinFew
        <3> QED BY <1>2, <2>1, <2>2, <3>1 DEF Few
    <2> QED BY <2>3, <2>4
<1> QED BY <1>1, <1>2 DEF Few

LEMMA LastIsFew ==
    ASSUME NEW x \in Seq(Sayings)
    PROVE  Few(LastOnly(x))
<1>1. CASE x = <<>>
    BY <1>1 DEF LastOnly, Few
<1>2. CASE x # <<>>
    <2>1. Last(x) \in Sayings
        BY <1>2 DEF Last
    <2> QED BY <1>2, <2>1 DEF LastOnly, Few
<1> QED BY <1>1, <1>2

LEMMA OneText ==
    ASSUME NEW s \in Seq(Text)
    PROVE  s \in Seq(Sayings) /\ Few(AtMostOne(s)) /\ Join(AtMostOne(s)) = Join(s)
<1>1. s \in Seq(Sayings)
    BY TextIsSaying
<1>2. CASE s = <<>>
    BY <1>1, <1>2 DEF AtMostOne, Few
<1>3. CASE s # <<>>
    <2>1. Join(s) \in Sayings
        BY <1>1, FlattenType DEF Join, Sayings
    <2>2. AtMostOne(s) = <<Join(s)>>
        BY <1>3 DEF AtMostOne
    <2> QED BY <1>1, <2>1, <2>2, JoinFew DEF Few
<1> QED BY <1>2, <1>3

-----------------------------------------------------------------------------
(* What the vendor hears: requests *)

Fill(model, system, messages, stream, max, temp, topP) ==
    [model |-> model, system |-> system, messages |-> messages, stream |-> stream,
     max |-> max, temp |-> temp, topP |-> topP]

Form(q) == q = Fill(q.model, q.system, q.messages, q.stream, q.max, q.temp, q.topP)

LEMMA Filled ==
    ASSUME NEW model, NEW system, NEW messages, NEW stream, NEW max, NEW temp, NEW topP
    PROVE  LET h == Fill(model, system, messages, stream, max, temp, topP)
           IN  /\ Form(h) /\ h.model = model /\ h.system = system /\ h.messages = messages
               /\ h.stream = stream /\ h.max = max /\ h.temp = temp /\ h.topP = topP
BY DEF Fill, Form

LEMMA NewModel ==
    ASSUME NEW q, Form(q), NEW model
    PROVE  [q EXCEPT !.model = model]
           = Fill(model, q.system, q.messages, q.stream, q.max, q.temp, q.topP)
<1> DEFINE a == q.model
           b == q.system
           c == q.messages
           d == q.stream
           e == q.max
           f == q.temp
           g == q.topP
<1>0. q = Fill(a, b, c, d, e, f, g)
    BY DEF Form
<1> HIDE DEF a, b, c, d, e, f, g
<1>1. [q EXCEPT !.model = model] = Fill(model, b, c, d, e, f, g)
    BY <1>0 DEF Fill
<1> QED BY <1>1 DEF a, b, c, d, e, f, g

LEMMA NewStream ==
    ASSUME NEW q, Form(q), NEW stream
    PROVE  [q EXCEPT !.stream = stream]
           = Fill(q.model, q.system, q.messages, stream, q.max, q.temp, q.topP)
<1> DEFINE a == q.model
           b == q.system
           c == q.messages
           d == q.stream
           e == q.max
           f == q.temp
           g == q.topP
<1>0. q = Fill(a, b, c, d, e, f, g)
    BY DEF Form
<1> HIDE DEF a, b, c, d, e, f, g
<1>1. [q EXCEPT !.stream = stream] = Fill(a, b, c, stream, e, f, g)
    BY <1>0 DEF Fill
<1> QED BY <1>1 DEF a, b, c, d, e, f, g

LEMMA NewMessagesMax ==
    ASSUME NEW q, Form(q), NEW messages, NEW max
    PROVE  [q EXCEPT !.messages = messages, !.max = max]
           = Fill(q.model, q.system, messages, q.stream, max, q.temp, q.topP)
<1> DEFINE a == q.model
           b == q.system
           c == q.messages
           d == q.stream
           e == q.max
           f == q.temp
           g == q.topP
<1>0. q = Fill(a, b, c, d, e, f, g)
    BY DEF Form
<1> HIDE DEF a, b, c, d, e, f, g
<1> DEFINE u1 == [q EXCEPT !.messages = messages]
           u2 == [u1 EXCEPT !.max = max]
<1>3. [q EXCEPT !.messages = messages, !.max = max] = u2
    OBVIOUS
<1>1. u1 = Fill(a, b, messages, d, e, f, g)
    BY <1>0 DEF Fill
<1> HIDE DEF u1
<1>2. u2 = Fill(a, b, messages, d, max, f, g)
    BY <1>1 DEF Fill
<1> HIDE DEF u2
<1> QED BY <1>2, <1>3 DEF u1, u2, a, b, c, d, e, f, g

LEMMA NewSystemMessages ==
    ASSUME NEW q, Form(q), NEW system, NEW messages
    PROVE  [q EXCEPT !.system = system, !.messages = messages]
           = Fill(q.model, system, messages, q.stream, q.max, q.temp, q.topP)
<1> DEFINE a == q.model
           b == q.system
           c == q.messages
           d == q.stream
           e == q.max
           f == q.temp
           g == q.topP
<1>0. q = Fill(a, b, c, d, e, f, g)
    BY DEF Form
<1> HIDE DEF a, b, c, d, e, f, g
<1> DEFINE u1 == [q EXCEPT !.system = system]
           u2 == [u1 EXCEPT !.messages = messages]
<1>3. [q EXCEPT !.system = system, !.messages = messages] = u2
    OBVIOUS
<1>1. u1 = Fill(a, system, c, d, e, f, g)
    BY <1>0 DEF Fill
<1> HIDE DEF u1
<1>2. u2 = Fill(a, system, messages, d, e, f, g)
    BY <1>1 DEF Fill
<1> HIDE DEF u2
<1> QED BY <1>2, <1>3 DEF u1, u2, a, b, c, d, e, f, g

LEMMA NewSystemMessagesStream ==
    ASSUME NEW q, Form(q), NEW system, NEW messages, NEW stream
    PROVE  [q EXCEPT !.system = system, !.messages = messages, !.stream = stream]
           = Fill(q.model, system, messages, stream, q.max, q.temp, q.topP)
<1> DEFINE a == q.model
           b == q.system
           c == q.messages
           d == q.stream
           e == q.max
           f == q.temp
           g == q.topP
<1>0. q = Fill(a, b, c, d, e, f, g)
    BY DEF Form
<1> HIDE DEF a, b, c, d, e, f, g
<1> DEFINE u1 == [q EXCEPT !.system = system]
           u2 == [u1 EXCEPT !.messages = messages]
           u3 == [u2 EXCEPT !.stream = stream]
<1>4. [q EXCEPT !.system = system, !.messages = messages, !.stream = stream] = u3
    OBVIOUS
<1>1. u1 = Fill(a, system, c, d, e, f, g)
    BY <1>0 DEF Fill
<1> HIDE DEF u1
<1>2. u2 = Fill(a, system, messages, d, e, f, g)
    BY <1>1 DEF Fill
<1> HIDE DEF u2
<1>3. u3 = Fill(a, system, messages, stream, e, f, g)
    BY <1>2 DEF Fill
<1> HIDE DEF u3
<1> QED BY <1>3, <1>4 DEF u1, u2, u3, a, b, c, d, e, f, g

(* System texts y beside the messages and z among them, then what s says.  *)
Hears(h, y, z, s) ==
    \E u \in Seq(Turned) :
        h.system = y /\ h.messages = SystemMessages(z) \o u /\ Voices(u) = Voices(s)

Settings(h, q) == h.temp = q.temp /\ h.topP = q.topP /\ h.max = q.max

LEMMA RenamedFields ==
    ASSUME NEW q, Form(q), NEW b
    PROVE  LET h == rewriteModel(q, b)
           IN  /\ Form(h) /\ h.model = b /\ h.system = q.system /\ h.messages = q.messages
               /\ h.temp = q.temp /\ h.topP = q.topP /\ h.max = q.max
<1> DEFINE h == rewriteModel(q, b)
<1>1. h = Fill(b, q.system, q.messages, q.stream, q.max, q.temp, q.topP)
    BY NewModel DEF rewriteModel
<1> HIDE DEF h
<1>2. /\ Form(h) /\ h.model = b /\ h.system = q.system /\ h.messages = q.messages
      /\ h.temp = q.temp /\ h.topP = q.topP /\ h.max = q.max
    BY <1>1, Filled
<1> QED BY <1>2 DEF h

LEMMA Renamed ==
    ASSUME NEW q, Form(q), NEW x, NEW s \in Seq(Turned),
           q.system = <<>>, q.messages = SystemMessages(x) \o s, NEW b
    PROVE  LET h == rewriteModel(q, b)
           IN  /\ Form(h) /\ h.model = b /\ h.system = <<>>
               /\ h.messages = SystemMessages(x) \o s
               /\ Hears(h, <<>>, x, s) /\ Settings(h, q)
<1> DEFINE h == rewriteModel(q, b)
<1>1. /\ Form(h) /\ h.model = b /\ h.system = q.system /\ h.messages = q.messages
      /\ h.temp = q.temp /\ h.topP = q.topP /\ h.max = q.max
    BY RenamedFields
<1> HIDE DEF h
<1> QED BY <1>1 DEF h, Hears, Settings

LEMMA ToAnthropic ==
    ASSUME NEW q, Form(q), NEW x \in Seq(Sayings), NEW s \in Seq(Turned),
           q.system = <<>>, q.messages = SystemMessages(x) \o s
    PROVE  LET h == openAIToAnthropicRequest(q)
           IN  /\ Hears(h, <<>>, x, s) /\ h.model = q.model
               /\ h.temp = q.temp /\ h.topP = q.topP
               /\ h.max = IF q.max > 0 THEN q.max ELSE DefaultMax
<1> DEFINE h == openAIToAnthropicRequest(q)
           ms == Plainly(q.messages)
           mx == IF q.max > 0 THEN q.max ELSE DefaultMax
<1>1. h = [q EXCEPT !.messages = ms, !.max = mx]
    BY DEF openAIToAnthropicRequest, Plainly
<1>2. ms = SystemMessages(x) \o Plainly(s)
    BY PlainSpeech
<1> HIDE DEF h, ms, mx
<1>3. h = Fill(q.model, q.system, ms, q.stream, mx, q.temp, q.topP)
    BY <1>1, NewMessagesMax
<1>4. /\ h.model = q.model /\ h.system = q.system /\ h.messages = ms /\ h.max = mx
      /\ h.temp = q.temp /\ h.topP = q.topP
    BY <1>3, Filled
<1>5. Hears(h, <<>>, x, s)
    <2>1. Plainly(s) \in Seq(Turned) /\ Voices(Plainly(s)) = Voices(s)
        BY PlainVoices
    <2> QED BY <1>2, <1>4, <2>1 DEF Hears
<1> QED BY <1>4, <1>5 DEF h, mx

LEMMA NoSystem ==
    ASSUME NEW u \in Seq(Turned)
    PROVE  SystemMessages(<<>>) \o u = u
<1>1. SystemMessages(<<>>) = <<>>
    BY DEF SystemMessages
<1>2. <<>> \o u = u
    OBVIOUS
<1> QED BY <1>1, <1>2, Zenon

LEMMA Split ==
    ASSUME NEW q, NEW x \in Seq(Sayings), NEW s \in Seq(Turned),
           q.messages = SystemMessages(x) \o s
    PROVE  Turns(q.messages) = s /\ SystemTexts(q) = x
BY SpeechSplits, TextsAre

Tell(q, y, ms, tp) == [q EXCEPT !.system = y, !.messages = ms, !.topP = tp]

LEMMA GeminiFields ==
    ASSUME NEW q, Form(q), NEW y, NEW ms, NEW tp
    PROVE  LET g == Tell(q, y, ms, tp)
           IN  /\ Form(g) /\ g.system = y /\ g.messages = ms /\ g.max = q.max
               /\ g.temp = q.temp /\ g.topP = tp
<1>1. [q EXCEPT !.system = y, !.messages = ms, !.topP = tp]
          = Fill(q.model, y, ms, q.stream, q.max, q.temp, tp)
    <2> DEFINE a == q.model
               b == q.system
               c == q.messages
               d == q.stream
               e == q.max
               f == q.temp
               g == q.topP
    <2>0. q = Fill(a, b, c, d, e, f, g)
        BY DEF Form
    <2> HIDE DEF a, b, c, d, e, f, g
    <2> DEFINE u1 == [q EXCEPT !.system = y]
               u2 == [u1 EXCEPT !.messages = ms]
               u3 == [u2 EXCEPT !.topP = tp]
    <2>4. [q EXCEPT !.system = y, !.messages = ms, !.topP = tp] = u3
        OBVIOUS
    <2>1. u1 = Fill(a, y, c, d, e, f, g)
        BY <2>0 DEF Fill
    <2> HIDE DEF u1
    <2>2. u2 = Fill(a, y, ms, d, e, f, g)
        BY <2>1 DEF Fill
    <2> HIDE DEF u2
    <2>3. u3 = Fill(a, y, ms, d, e, f, tp)
        BY <2>2 DEF Fill
    <2> HIDE DEF u3
    <2> QED BY <2>3, <2>4 DEF u1, u2, u3, a, b, c, d, e, f, g
<1> DEFINE h == Tell(q, y, ms, tp)
<1>2. h = Fill(q.model, y, ms, q.stream, q.max, q.temp, tp)
    BY <1>1 DEF Tell
<1> HIDE DEF h
<1>3. /\ Form(h) /\ h.system = y /\ h.messages = ms /\ h.max = q.max
      /\ h.temp = q.temp /\ h.topP = tp
    BY <1>2, Filled
<1> QED BY <1>3 DEF h

GeminiRequest(q, b, streaming) ==
    [rewriteModel(openAIToGeminiRequest(q), b) EXCEPT !.stream = streaming]

LEMMA ToGemini ==
    ASSUME NEW q, Form(q), NEW x \in Seq(Sayings), NEW s \in Seq(Turned),
           q.messages = SystemMessages(x) \o s, NEW b, NEW streaming,
           NEW tp, tp = (q.topP /\ q.temp)
    PROVE  LET h == GeminiRequest(q, b, streaming)
           IN  /\ Hears(h, LastOnly(x), <<>>, s) /\ h.model = b
               /\ h.temp = q.temp /\ h.topP = tp /\ h.max = q.max
<1> DEFINE g == openAIToGeminiRequest(q)
           k == rewriteModel(g, b)
           h == [k EXCEPT !.stream = streaming]
           ms == AsGemini(s)
           y == LastOnly(x)
<1>1. g = [q EXCEPT !.system = y, !.messages = ms, !.topP = tp]
    <2>1. Turns(q.messages) = s /\ SystemTexts(q) = x
        BY Split
    <2> QED BY <2>1, Zenon DEF openAIToGeminiRequest, AsGemini, GeminiRole
<1>2. ms \in Seq(Turned) /\ Voices(ms) = Voices(s)
    BY GeminiVoices
<1> HIDE DEF h, g, k, ms, y
<1>4. /\ Form(g) /\ g.system = y /\ g.messages = ms /\ g.max = q.max
      /\ g.temp = q.temp /\ g.topP = tp
    <2> DEFINE w == Tell(q, y, ms, tp)
    <2>1. /\ Form(w) /\ w.system = y /\ w.messages = ms /\ w.max = q.max
          /\ w.temp = q.temp /\ w.topP = tp
        BY GeminiFields
    <2>2. g = w
        BY <1>1 DEF Tell
    <2> HIDE DEF w
    <2> QED BY <2>1, <2>2
<1>5. k = Fill(b, g.system, g.messages, g.stream, g.max, g.temp, g.topP)
    BY <1>4, NewModel DEF k, rewriteModel
<1>6. /\ Form(k) /\ k.model = b /\ k.system = y /\ k.messages = ms /\ k.max = q.max
      /\ k.temp = q.temp /\ k.topP = tp
    BY <1>4, <1>5, Filled
<1>7. h = Fill(k.model, k.system, k.messages, streaming, k.max, k.temp, k.topP)
    BY <1>6, NewStream DEF h
<1>8. /\ h.model = b /\ h.system = y /\ h.messages = ms /\ h.max = q.max
      /\ h.temp = q.temp /\ h.topP = tp
    BY <1>6, <1>7, Filled
<1>9. Hears(h, y, <<>>, s)
    BY <1>2, <1>8, NoSystem DEF Hears
<1> QED BY <1>8, <1>9 DEF h, k, g, y, GeminiRequest

LEMMA ToBedrock ==
    ASSUME NEW q, Form(q), NEW x \in Seq(Sayings), NEW s \in Seq(Turned),
           q.messages = SystemMessages(x) \o s, NEW b
    PROVE  LET h == rewriteModel(openAIToBedrockRequest(q), b)
           IN  Hears(h, x, <<>>, s) /\ h.model = b /\ Settings(h, q)
<1> DEFINE g == openAIToBedrockRequest(q)
           h == rewriteModel(g, b)
           ms == Plainly(s)
<1>0. PICK off : off = FALSE
    OBVIOUS
<1>1. g = [q EXCEPT !.system = x, !.messages = ms, !.stream = off]
    <2>1. Turns(q.messages) = s /\ SystemTexts(q) = x
        BY Split
    <2> QED BY <1>0, <2>1, Zenon DEF openAIToBedrockRequest, Plainly
<1>2. ms \in Seq(Turned) /\ Voices(ms) = Voices(s)
    BY PlainVoices
<1> HIDE DEF h, g, ms
<1>3. g = Fill(q.model, x, ms, off, q.max, q.temp, q.topP)
    BY <1>1, NewSystemMessagesStream
<1>4. /\ Form(g) /\ g.system = x /\ g.messages = ms /\ g.max = q.max
      /\ g.temp = q.temp /\ g.topP = q.topP
    BY <1>3, Filled
<1>5. h = Fill(b, g.system, g.messages, g.stream, g.max, g.temp, g.topP)
    BY <1>4, NewModel DEF h, rewriteModel
<1>6. /\ h.model = b /\ h.system = x /\ h.messages = ms /\ h.max = q.max
      /\ h.temp = q.temp /\ h.topP = q.topP
    BY <1>4, <1>5, Filled
<1>7. Hears(h, x, <<>>, s)
    BY <1>2, <1>6, NoSystem DEF Hears
<1> QED BY <1>6, <1>7 DEF h, g, Settings

LEMMA ToResponses ==
    ASSUME NEW q, Form(q), NEW x \in Seq(Sayings), NEW s \in Seq(Turned),
           q.messages = SystemMessages(x) \o s
    PROVE  LET h == openAIToResponsesRequest(q)
           IN  Hears(h, NotEmpty(LastOnly(x)), <<>>, s) /\ h.model = q.model /\ Settings(h, q)
<1> DEFINE h == openAIToResponsesRequest(q)
           y == NotEmpty(LastOnly(x))
           ms == Plainly(s)
<1>1. h = [q EXCEPT !.system = y, !.messages = ms]
    <2>1. Turns(q.messages) = s /\ SystemTexts(q) = x
        BY Split
    <2> QED BY <2>1, Zenon DEF openAIToResponsesRequest, Plainly
<1>2. ms \in Seq(Turned) /\ Voices(ms) = Voices(s)
    BY PlainVoices
<1> HIDE DEF h, y, ms
<1>3. h = Fill(q.model, y, ms, q.stream, q.max, q.temp, q.topP)
    BY <1>1, NewSystemMessages
<1>4. /\ h.model = q.model /\ h.system = y /\ h.messages = ms /\ h.max = q.max
      /\ h.temp = q.temp /\ h.topP = q.topP
    BY <1>3, Filled
<1>5. Hears(h, y, <<>>, s)
    BY <1>2, <1>4, NoSystem DEF Hears
<1> QED BY <1>4, <1>5 DEF h, y, Settings

-----------------------------------------------------------------------------
(* What the vendor hears: the client's request *)

Blocky(c) == c.protocol = "responses" /\ c.form = "blocks"
TurnsOf(c) ==
    [i \in DOMAIN c.turns |-> Message(SaidBy(c, c.turns[i].role), SaidAs(c, c.turns[i].text))]

LEMMA BlocksSaid ==
    ASSUME NEW c, NEW text \in Text, c.form = "blocks"
    PROVE  /\ SaidAs(c, text) \in Contents
           /\ c.protocol # "responses" => String(SaidAs(c, text)) = text
<1> DEFINE kind == IF c.protocol = "responses" THEN "input_text" ELSE "text"
           a == [i \in DOMAIN text |-> Block(kind, <<text[i]>>)]
           z == Block("image", <<"pixels">>)
           all == a \o <<z>>
           n == Len(text)
           singles == [i \in DOMAIN text |-> <<text[i]>>]
<1>0. text \in Seq(STRING) /\ n \in Nat /\ DOMAIN text = 1..n /\ text \in Seq(Spellings)
    BY DEF Text, Spellings
<1>1. SaidAs(c, text) = all
    BY DEF SaidAs
<1>2. z \in Parts /\ z.type = "image"
    <2>1. <<"pixels">> \in Sayings
        BY DEF Sayings, Spellings
    <2> QED BY <2>1 DEF Block, Parts
<1>3. kind \in {"text", "input_text"} /\ (c.protocol # "responses" => kind = "text")
    OBVIOUS
<1> HIDE DEF kind
<1>4. ASSUME NEW i \in 1..n
      PROVE  /\ Block(kind, <<text[i]>>) \in Parts
             /\ Block(kind, <<text[i]>>).type = kind /\ Block(kind, <<text[i]>>).text = <<text[i]>>
    <2>1. text[i] \in Spellings
        BY <1>0
    <2>2. <<text[i]>> \in Sayings
        BY <2>1 DEF Sayings
    <2> QED BY <1>3, <2>2 DEF Block, Parts
<1>5. a \in Seq(Parts) /\ Len(a) = n /\ \A i \in 1..n : a[i] = Block(kind, <<text[i]>>)
    BY <1>0, <1>4
<1> HIDE DEF a, z
<1>6. all \in Seq(Parts) /\ Len(all) = n + 1 /\ (\A i \in 1..n : all[i] = a[i]) /\ all[n + 1] = z
    BY <1>0, <1>2, <1>5
<1> HIDE DEF all
<1>7. ASSUME c.protocol # "responses" PROVE String(all) = text
    <2> DEFINE f == [i \in DOMAIN all |-> IF IsText(all[i]) THEN all[i].text ELSE <<>>]
    <2>1. DOMAIN f = 1..(n + 1) /\ \A i \in 1..n : f[i] = <<text[i]>>
        <3>1. DOMAIN all = 1..(n + 1)
            BY <1>6
        <3>2. ASSUME NEW i \in 1..n PROVE IsText(all[i]) /\ all[i].text = <<text[i]>>
            <4>1. all[i] = Block(kind, <<text[i]>>)
                BY <1>5, <1>6
            <4>2. all[i].type = "text" /\ all[i].text = <<text[i]>>
                BY <1>3, <1>4, <1>7, <4>1
            <4> QED BY <4>2 DEF IsText
        <3>3. \A i \in 1..n : i \in 1..(n + 1)
            BY <1>0
        <3> QED BY <3>1, <3>2, <3>3
    <2>2. f[n + 1] = <<>>
        BY <1>0, <1>2, <1>6 DEF IsText
    <2>3. singles \in Seq(Seq(Spellings)) /\ Len(singles) = n
          /\ \A i \in 1..n : singles[i] = <<text[i]>>
        BY <1>0
    <2>4. String(all) = FlattenSeq(f) /\ FlattenSeq(singles) = text
        BY <1>0, FlattenSingles DEF String
    <2>5. f = [i \in 1..(n + 1) |-> f[i]]
        BY <2>1
    <2> HIDE DEF f, singles
    <2>6. f = Append(singles, <<>>)
        <3> DEFINE e == Append(singles, <<>>)
        <3>1. e = [i \in 1..(n + 1) |-> e[i]] /\ (\A i \in 1..n : e[i] = singles[i])
              /\ e[n + 1] = <<>>
            <4> DEFINE blank == <<>>
            <4>1. blank \in Seq(Spellings)
                OBVIOUS
            <4> HIDE DEF blank
            <4> DEFINE w == Append(singles, blank)
            <4>2. w \in Seq(Seq(Spellings)) /\ Len(w) = n + 1 /\ (\A i \in 1..n : w[i] = singles[i])
                  /\ w[n + 1] = blank
                BY <1>0, <2>3, <4>1
            <4> HIDE DEF w
            <4>3. w = [i \in 1..(n + 1) |-> w[i]]
                BY <4>2
            <4> QED BY <4>2, <4>3 DEF e, w, blank
        <3> HIDE DEF e
        <3>2. ASSUME NEW i \in 1..(n + 1) PROVE f[i] = e[i]
            <4>1. i \in 1..n \/ i = n + 1
                BY <1>0
            <4> QED BY <2>1, <2>2, <2>3, <3>1, <4>1
        <3>3. f = e
            BY <2>5, <3>1, <3>2
        <3> QED BY <3>3 DEF e
    <2>7. <<>> \in Seq(Spellings) /\ text \o <<>> = text
        BY <1>0
    <2>8. FlattenSeq(Append(singles, <<>>)) = FlattenSeq(singles) \o <<>>
        BY <2>3, <2>7, FlattenAppend
    <2> QED BY <2>4, <2>6, <2>7, <2>8, Zenon
<1> QED BY <1>1, <1>6, <1>7 DEF Contents

LEMMA Said ==
    ASSUME NEW c, NEW text \in Text
    PROVE  /\ SaidAs(c, text) \in Contents
           /\ ~Blocky(c) => String(SaidAs(c, text)) = text
<1>1. CASE c.form = "blocks"
    BY <1>1, BlocksSaid DEF Blocky
<1>2. CASE c.form # "blocks"
    <2>1. SaidAs(c, text) = StringContent(text)
        BY <1>2 DEF SaidAs
    <2>2. text \in Sayings
        BY TextIsSaying
    <2> QED BY <2>1, <2>2, PlainString
<1> QED BY <1>1, <1>2

LEMMA TurnsOfType ==
    ASSUME NEW c \in Conversation
    PROVE  /\ TurnsOf(c) \in Seq(Turned) /\ Len(TurnsOf(c)) = Len(c.turns)
           /\ DOMAIN TurnsOf(c) = 1..Len(c.turns)
           /\ \A i \in 1..Len(c.turns) :
                 /\ TurnsOf(c)[i] = Message(SaidBy(c, c.turns[i].role), SaidAs(c, c.turns[i].text))
                 /\ c.protocol = "gemini" => TurnsOf(c)[i].role \in {"user", "model"}
                 /\ c.protocol # "gemini" => TurnsOf(c)[i].role \in {"user", "assistant"}
           /\ ~Blocky(c) => Voices(TurnsOf(c)) = c.turns
<1> DEFINE n == Len(c.turns)
           at(i) == Message(SaidBy(c, c.turns[i].role), SaidAs(c, c.turns[i].text))
<1>0. c.turns \in Seq(Turn) /\ n \in Nat /\ DOMAIN c.turns = 1..n
    BY DEF Conversation
<1>1. ASSUME NEW i \in 1..n
      PROVE  /\ at(i) \in Turned
             /\ c.protocol = "gemini" => at(i).role \in {"user", "model"}
             /\ c.protocol # "gemini" => at(i).role \in {"user", "assistant"}
             /\ ~Blocky(c) => SaidIn(at(i)) = c.turns[i]
    <2> DEFINE tn == c.turns[i]
               role == SaidBy(c, tn.role)
               content == SaidAs(c, tn.text)
    <2>1. tn \in Turn
        BY <1>0
    <2>2. tn.role \in {"user", "assistant"} /\ tn.text \in Text
          /\ tn = [role |-> tn.role, text |-> tn.text]
        BY <2>1 DEF Turn
    <2>3. content \in Contents /\ (~Blocky(c) => String(content) = tn.text)
        BY <2>2, Said
    <2>4. /\ role \in {"user", "assistant", "model"}
          /\ c.protocol = "gemini" => role \in {"user", "model"}
          /\ c.protocol # "gemini" => role \in {"user", "assistant"}
          /\ (IF role = "model" THEN "assistant" ELSE role) = tn.role
        BY <2>2 DEF SaidBy
    <2> HIDE DEF role, content
    <2>5. at(i) = Message(role, content)
        BY DEF role, content
    <2> HIDE DEF tn, at
    <2>6. at(i).role = role /\ at(i).content = content /\ at(i) = [role |-> role, content |-> content]
        BY <2>5, MessageFields
    <2>7. at(i) \in Turned
        BY <2>3, <2>4, <2>6 DEF Turned
    <2>8. ~Blocky(c) => SaidIn(at(i)) = tn
        BY <2>2, <2>3, <2>4, <2>6 DEF SaidIn
    <2> QED BY <2>4, <2>6, <2>7, <2>8 DEF tn
<1>2. TurnsOf(c) = [i \in 1..n |-> at(i)]
    BY <1>0 DEF TurnsOf
<1>3. TurnsOf(c) \in Seq(Turned) /\ Len(TurnsOf(c)) = n /\ DOMAIN TurnsOf(c) = 1..n
      /\ \A i \in 1..n : TurnsOf(c)[i] = at(i)
    BY <1>0, <1>1, <1>2
<1>4. ASSUME ~Blocky(c) PROVE Voices(TurnsOf(c)) = c.turns
    BY <1>0, <1>1, <1>3, <1>4 DEF Voices
<1> QED BY <1>1, <1>3, <1>4

(* The turns of Gemini and Bedrock, in OpenAI's roles.                     *)
FromGemini(s) ==
    [i \in DOMAIN s |-> Message(IF s[i].role = "model" THEN "assistant" ELSE "user",
                                StringContent(String(s[i].content)))]
FromBedrock(s) ==
    [i \in DOMAIN s |-> Message(IF s[i].role = "assistant" THEN "assistant" ELSE "user",
                                StringContent(String(s[i].content)))]

LEMMA FromGeminiVoices ==
    ASSUME NEW s \in Seq(Turned), \A i \in 1..Len(s) : s[i].role \in {"user", "model"}
    PROVE  FromGemini(s) \in Seq(Turned) /\ Voices(FromGemini(s)) = Voices(s)
<1> DEFINE role(m) == IF m.role = "model" THEN "assistant" ELSE "user"
           at(m) == Message(role(m), StringContent(String(m.content)))
<1>0. DOMAIN s = 1..Len(s) /\ Len(s) \in Nat
    OBVIOUS
<1>1. ASSUME NEW i \in 1..Len(s)
      PROVE  at(s[i]) \in Turned /\ SaidIn(at(s[i])) = SaidIn(s[i])
    <2> DEFINE m == s[i]
               text == String(m.content)
               content == StringContent(text)
    <2>1. m \in Turned
        OBVIOUS
    <2>2. m.content \in Contents /\ m.role \in {"user", "model"}
        BY <2>1 DEF Turned
    <2>3. text \in Sayings
        BY <2>2, StringType
    <2>4. content \in Contents /\ String(content) = text
        BY <2>3, PlainString
    <2>5. /\ role(m) \in {"user", "assistant"}
          /\ (IF role(m) = "model" THEN "assistant" ELSE role(m))
             = (IF m.role = "model" THEN "assistant" ELSE m.role)
        BY <2>2
    <2> HIDE DEF m, role, content
    <2>6. at(m).role = role(m) /\ at(m).content = content
          /\ at(m) = [role |-> role(m), content |-> content]
        BY MessageFields DEF content
    <2> HIDE DEF at
    <2>7. at(m) \in Turned
        BY <2>4, <2>5, <2>6 DEF Turned
    <2>8. SaidIn(at(m)) = SaidIn(m)
        BY <2>4, <2>5, <2>6 DEF SaidIn
    <2> QED BY <2>7, <2>8 DEF m
<1>2. FromGemini(s) = [i \in 1..Len(s) |-> at(s[i])]
    BY <1>0 DEF FromGemini
<1> HIDE DEF at
<1>3. FromGemini(s) \in Seq(Turned) /\ DOMAIN FromGemini(s) = 1..Len(s)
      /\ \A i \in 1..Len(s) : FromGemini(s)[i] = at(s[i])
    BY <1>0, <1>1, <1>2
<1> QED BY <1>0, <1>1, <1>3 DEF Voices

LEMMA FromBedrockPlain ==
    ASSUME NEW s \in Seq(Turned), \A i \in 1..Len(s) : s[i].role \in {"user", "assistant"}
    PROVE  FromBedrock(s) = Plainly(s)
<1>0. DOMAIN s = 1..Len(s)
    OBVIOUS
<1>1. ASSUME NEW i \in 1..Len(s)
      PROVE  (IF s[i].role = "assistant" THEN "assistant" ELSE "user") = s[i].role
    <2>1. s[i].role \in {"user", "assistant"}
        OBVIOUS
    <2> QED BY <2>1
<1>2. \A i \in DOMAIN s :
         Message(IF s[i].role = "assistant" THEN "assistant" ELSE "user",
                 StringContent(String(s[i].content))) = Plain(s[i])
    BY <1>0, <1>1 DEF Plain
<1> QED BY <1>2, Zenon DEF FromBedrock, Plainly

(* The request, by protocol: system texts first, then the turns.           *)
Addressed(c, messages) ==
    \E x \in Seq(Sayings), s \in Seq(Turned) :
        /\ messages = SystemMessages(x) \o s
        /\ c.protocol \in {"chat", "bedrock"} => x = c.system
        /\ c.protocol \notin {"chat", "bedrock"} => Few(x)
        /\ Join(x) = Join(c.system)
        /\ ~Blocky(c) => Voices(s) = c.turns

LEMMA RequestFields ==
    ASSUME NEW c
    PROVE  LET r == Request(c)
           IN  /\ r.max = c.max /\ r.temp = c.temp /\ r.topP = c.topP /\ r.input = c.form
               /\ r.system = (IF c.protocol = "chat" THEN <<>>
                              ELSE IF c.protocol = "bedrock" THEN c.system
                              ELSE AtMostOne(c.system))
               /\ r.messages = (IF c.protocol = "chat" THEN SystemMessages(c.system) \o TurnsOf(c)
                                ELSE TurnsOf(c))
BY DEF Request, TurnsOf

LEMMA BodyFields ==
    ASSUME NEW r, NEW model, NEW messages, NEW stream
    PROVE  LET q == OpenAIBody(r, model, messages, stream)
           IN  /\ Form(q) /\ q.system = <<>> /\ q.messages = messages /\ Settings(q, r)
<1> DEFINE q == OpenAIBody(r, model, messages, stream)
           none == <<>>
<1>1. q = Fill(model, none, messages, stream, r.max, r.temp, r.topP)
    BY DEF OpenAIBody, Fill
<1> HIDE DEF q, none
<1>2. Form(q) /\ q.system = none /\ q.messages = messages /\ q.max = r.max /\ q.temp = r.temp
      /\ q.topP = r.topP
    BY <1>1, Filled
<1> QED BY <1>2 DEF q, none, Settings

LEMMA EntryBody ==
    ASSUME NEW c \in Conversation, c \in Conversations, NEW q,
           q = OpenAIRequest(c.protocol, Request(c))
    PROVE  Form(q) /\ q.system = <<>> /\ Settings(q, c) /\ Addressed(c, q.messages)
<1> DEFINE r == Request(c)
           s == TurnsOf(c)
           one == AtMostOne(c.system)
<1>1. /\ r.max = c.max /\ r.temp = c.temp /\ r.topP = c.topP /\ r.input = c.form
      /\ r.system = (IF c.protocol = "chat" THEN <<>>
                     ELSE IF c.protocol = "bedrock" THEN c.system ELSE one)
      /\ r.messages = (IF c.protocol = "chat" THEN SystemMessages(c.system) \o s ELSE s)
    BY RequestFields
<1>2. /\ s \in Seq(Turned) /\ Len(s) = Len(c.turns) /\ DOMAIN s = 1..Len(c.turns)
      /\ ~Blocky(c) => Voices(s) = c.turns
    BY TurnsOfType
<1>3. c.protocol \in Protocols /\ c.system \in Seq(Text)
    BY DEF Conversation
<1>4. c.system \in Seq(Sayings) /\ Few(one) /\ Join(one) = Join(c.system)
    BY <1>3, OneText
<1>5. /\ one \in Seq(Sayings) /\ NotEmpty(one) \in Seq(Sayings) /\ Few(NotEmpty(one))
      /\ Join(NotEmpty(one)) = Join(c.system)
    BY <1>4, FewTexts
<1> HIDE DEF r, s, one
<1>6. ASSUME NEW model, NEW messages, NEW stream, q = OpenAIBody(r, model, messages, stream)
      PROVE  Form(q) /\ q.system = <<>> /\ Settings(q, c) /\ q.messages = messages
    <2>1. Form(q) /\ q.system = <<>> /\ Settings(q, r) /\ q.messages = messages
        BY <1>6, BodyFields
    <2> QED BY <1>1, <2>1 DEF Settings
<1>7. CASE c.protocol = "chat"
    <2>1. q = OpenAIBody(r, r.model, r.messages, r.stream)
        BY <1>7 DEF OpenAIRequest, r
    <2>2. Form(q) /\ q.system = <<>> /\ Settings(q, c) /\ q.messages = r.messages
        BY <1>6, <2>1
    <2>3. Addressed(c, SystemMessages(c.system) \o s)
        BY <1>2, <1>4, <1>7 DEF Addressed
    <2> QED BY <1>1, <1>7, <2>2, <2>3
<1>8. CASE c.protocol = "anthropic"
    <2> DEFINE ms == anthropicMessagesToOpenAI(r)
    <2>1. q = OpenAIBody(r, DefaultModel(r.model), ms, r.stream)
        BY <1>8 DEF OpenAIRequest, AnthropicRequestToOpenAI, r
    <2>2. Form(q) /\ q.system = <<>> /\ Settings(q, c) /\ q.messages = ms
        BY <1>6, <2>1
    <2>3. r.system = one /\ r.messages = s
        BY <1>1, <1>8
    <2>4. ms = SystemMessages(NotEmpty(one)) \o Plainly(s)
        BY <2>3, Zenon DEF anthropicMessagesToOpenAI, Plainly, Plain
    <2>5. Plainly(s) \in Seq(Turned) /\ Voices(Plainly(s)) = Voices(s)
        BY <1>2, PlainVoices
    <2> DEFINE u == Plainly(s)
               x == NotEmpty(one)
    <2>6. Addressed(c, SystemMessages(x) \o u)
        <3>1. u \in Seq(Turned) /\ (~Blocky(c) => Voices(u) = c.turns)
            BY <1>2, <2>5
        <3>2. x \in Seq(Sayings) /\ Few(x) /\ Join(x) = Join(c.system)
            BY <1>5
        <3> HIDE DEF u, x
        <3> QED BY <1>8, <3>1, <3>2 DEF Addressed
    <2> HIDE DEF ms
    <2> QED BY <2>2, <2>4, <2>6
<1>9. CASE c.protocol = "gemini"
    <2> DEFINE ms == geminiMessagesToOpenAI(r)
    <2>1. q = OpenAIBody(r, "auto", ms, FALSE)
        BY <1>9 DEF OpenAIRequest, GeminiRequestToOpenAI, r
    <2>2. Form(q) /\ q.system = <<>> /\ Settings(q, c) /\ q.messages = ms
        BY <1>6, <2>1
    <2>3. r.system = one /\ r.messages = s
        BY <1>1, <1>9
    <2>4. ms = SystemMessages(one) \o FromGemini(s)
        BY <2>3, Zenon DEF geminiMessagesToOpenAI, FromGemini
    <2> DEFINE u == FromGemini(s)
    <2>5. u \in Seq(Turned) /\ Voices(u) = Voices(s)
        <3>1. \A i \in 1..Len(s) : s[i].role \in {"user", "model"}
            BY <1>2, <1>9, TurnsOfType DEF s
        <3> QED BY <1>2, <3>1, FromGeminiVoices
    <2> HIDE DEF u, ms
    <2>6. Addressed(c, SystemMessages(one) \o u)
        BY <1>2, <1>4, <1>5, <1>9, <2>5 DEF Addressed
    <2> QED BY <2>2, <2>4, <2>6 DEF u
<1>10. CASE c.protocol = "bedrock"
    <2> DEFINE ms == bedrockMessagesToOpenAI(r)
    <2>1. q = OpenAIBody(r, DefaultModel(r.model), ms, FALSE)
        BY <1>10 DEF OpenAIRequest, BedrockRequestToOpenAI, r
    <2>2. Form(q) /\ q.system = <<>> /\ Settings(q, c) /\ q.messages = ms
        BY <1>6, <2>1
    <2>3. r.system = c.system /\ r.messages = s
        BY <1>1, <1>10
    <2>4. ms = SystemMessages(c.system) \o FromBedrock(s)
        BY <2>3, Zenon DEF bedrockMessagesToOpenAI, FromBedrock
    <2> DEFINE u == FromBedrock(s)
    <2>5. u \in Seq(Turned) /\ Voices(u) = Voices(s)
        <3>1. \A i \in 1..Len(s) : s[i].role \in {"user", "assistant"}
            BY <1>2, <1>10, TurnsOfType DEF s
        <3>2. u = Plainly(s)
            BY <1>2, <3>1, FromBedrockPlain
        <3> QED BY <1>2, <3>2, PlainVoices
    <2> HIDE DEF u, ms
    <2>6. Addressed(c, SystemMessages(c.system) \o u)
        BY <1>2, <1>4, <1>10, <2>5 DEF Addressed
    <2> QED BY <2>2, <2>4, <2>6 DEF u
<1>11. CASE c.protocol = "responses"
    <2> DEFINE ms == SystemMessages(NotEmpty(r.system)) \o parseOAIRespInput(r)
    <2>1. q = OpenAIBody(r, DefaultModel(r.model), ms, r.stream)
        BY <1>11 DEF OpenAIRequest, OpenAIResponsesRequestToOpenAI, r
    <2>2. Form(q) /\ q.system = <<>> /\ Settings(q, c) /\ q.messages = ms
        BY <1>6, <2>1
    <2>3. r.system = one /\ r.messages = s
        BY <1>1, <1>11
    <2>4. parseOAIRespInput(r) = s
        <3>1. CASE c.form = "string"
            <4>1. Len(c.turns) = 1 /\ c.turns[1].role = "user"
                BY <1>11, <3>1, RelayAssumption
            <4>2. parseOAIRespInput(r) = <<Message("user", s[1].content)>>
                BY <1>1, <2>3, <3>1 DEF parseOAIRespInput
            <4>3. s[1] = Message(SaidBy(c, c.turns[1].role), SaidAs(c, c.turns[1].text))
                BY <4>1, TurnsOfType DEF s
            <4>4. SaidBy(c, c.turns[1].role) = "user"
                BY <1>11, <4>1 DEF SaidBy
            <4>5. s[1] = Message("user", s[1].content)
                BY <4>3, <4>4, MessageFields
            <4>6. Len(s) = 1 /\ s \in Seq(Turned)
                BY <1>2, <4>1
            <4> DEFINE m == s[1]
            <4>7. s = <<m>>
                BY <4>6
            <4> HIDE DEF m
            <4> QED BY <4>2, <4>5, <4>7 DEF m
        <3>2. CASE c.form # "string"
            BY <1>1, <2>3, <3>2 DEF parseOAIRespInput
        <3> QED BY <3>1, <3>2
    <2> DEFINE x == NotEmpty(one)
    <2>5. ms = SystemMessages(x) \o s
        BY <2>3, <2>4
    <2>6. Addressed(c, SystemMessages(x) \o s)
        <3>1. x \in Seq(Sayings) /\ Few(x) /\ Join(x) = Join(c.system)
            BY <1>5
        <3> HIDE DEF x
        <3> QED BY <1>2, <1>11, <3>1 DEF Addressed
    <2> HIDE DEF ms
    <2> QED BY <2>2, <2>5, <2>6
<1> QED BY <1>3, <1>7, <1>8, <1>9, <1>10, <1>11 DEF Protocols
-----------------------------------------------------------------------------
(* What the vendor hears: the request that is forwarded *)

(* The format the vendor is addressed in, and where its system texts go.   *)
Addressee == IF Direct THEN "openai-compatible" ELSE format[sel]

Beside(f, x) ==
    CASE f = "gemini" -> LastOnly(x)
      [] f = "bedrock" -> x
      [] f = "openai-responses" -> NotEmpty(LastOnly(x))
      [] OTHER -> <<>>
Among(f, x) == IF f \in {"openai-compatible", "anthropic"} THEN x ELSE <<>>

LEMMA Forwarded ==
    ASSUME CallInv, tried # <<>>, NEW x \in Seq(Sayings), NEW s \in Seq(Turned),
           body.messages = SystemMessages(x) \o s, Form(body), body.system = <<>>,
           Settings(body, conv)
    PROVE  /\ Hears(heard, Beside(Addressee, x), Among(Addressee, x), s)
           /\ heard.temp = conv.temp
           /\ heard.topP = (IF Addressee = "gemini" THEN conv.topP /\ conv.temp ELSE conv.topP)
           /\ heard.max = (IF Addressee = "anthropic" /\ ~(conv.max > 0) THEN DefaultMax
                           ELSE conv.max)
           /\ heard.model = sel \/ (Addressee = "openai-responses" /\ ~Streams)
<1> DEFINE f == format[sel]
           r == rewriteModel(body, sel)
<1>1. heard = AskedOf(sel) /\ f \in Formats
    BY Selected
<1>2. /\ Form(r) /\ r.model = sel /\ r.system = <<>> /\ r.messages = SystemMessages(x) \o s
      /\ Hears(r, <<>>, x, s) /\ Settings(r, body)
    <2>1. /\ Form(r) /\ r.model = sel /\ r.system = body.system /\ r.messages = body.messages
          /\ r.temp = body.temp /\ r.topP = body.topP /\ r.max = body.max
        BY RenamedFields
    <2> HIDE DEF r
    <2> QED BY <2>1 DEF Hears, Settings
<1>3. body.temp = conv.temp /\ body.topP = conv.topP /\ body.max = conv.max
      /\ r.temp = conv.temp /\ r.topP = conv.topP /\ r.max = conv.max
    BY <1>2 DEF Settings
<1> HIDE DEF r
<1>4. CASE Direct \/ f = "openai-compatible"
    <2>1. heard = r
        BY <1>1, <1>4 DEF AskedOf, ForwardRequest, r
    <2>2. Addressee = "openai-compatible"
        BY <1>4 DEF Addressee
    <2>3. Beside(Addressee, x) = <<>> /\ Among(Addressee, x) = x
        BY <2>2 DEF Beside, Among
    <2> QED BY <1>2, <1>3, <2>1, <2>2, <2>3
<1>5. CASE ~Direct /\ f = "anthropic"
    <2> DEFINE h == openAIToAnthropicRequest(r)
    <2>1. heard = h
        BY <1>1, <1>5 DEF AskedOf, ForwardRequest, r
    <2>2. Addressee = "anthropic"
        BY <1>5 DEF Addressee
    <2>3. Beside(Addressee, x) = <<>> /\ Among(Addressee, x) = x
        BY <2>2 DEF Beside, Among
    <2>4. /\ Hears(h, <<>>, x, s) /\ h.model = r.model /\ h.temp = r.temp /\ h.topP = r.topP
          /\ h.max = IF r.max > 0 THEN r.max ELSE DefaultMax
        BY <1>2, ToAnthropic
    <2> HIDE DEF h
    <2> QED BY <1>2, <1>3, <2>1, <2>2, <2>3, <2>4
<1>6. CASE ~Direct /\ f = "gemini"
    <2>0. PICK on : on = Streams
        OBVIOUS
    <2>9. PICK tp : tp = (body.topP /\ body.temp)
        OBVIOUS
    <2> DEFINE h == GeminiRequest(body, sel, on)
    <2>1. heard = h
        BY <1>1, <1>6, <2>0 DEF AskedOf, ForwardRequest, GeminiRequest
    <2>2. Addressee = "gemini"
        BY <1>6 DEF Addressee
    <2>3. Beside(Addressee, x) = LastOnly(x) /\ Among(Addressee, x) = <<>>
        BY <2>2 DEF Beside, Among
    <2>4. /\ Hears(h, LastOnly(x), <<>>, s) /\ h.model = sel
          /\ h.temp = body.temp /\ h.topP = tp /\ h.max = body.max
        BY <2>9, ToGemini
    <2> HIDE DEF h
    <2> QED BY <1>3, <2>1, <2>2, <2>3, <2>4, <2>9
<1>7. CASE ~Direct /\ f = "bedrock"
    <2> DEFINE h == rewriteModel(openAIToBedrockRequest(body), sel)
    <2>1. heard = h
        BY <1>1, <1>7 DEF AskedOf, ForwardRequest
    <2>2. Addressee = "bedrock"
        BY <1>7 DEF Addressee
    <2>3. Beside(Addressee, x) = x /\ Among(Addressee, x) = <<>>
        BY <2>2 DEF Beside, Among
    <2>4. Hears(h, x, <<>>, s) /\ h.model = sel /\ Settings(h, body)
        BY ToBedrock
    <2> HIDE DEF h
    <2> QED BY <1>3, <2>1, <2>2, <2>3, <2>4 DEF Settings
<1>8. CASE ~Direct /\ f = "openai-responses"
    <2> DEFINE q == IF Streams THEN r ELSE body
               h == openAIToResponsesRequest(q)
    <2>1. heard = h
        BY <1>1, <1>8 DEF AskedOf, ForwardRequest, r
    <2>2. Addressee = "openai-responses"
        BY <1>8 DEF Addressee
    <2>3. Beside(Addressee, x) = NotEmpty(LastOnly(x)) /\ Among(Addressee, x) = <<>>
        BY <2>2 DEF Beside, Among
    <2>4. Form(q) /\ q.messages = SystemMessages(x) \o s /\ (Streams => q.model = sel)
          /\ q.temp = conv.temp /\ q.topP = conv.topP /\ q.max = conv.max
        BY <1>2, <1>3
    <2> HIDE DEF q
    <2>5. Hears(h, NotEmpty(LastOnly(x)), <<>>, s) /\ h.model = q.model /\ Settings(h, q)
        BY <2>4, ToResponses
    <2> HIDE DEF h
    <2> QED BY <2>1, <2>2, <2>3, <2>4, <2>5 DEF Settings
<1> QED BY <1>1, <1>4, <1>5, <1>6, <1>7, <1>8 DEF Formats

(* Where the texts go, none is lost but those that the property names.     *)
LEMMA TextsTogether ==
    ASSUME NEW f \in Formats, NEW x \in Seq(Sayings)
    PROVE  /\ Among(f, x) \in Seq(Sayings)
           /\ Join(Beside(f, x) \o Among(f, x))
              = IF f \in {"gemini", "openai-responses"} THEN Join(LastOnly(x)) ELSE Join(x)
<1>1. x \in Seq(Sayings) /\ <<>> \in Seq(Sayings) /\ x \o <<>> = x /\ <<>> \o x = x
    OBVIOUS
<1>2. Few(LastOnly(x))
    BY LastIsFew
<1> DEFINE l == LastOnly(x)
           n == NotEmpty(LastOnly(x))
<1>3. l \in Seq(Sayings) /\ n \in Seq(Sayings) /\ Join(n) = Join(l)
    BY <1>2, FewTexts
<1> HIDE DEF l, n
<1>4. l \o <<>> = l /\ n \o <<>> = n
    BY <1>3
<1>5. CASE f \in {"openai-compatible", "anthropic"}
    <2>1. Beside(f, x) = <<>> /\ Among(f, x) = x
        BY <1>5 DEF Beside, Among
    <2>2. Join(Beside(f, x) \o Among(f, x)) = Join(x)
        BY <1>1, <2>1, Zenon
    <2> QED BY <1>5, <1>1, <2>1, <2>2
<1>6. CASE f = "gemini"
    <2>1. Beside(f, x) = l /\ Among(f, x) = <<>>
        BY <1>6 DEF Beside, Among, l
    <2>2. Join(Beside(f, x) \o Among(f, x)) = Join(l)
        BY <1>4, <2>1, Zenon
    <2> QED BY <1>6, <1>1, <2>1, <2>2 DEF l
<1>7. CASE f = "openai-responses"
    <2>1. Beside(f, x) = n /\ Among(f, x) = <<>>
        BY <1>7 DEF Beside, Among, n
    <2>2. Join(Beside(f, x) \o Among(f, x)) = Join(l)
        BY <1>3, <1>4, <2>1, Zenon
    <2> QED BY <1>7, <1>1, <2>1, <2>2 DEF l
<1>8. CASE f = "bedrock"
    <2>1. Beside(f, x) = x /\ Among(f, x) = <<>>
        BY <1>8 DEF Beside, Among
    <2>2. Join(Beside(f, x) \o Among(f, x)) = Join(x)
        BY <1>1, <2>1, Zenon
    <2> QED BY <1>8, <1>1, <2>1, <2>2
<1> QED BY <1>5, <1>6, <1>7, <1>8 DEF Formats

LEMMA Reached == CallInv => RequestReachesVendor
<1> SUFFICES ASSUME CallInv, heard # NoRequest PROVE RequestReachesVendor!2
    BY DEF RequestReachesVendor
<1> DEFINE f == format[sel]
<1>1. tried # <<>>
    BY DEF CallInv, Asked
<1>2. f \in Formats /\ Entered /\ conv \in Conversation /\ conv \in Conversations
    BY <1>1, Selected DEF CallInv, Formatted
<1>3. Form(body) /\ body.system = <<>> /\ Settings(body, conv) /\ Addressed(conv, body.messages)
    BY <1>2, EntryBody DEF Entered
<1>4. PICK x \in Seq(Sayings), s \in Seq(Turned) :
          /\ body.messages = SystemMessages(x) \o s
          /\ conv.protocol \in {"chat", "bedrock"} => x = conv.system
          /\ conv.protocol \notin {"chat", "bedrock"} => Few(x)
          /\ Join(x) = Join(conv.system)
          /\ ~Blocky(conv) => Voices(s) = conv.turns
    BY <1>3 DEF Addressed
<1> DEFINE a == Addressee
           y == Beside(a, x)
           z == Among(a, x)
<1>5. /\ Hears(heard, y, z, s)
      /\ heard.temp = conv.temp
      /\ heard.topP = (IF a = "gemini" THEN conv.topP /\ conv.temp ELSE conv.topP)
      /\ heard.max = (IF a = "anthropic" /\ ~(conv.max > 0) THEN DefaultMax ELSE conv.max)
      /\ heard.model = sel \/ (a = "openai-responses" /\ ~Streams)
    BY <1>1, <1>3, <1>4, Forwarded
<1>6. a \in Formats /\ (Direct => a = "openai-compatible") /\ (~Direct => a = f)
    BY <1>2 DEF Addressee, Formats
<1>7. z \in Seq(Sayings) /\ Join(y \o z) = IF a \in {"gemini", "openai-responses"}
                                          THEN Join(LastOnly(x)) ELSE Join(x)
    BY <1>6, TextsTogether
<1> HIDE DEF a, y, z
<1>8. PICK u \in Seq(Turned) :
          heard.system = y /\ heard.messages = SystemMessages(z) \o u /\ Voices(u) = Voices(s)
    BY <1>5 DEF Hears
<1>9. Turns(heard.messages) = u /\ SystemTexts(heard) = z
    BY <1>7, <1>8, Split
<1>10. Blocky(conv) \/ TurnsHeard = conv.turns
    <2>1. TurnsHeard = Voices(u)
        BY <1>9 DEF TurnsHeard, Voices, SaidIn
    <2> QED BY <1>4, <1>8, <2>1
<1>11. SystemHeard = IF KeepsLast(f) /\ conv.protocol \in {"chat", "bedrock"}
                     THEN Join(LastOnly(conv.system)) ELSE Join(conv.system)
    <2>1. SystemHeard = Join(y \o z)
        BY <1>8, <1>9, Zenon DEF SystemHeard
    <2>2. KeepsLast(f) <=> a \in {"gemini", "openai-responses"}
        BY <1>6 DEF KeepsLast
    <2>3. CASE conv.protocol \in {"chat", "bedrock"}
        BY <1>4, <1>7, <2>1, <2>2, <2>3
    <2>4. CASE conv.protocol \notin {"chat", "bedrock"}
        <3>1. LastOnly(x) = x
            BY <1>4, <2>4, FewTexts
        <3> QED BY <1>4, <1>7, <2>1, <2>4, <3>1
    <2> QED BY <2>3, <2>4
<1>12. heard.topP = (conv.topP /\ (f = "gemini" /\ ~Direct => conv.temp))
    <2>1. conv.topP \in BOOLEAN /\ conv.temp \in BOOLEAN
        BY <1>2 DEF Conversation
    <2>2. a = "gemini" <=> f = "gemini" /\ ~Direct
        BY <1>6
    <2> QED BY <1>5, <2>1, <2>2
<1>13. heard.max = IF conv.max = 0 /\ f = "anthropic" /\ ~Direct THEN DefaultMax ELSE conv.max
    <2>1. conv.max \in Nat
        BY <1>2 DEF Conversation
    <2>2. a = "anthropic" <=> f = "anthropic" /\ ~Direct
        BY <1>6
    <2> QED BY <1>5, <2>1, <2>2
<1>14. heard.model = sel \/ (f = "openai-responses" /\ ~Streams)
    BY <1>5, <1>6
<1> QED BY <1>5, <1>10, <1>11, <1>12, <1>13, <1>14 DEF Blocky

(* A vendor hears what the client has said, whatever the client's protocol *)
(* and the vendor's format: every turn in order, the system texts, the     *)
(* settings and its own model's name, but for what                         *)
(* RequestReachesVendor names (gemini.go:168-186, openai_responses.go:36,  *)
(* 151, openairesponses.go:47).                                            *)
THEOREM RequestHeard == Spec => []RequestReachesVendor
<1>1. Init => CallInv
    BY CallInit
<1>2. CallInv /\ [Next]_vars => CallInv'
    BY CallStep
<1>3. CallInv => RequestReachesVendor
    BY Reached
<1> QED BY <1>1, <1>2, <1>3, PTL DEF Spec
-----------------------------------------------------------------------------
(* The contract of a fallback *)

(* What the client has been told at each point of the request.             *)
StatusTold ==
    /\ pc \in {"accept", "choose", "call"} => client.status = "none"
    /\ pc \in {"stream", "panicked"} => client.status = "ok"

ContractStep == [Contract!Next]_(Contract!vars)

LEMMA StatusInit == Init => StatusTold
BY DEF Init, StatusTold

LEMMA StatusStep == CallInv /\ StatusTold /\ [Next]_vars => StatusTold'
<1> SUFFICES ASSUME CallInv, StatusTold, [Next]_vars PROVE StatusTold'
    OBVIOUS
<1>0. Client
    BY DEF CallInv
<1>1. CASE \/ Accept \/ GiveUp \/ Failed \/ Cancelled \/ Answered \/ AnsweredInDetail
           \/ AnsweredUnreadably
    BY <1>0, <1>1 DEF Accept, GiveUp, Failed, Cancelled, Answered, AnsweredInDetail,
       AnsweredUnreadably, Fail, Finish, StatusTold, Client
<1>2. CASE StreamBegins \/ RelayEvent \/ StreamOver
    BY <1>0, <1>2 DEF StreamBegins, RelayEvent, StreamOver, Receives, StatusTold, Client
<1>3. CASE LineTooLong \/ WriteFails \/ ClientLeaves \/ (\E b \in Backends : Choose(b))
    BY <1>0, <1>3 DEF LineTooLong, WriteFails, ClientLeaves, Choose, StatusTold, Client
<1>4. CASE UNCHANGED vars
    BY <1>4 DEF vars, StatusTold
<1> QED BY <1>1, <1>2, <1>3, <1>4 DEF Next

(* A step that makes no call is a step of the contract's stages.           *)
LEMMA StageStep ==
    ASSUME tried' = tried,
           \/ StageSeen' = StageSeen
           \/ StageSeen = "closed" /\ StageSeen' = "deciding"
           \/ StageSeen = "calling" /\ StageSeen' \in {"served", "failed"}
    PROVE  ContractStep
<1> HIDE DEF StageSeen
<1>1. CASE StageSeen' = StageSeen
    BY <1>1 DEF ContractStep, Contract!vars
<1>2. CASE StageSeen = "closed" /\ StageSeen' = "deciding"
    <2>1. Contract!Open("request")
        BY <1>2 DEF Contract!Open, Contract!To
    <2> QED BY <2>1 DEF ContractStep, Contract!Next
<1>3. CASE StageSeen = "calling" /\ StageSeen' \in {"served", "failed"}
    <2>1. Contract!Answer("request")
        BY <1>3 DEF Contract!Answer, Contract!To
    <2> QED BY <2>1 DEF ContractStep, Contract!Next
<1> QED BY <1>1, <1>2, <1>3

(* What each action of the relay is to the contract: only choosing a       *)
(* backend calls one, and it is chosen after nothing or after a failure.   *)
LEMMA StepKeepsContract == ASSUME CallInv, StatusTold, [Next]_vars PROVE ContractStep
<1>0. Client /\ TriedOnce
    BY DEF CallInv
<1>1. CASE Accept
    <2>1. tried = <<>> /\ tried' = tried /\ StageSeen = "closed"
        BY <1>0, <1>1 DEF Accept, TriedOnce, StageSeen
    <2>2. StageSeen' \in {"closed", "deciding"}
        BY <1>0, <1>1, <2>1 DEF Accept, Finish, StatusTold, Client, StageSeen
    <2> QED BY <2>1, <2>2, StageStep
<1>2. ASSUME NEW b \in Backends, Choose(b) PROVE ContractStep
    <2>1. StageSeen \in {"deciding", "failed"} /\ StageSeen' = "calling"
        BY <1>2 DEF Choose, StatusTold, StageSeen
    <2>2. b \notin {tried[i] : i \in DOMAIN tried}
        BY <1>2 DEF Choose, Contains
    <2>3. tried' = Append(tried, b) /\ Len(tried) <= MaxRetries
        BY <1>2 DEF Choose
    <2> HIDE DEF StageSeen
    <2>4. Contract!Call("request", b)
        BY <2>1, <2>2, <2>3 DEF Contract!Call, Contract!Called, Contract!To
    <2> QED BY <2>4 DEF ContractStep, Contract!Next
<1>3. CASE GiveUp
    <2>1. tried' = tried /\ StageSeen' = StageSeen
        BY <1>0, <1>3 DEF GiveUp, Finish, StatusTold, Client, StageSeen
    <2> QED BY <2>1, StageStep
<1>4. ASSUME NEW how, pc = "call", Fail(how) PROVE ContractStep
    <2>1. tried' = tried /\ tried # <<>> /\ StageSeen = "calling"
        BY <1>0, <1>4 DEF Fail, TriedOnce, StatusTold, StageSeen
    <2>2. StageSeen' = "failed"
        BY <1>0, <1>4, <2>1 DEF Fail, Finish, StatusTold, Client, StageSeen
    <2> QED BY <2>1, <2>2, StageStep
<1>5. CASE Answered \/ StreamBegins
    <2>1. tried' = tried /\ StageSeen = "calling" /\ StageSeen' = "served"
        BY <1>0, <1>5 DEF Answered, StreamBegins, StatusTold, Client, StageSeen
    <2> QED BY <2>1, StageStep
<1>6. CASE AnsweredUnreadably
    <2>1. CASE format[sel] = "openai-compatible"
        <3>1. tried' = tried /\ StageSeen = "calling" /\ StageSeen' = "served"
            BY <1>0, <1>6, <2>1 DEF AnsweredUnreadably, Finish, StatusTold, Client, StageSeen
        <3> QED BY <3>1, StageStep
    <2>2. CASE format[sel] # "openai-compatible"
        BY <1>4, <1>6, <2>2 DEF AnsweredUnreadably
    <2> QED BY <2>1, <2>2
<1>7. CASE RelayEvent \/ StreamOver \/ LineTooLong \/ WriteFails
    <2>1. tried' = tried /\ StageSeen = "served" /\ StageSeen' = "served"
        BY <1>0, <1>7 DEF RelayEvent, StreamOver, LineTooLong, WriteFails, Receives, StatusTold, Client,
           StageSeen
    <2> QED BY <2>1, StageStep
<1>8. CASE ClientLeaves \/ UNCHANGED vars
    <2>1. tried' = tried /\ StageSeen' = StageSeen
        BY <1>0, <1>8 DEF ClientLeaves, vars, Client, StageSeen
    <2> QED BY <2>1, StageStep
<1>9. Failed \/ Cancelled \/ AnsweredInDetail => ContractStep
    BY <1>4 DEF Failed, Cancelled, AnsweredInDetail
<1> QED BY <1>1, <1>2, <1>3, <1>5, <1>6, <1>7, <1>8, <1>9 DEF Next

(* The loops of all handlers, handleStream's own included, implement the   *)
(* contract of a fallback, for any backends, any number of retries and     *)
(* however vendors and clients break off (protocol.go:160-195).            *)
THEOREM LoopsImplemented == Spec => ImplementsFallback
<1>1. Init => Contract!Init
    BY DEF Init, StageSeen, Contract!Init
<1>2. CallInv /\ StatusTold /\ [Next]_vars => [Contract!Next]_(Contract!vars)
    BY StepKeepsContract DEF ContractStep
<1>3. Init => CallInv /\ StatusTold
    BY CallInit, StatusInit
<1>4. CallInv /\ StatusTold /\ [Next]_vars => (CallInv /\ StatusTold)'
    BY CallStep, StatusStep
<1> QED BY <1>1, <1>2, <1>3, <1>4, PTL DEF Spec, ImplementsFallback, Contract!Spec
=============================================================================
