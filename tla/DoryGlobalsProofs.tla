-------------------------- MODULE DoryGlobalsProofs --------------------------
(***************************************************************************)
(* For every number of workers and all sizes, a commitment is computed in  *)
(* the matrix its session asked for, prover and verifier read the same     *)
(* geometry, and a session leaves the context as it found it.              *)
(*                                                                         *)
(* A session is a fixed script of accesses, so the invariant says where in *)
(* its script the session is, and what the globals, the guard and the      *)
(* workers are there.                                                      *)
(***************************************************************************)
EXTENDS DoryGlobals, SequenceTheorems, TLAPS

Fields == {"columns", "t", "rows"}

Access ==
    [op : {"set"}, ctx : Contexts, field : Fields, value : Nat]
    \cup [op : {"k", "embedding"}, value : Nat]
    \cup [op : {"layout"}, value : Layouts]
    \cup [op : {"enter"}, ctx : Contexts, k : Nat, t : Nat]
    \cup [op : {"hash", "embedded", "fork", "join", "drop", "geometry", "publish",
                "check", "main context"}]

(* The script of a prover that found layout l.                             *)
ProveScript(k, t, total, l, advice) ==
    <<[op |-> "hash"]>> \o InitializeMain(k, t, total, l)
        \o <<[op |-> "embedded"]>> \o Commit
        \o (IF advice = Unset THEN <<>> ELSE CommitAdvice(0, advice, "UntrustedAdvice"))
        \o <<[op |-> "geometry"], [op |-> "publish"]>>

-----------------------------------------------------------------------------
(* The scripts, access by access.                                          *)

(* r is a followed by b.                                                    *)
IsJoin(r, a, b) ==
    /\ Len(r) = Len(a) + Len(b)
    /\ \A i \in 1 .. Len(a) : r[i] = a[i]
    /\ \A i \in 1 .. Len(b) : r[i + Len(a)] = b[i]

(* Concatenation is.                                                       *)
LEMMA Joined ==
    ASSUME NEW S, NEW a \in Seq(S), NEW b \in Seq(S)
    PROVE  a \o b \in Seq(S) /\ IsJoin(a \o b, a, b)
  <1>1. a \o b \in Seq(S) /\ Len(a \o b) = Len(a) + Len(b)
    BY ConcatProperties
  <1>2. \A i \in 1 .. Len(a) : (a \o b)[i] = a[i]
    BY ConcatProperties
  <1>3. ASSUME NEW i \in 1 .. Len(b) PROVE (a \o b)[i + Len(a)] = b[i]
    <2>1. /\ i + Len(a) \in 1 .. Len(a) + Len(b) /\ ~(i + Len(a) <= Len(a))
          /\ i + Len(a) - Len(a) = i
      OBVIOUS
    <2> QED  BY <2>1, ConcatProperties
  <1> QED  BY <1>1, <1>2, <1>3 DEF IsJoin

(* A matrix is almost square.                                              *)
LEMMA MatrixSides ==
    ASSUME NEW v \in Nat
    PROVE  /\ Sigma(v) \in Nat /\ Nu(v) \in Nat /\ Sigma(v) + Nu(v) = v
           /\ Sigma(v) - Nu(v) \in {0, 1} /\ 2 * Sigma(v) \in {v, v + 1}
  BY DEF Sigma, Nu

(* The three accesses that initialise a context.                           *)
IsCommon(s, size, st, c) ==
    /\ s[1] = Set(c, "columns", Sigma(size))
    /\ s[2] = Set(c, "t", st)
    /\ s[3] = Set(c, "rows", Nu(size))

(* The accesses of initialize_main after those.                            *)
IsMainRest(s, k, v, l) ==
    /\ s[4].op = "k" /\ s[4].value = k
    /\ s[5].op = "layout" /\ s[5].value = l
    /\ s[6].op = "main context"
    /\ s[7].op = "embedding" /\ s[7].value = v

(* The accesses of a commitment in a context of its own after those.       *)
IsAdviceRest(s, k, t, c) ==
    /\ s[4].op = "enter" /\ s[4].ctx = c /\ s[4].k = k /\ s[4].t = t
    /\ s[5].op = "fork"
    /\ s[6].op = "join"
    /\ s[7].op = "drop"

(* Every access of a script is one.                                        *)
LEMMA AccessOps ==
    /\ \A o \in {"hash", "embedded", "fork", "join", "drop", "geometry", "publish",
                  "check", "main context"} : [op |-> o] \in Access
    /\ \A c \in Contexts, f \in Fields, v \in Nat : Set(c, f, v) \in Access
    /\ \A v \in Nat : [op |-> "k", value |-> v] \in Access
    /\ \A v \in Nat : [op |-> "embedding", value |-> v] \in Access
    /\ \A l \in Layouts : [op |-> "layout", value |-> l] \in Access
    /\ \A c \in Contexts, k \in Nat, t \in Nat :
          [op |-> "enter", ctx |-> c, k |-> k, t |-> t] \in Access
  <1>1. /\ \A o \in {"hash", "embedded", "fork", "join", "drop", "geometry", "publish",
                  "check", "main context"} : [op |-> o] \in Access
    BY DEF Access
  <1>2. \A c \in Contexts, f \in Fields, v \in Nat : Set(c, f, v) \in Access
    BY DEF Access, Set
  <1>3. \A v \in Nat : [op |-> "k", value |-> v] \in Access
    BY DEF Access
  <1>4. \A v \in Nat : [op |-> "embedding", value |-> v] \in Access
    BY DEF Access
  <1>5. \A l \in Layouts : [op |-> "layout", value |-> l] \in Access
    BY DEF Access
  <1>6. \A c \in Contexts, k \in Nat, t \in Nat :
          [op |-> "enter", ctx |-> c, k |-> k, t |-> t] \in Access
    BY DEF Access
  <1> QED  BY <1>1, <1>2, <1>3, <1>4, <1>5, <1>6

(* What initialize_context_common does.                                    *)
LEMMA CommonOps ==
    ASSUME NEW k \in Nat, NEW e \in Nat, NEW st \in Nat, NEW c \in Contexts
    PROVE  /\ InitializeContextCommon(k, e, st, c) \in Seq(Access)
           /\ Len(InitializeContextCommon(k, e, st, c)) = 3
           /\ IsCommon(InitializeContextCommon(k, e, st, c), k + e, st, c)
  <1> DEFINE a == Set(c, "columns", Sigma(k + e))
             b == Set(c, "t", st)
             d == Set(c, "rows", Nu(k + e))
  <1>1. Sigma(k + e) \in Nat /\ Nu(k + e) \in Nat
    BY MatrixSides
  <1>2. a \in Access /\ b \in Access /\ d \in Access
    BY <1>1, AccessOps DEF Fields
  <1>3. InitializeContextCommon(k, e, st, c) = <<a, b, d>>
    BY DEF InitializeContextCommon
  <1>4. IsCommon(<<a, b, d>>, k + e, st, c)
    BY DEF IsCommon
  <1> HIDE DEF a, b, d
  <1> QED  BY <1>2, <1>3, <1>4

(* What initialize_main does.                                              *)
LEMMA MainOps ==
    ASSUME NEW k \in Nat, NEW t \in Nat, NEW v \in Nat, v >= k, NEW l \in Layouts
    PROVE  /\ InitializeMain(k, t, v, l) \in Seq(Access)
           /\ Len(InitializeMain(k, t, v, l)) = 7
           /\ IsCommon(InitializeMain(k, t, v, l), v, t, "Main")
           /\ IsMainRest(InitializeMain(k, t, v, l), k, v, l)
  <1> DEFINE e == SaturatingSub(v, k)
             a == InitializeContextCommon(k, e, t, "Main")
             b1 == [op |-> "k", value |-> k]
             b2 == [op |-> "layout", value |-> l]
             b3 == [op |-> "main context"]
             b4 == [op |-> "embedding", value |-> v]
             b == <<b1, b2, b3, b4>>
             s == a \o b
  <1>1. e \in Nat /\ k + e = v /\ "Main" \in Contexts
    BY DEF SaturatingSub, Contexts
  <1>2. s = InitializeMain(k, t, v, l)
    BY DEF InitializeMain
  <1>3. b1 \in Access /\ b2 \in Access /\ b3 \in Access /\ b4 \in Access
    BY AccessOps
  <1> HIDE DEF e
  <1>4. a \in Seq(Access) /\ Len(a) = 3 /\ IsCommon(a, v, t, "Main")
    BY <1>1, CommonOps
  <1>5. /\ b1.op = "k" /\ b1.value = k /\ b2.op = "layout" /\ b2.value = l
        /\ b3.op = "main context" /\ b4.op = "embedding" /\ b4.value = v
    OBVIOUS
  <1> HIDE DEF a, b1, b2, b3, b4
  <1>6. /\ b \in Seq(Access) /\ Len(b) = 4
        /\ b[1] = b1 /\ b[2] = b2 /\ b[3] = b3 /\ b[4] = b4
    BY <1>3
  <1> HIDE DEF b
  <1>0. s \in Seq(Access) /\ IsJoin(s, a, b)
    BY <1>4, <1>6, Joined
  <1> HIDE DEF s
  <1>7. /\ s \in Seq(Access) /\ Len(s) = 7
        /\ s[1] = a[1] /\ s[2] = a[2] /\ s[3] = a[3]
        /\ s[4] = b[1] /\ s[5] = b[2] /\ s[6] = b[3] /\ s[7] = b[4]
    BY <1>0, <1>4, <1>6 DEF IsJoin
  <1>8. IsCommon(s, v, t, "Main")
    BY <1>4, <1>7 DEF IsCommon
  <1>9. IsMainRest(s, k, v, l)
    BY <1>5, <1>6, <1>7 DEF IsMainRest
  <1> QED  BY <1>2, <1>7, <1>8, <1>9

(* What a commitment by the pool does.                                     *)
LEMMA CommitOps ==
    /\ Commit \in Seq(Access) /\ Len(Commit) = 2
    /\ Commit[1].op = "fork" /\ Commit[2].op = "join"
  <1> DEFINE f == [op |-> "fork"]
             j == [op |-> "join"]
  <1>1. f \in Access /\ j \in Access
    BY AccessOps
  <1>2. Commit = <<f, j>> /\ f.op = "fork" /\ j.op = "join"
    BY DEF Commit
  <1> HIDE DEF f, j
  <1> QED  BY <1>1, <1>2

(* What a commitment in a context of its own does.                         *)
LEMMA AdviceOps ==
    ASSUME NEW k \in Nat, NEW t \in Nat, NEW c \in Contexts
    PROVE  /\ CommitAdvice(k, t, c) \in Seq(Access)
           /\ Len(CommitAdvice(k, t, c)) = 7
           /\ IsCommon(CommitAdvice(k, t, c), k + t, t, c)
           /\ IsAdviceRest(CommitAdvice(k, t, c), k, t, c)
  <1> DEFINE a == InitializeContextCommon(k, t, t, c)
             b1 == [op |-> "enter", ctx |-> c, k |-> k, t |-> t]
             b == <<b1>>
             d1 == [op |-> "drop"]
             d == <<d1>>
             ab == a \o b
             abc == ab \o Commit
             s == abc \o d
  <1>1. a \in Seq(Access) /\ Len(a) = 3 /\ IsCommon(a, k + t, t, c)
    BY CommonOps
  <1>2. b1 \in Access /\ d1 \in Access
    BY AccessOps
  <1>3. s = CommitAdvice(k, t, c)
    BY DEF CommitAdvice
  <1>4. /\ b1.op = "enter" /\ b1.ctx = c /\ b1.k = k /\ b1.t = t
        /\ d1.op = "drop"
    OBVIOUS
  <1> HIDE DEF a, b1, d1
  <1>5. /\ b \in Seq(Access) /\ Len(b) = 1 /\ b[1] = b1
        /\ d \in Seq(Access) /\ Len(d) = 1 /\ d[1] = d1
    BY <1>2
  <1> HIDE DEF b, d
  <1>a. ab \in Seq(Access) /\ IsJoin(ab, a, b)
    BY <1>1, <1>5, Joined
  <1> HIDE DEF ab
  <1>6. /\ Len(ab) = 4 /\ ab[4] = b1
        /\ ab[1] = a[1] /\ ab[2] = a[2] /\ ab[3] = a[3]
    BY <1>a, <1>1, <1>5 DEF IsJoin
  <1> DEFINE f == Commit[1]
             j == Commit[2]
  <1>7. f.op = "fork" /\ j.op = "join"
    BY CommitOps
  <1>8. Commit \in Seq(Access) /\ Len(Commit) = 2 /\ Commit[1] = f /\ Commit[2] = j
    BY CommitOps
  <1> HIDE DEF f, j
  <1>b. abc \in Seq(Access) /\ IsJoin(abc, ab, Commit)
    BY <1>a, <1>8, Joined
  <1> HIDE DEF abc
  <1>9. /\ Len(abc) = 6 /\ abc[5] = f /\ abc[6] = j
        /\ abc[1] = a[1] /\ abc[2] = a[2] /\ abc[3] = a[3] /\ abc[4] = b1
    BY <1>b, <1>6, <1>8 DEF IsJoin
  <1>c. s \in Seq(Access) /\ IsJoin(s, abc, d)
    BY <1>b, <1>5, Joined
  <1> HIDE DEF s
  <1>10. /\ s \in Seq(Access) /\ Len(s) = 7 /\ s[5] = f /\ s[6] = j /\ s[7] = d1
         /\ s[1] = a[1] /\ s[2] = a[2] /\ s[3] = a[3] /\ s[4] = b1
    BY <1>c, <1>5, <1>9 DEF IsJoin
  <1>11. IsCommon(s, k + t, t, c)
    BY <1>1, <1>10 DEF IsCommon
  <1>12. IsAdviceRest(s, k, t, c)
    BY <1>4, <1>7, <1>10 DEF IsAdviceRest
  <1> QED  BY <1>3, <1>10, <1>11, <1>12

(* The script of a prover: hash, matrix, embedded T, commitment, advice.   *)
IsProve(s, k, t, v, l, a) ==
    /\ Len(s) = IF a = Unset THEN 13 ELSE 20
    /\ s[1].op = "hash"
    /\ \A i \in 1 .. 7 : s[i + 1] = InitializeMain(k, t, v, l)[i]
    /\ s[9].op = "embedded"
    /\ s[10].op = "fork"
    /\ s[11].op = "join"
    /\ a # Unset =>
         \A i \in 1 .. 7 : s[i + 11] = CommitAdvice(0, a, "UntrustedAdvice")[i]
    /\ s[Len(s) - 1].op = "geometry"
    /\ s[Len(s)].op = "publish"

(* What prove does is of that form.                                        *)
LEMMA ProveOps ==
    ASSUME NEW k \in Nat, NEW t \in Nat, NEW v \in Nat, v >= k, NEW l \in Layouts,
           NEW a \in Nat \cup {Unset}
    PROVE  /\ ProveScript(k, t, v, l, a) \in Seq(Access)
           /\ IsProve(ProveScript(k, t, v, l, a), k, t, v, l, a)
  <1> DEFINE h1 == [op |-> "hash"]
             e1 == [op |-> "embedded"]
             g1 == [op |-> "geometry"]
             p1 == [op |-> "publish"]
             f == Commit[1]
             j == Commit[2]
             h == <<h1>>
             m == InitializeMain(k, t, v, l)
             e == <<e1>>
             y == CommitAdvice(0, a, "UntrustedAdvice")
             d == IF a = Unset THEN <<>> ELSE y
             g == <<g1, p1>>
             s1 == h \o m
             s2 == s1 \o e
             s3 == s2 \o Commit
             s4 == s3 \o d
             s == s4 \o g
  <1>1. m \in Seq(Access) /\ Len(m) = 7
    BY MainOps
  <1>2. h1 \in Access /\ e1 \in Access /\ g1 \in Access /\ p1 \in Access
    BY AccessOps
  <1>3. Commit \in Seq(Access) /\ Len(Commit) = 2
    BY CommitOps
  <1>4. \/ a = Unset /\ d = <<>>
        \/ a # Unset /\ d = y /\ y \in Seq(Access) /\ Len(y) = 7
    BY AdviceOps DEF Contexts
  <1>5. s = ProveScript(k, t, v, l, a)
    BY DEF ProveScript
  <1>6. /\ h1.op = "hash" /\ e1.op = "embedded"
        /\ g1.op = "geometry" /\ p1.op = "publish"
    OBVIOUS
  <1>7. f.op = "fork" /\ j.op = "join"
    BY CommitOps
  <1>8. f = Commit[1] /\ j = Commit[2]
    OBVIOUS
  <1> HIDE DEF h1, e1, g1, p1, m, y, f, j
  <1>9. /\ h \in Seq(Access) /\ Len(h) = 1 /\ h[1] = h1
        /\ e \in Seq(Access) /\ Len(e) = 1 /\ e[1] = e1
        /\ g \in Seq(Access) /\ Len(g) = 2 /\ g[1] = g1 /\ g[2] = p1
    BY <1>2
  <1>10. d \in Seq(Access) /\ Len(d) = IF a = Unset THEN 0 ELSE 7
    <2> HIDE DEF d
    <2>1. CASE a = Unset
      BY <1>4, <2>1
    <2>2. CASE a # Unset
      BY <1>4, <2>2
    <2> QED  BY <2>1, <2>2
  <1> HIDE DEF h, e, g, d
  <1>11. s1 \in Seq(Access) /\ IsJoin(s1, h, m)
    BY <1>1, <1>9, Joined
  <1> HIDE DEF s1
  <1>12. Len(s1) = 8 /\ s1[1] = h1 /\ \A i \in 1 .. 7 : s1[i + 1] = m[i]
    BY <1>1, <1>9, <1>11 DEF IsJoin
  <1>13. s2 \in Seq(Access) /\ IsJoin(s2, s1, e)
    BY <1>9, <1>11, Joined
  <1> HIDE DEF s2
  <1>14. Len(s2) = 9 /\ s2[9] = e1 /\ \A i \in 1 .. 8 : s2[i] = s1[i]
    BY <1>9, <1>12, <1>13 DEF IsJoin
  <1>15. s3 \in Seq(Access) /\ IsJoin(s3, s2, Commit)
    BY <1>3, <1>13, Joined
  <1> HIDE DEF s3
  <1>16. /\ Len(s3) = 11 /\ s3[10] = f /\ s3[11] = j
         /\ \A i \in 1 .. 9 : s3[i] = s2[i]
    BY <1>3, <1>8, <1>14, <1>15 DEF IsJoin
  <1>17. s4 \in Seq(Access) /\ IsJoin(s4, s3, d)
    BY <1>10, <1>15, Joined
  <1> HIDE DEF s4
  <1>18. /\ Len(s4) = IF a = Unset THEN 11 ELSE 18
         /\ \A i \in 1 .. 11 : s4[i] = s3[i]
    BY <1>10, <1>16, <1>17 DEF IsJoin
  <1>19. a # Unset => \A i \in 1 .. 7 : s4[i + 11] = y[i]
    BY <1>4, <1>10, <1>16, <1>17 DEF IsJoin
  <1>20. s \in Seq(Access) /\ IsJoin(s, s4, g)
    BY <1>9, <1>17, Joined
  <1> HIDE DEF s
  <1>21. /\ Len(s) = IF a = Unset THEN 13 ELSE 20
         /\ s[Len(s) - 1] = g1 /\ s[Len(s)] = p1
    <2>1. CASE a = Unset
      BY <1>9, <1>18, <1>20, <2>1 DEF IsJoin
    <2>2. CASE a # Unset
      BY <1>9, <1>18, <1>20, <2>2 DEF IsJoin
    <2> QED  BY <2>1, <2>2
  <1>22. \A i \in 1 .. 11 : s[i] = s3[i]
    BY <1>18, <1>20 DEF IsJoin
  <1>23. a # Unset => \A i \in 1 .. 7 : s[i + 11] = y[i]
    <2> SUFFICES ASSUME a # Unset, NEW i \in 1 .. 7 PROVE s[i + 11] = y[i]
      OBVIOUS
    <2>1. i + 11 \in 1 .. Len(s4)
      BY <1>18
    <2> QED  BY <2>1, <1>19, <1>20 DEF IsJoin
  <1>24. \A i \in 1 .. 7 : s[i + 1] = m[i]
    <2> SUFFICES ASSUME NEW i \in 1 .. 7 PROVE s[i + 1] = m[i]
      OBVIOUS
    <2>1. i + 1 \in 1 .. 8
      OBVIOUS
    <2>2. s[i + 1] = s3[i + 1] /\ s3[i + 1] = s2[i + 1] /\ s2[i + 1] = s1[i + 1]
      BY <2>1, <1>14, <1>16, <1>22
    <2> QED  BY <2>2, <1>12
  <1>25. s[1] = h1 /\ s[9] = e1 /\ s[10] = f /\ s[11] = j
    <2>1. s[1] = s3[1] /\ s[9] = s3[9] /\ s[10] = s3[10] /\ s[11] = s3[11]
      BY <1>22
    <2>2. s3[1] = s2[1] /\ s3[9] = s2[9] /\ s2[1] = s1[1]
      BY <1>14, <1>16
    <2> QED  BY <2>1, <2>2, <1>12, <1>14, <1>16
  <1>26. m = InitializeMain(k, t, v, l) /\ y = CommitAdvice(0, a, "UntrustedAdvice")
    BY DEF m, y
  <1>27. IsProve(s, k, t, v, l, a)
    BY <1>6, <1>7, <1>21, <1>23, <1>24, <1>25, <1>26 DEF IsProve
  <1> QED  BY <1>5, <1>20, <1>27

(* The script of a verifier: the matrix of K * T, then that of everything. *)
IsVerify(s, k, t, v, l) ==
    /\ Len(s) = 17
    /\ \A i \in 1 .. 7 : s[i] = InitializeMain(k, t, k + t, l)[i]
    /\ s[8].op = "check"
    /\ \A i \in 1 .. 7 : s[i + 8] = InitializeMain(k, t, v, l)[i]
    /\ s[16].op = "geometry"
    /\ s[17].op = "check"

(* What verify does is of that form.                                       *)
LEMMA VerifyOps ==
    ASSUME NEW k \in Nat, NEW t \in Nat, NEW v \in Nat, v >= k, NEW l \in Layouts
    PROVE  /\ Verify(k, t, v, l) \in Seq(Access)
           /\ IsVerify(Verify(k, t, v, l), k, t, v, l)
  <1> DEFINE c1 == [op |-> "check"]
             g1 == [op |-> "geometry"]
             w == k + t
             m == InitializeMain(k, t, w, l)
             c == <<c1>>
             n == InitializeMain(k, t, v, l)
             g == <<g1, c1>>
             s1 == m \o c
             s2 == s1 \o n
             s == s2 \o g
  <1>0. w \in Nat /\ w >= k
    OBVIOUS
  <1>1. Verify(k, t, v, l) = s
    BY DEF Verify
  <1>2. c1 \in Access /\ g1 \in Access
    BY AccessOps
  <1>3. c1.op = "check" /\ g1.op = "geometry"
    OBVIOUS
  <1>4. m = InitializeMain(k, t, k + t, l) /\ n = InitializeMain(k, t, v, l)
    OBVIOUS
  <1> HIDE DEF w, c1, g1
  <1>5. m \in Seq(Access) /\ Len(m) = 7 /\ n \in Seq(Access) /\ Len(n) = 7
    BY <1>0, MainOps
  <1> HIDE DEF m, n
  <1>6. /\ c \in Seq(Access) /\ Len(c) = 1 /\ c[1] = c1
        /\ g \in Seq(Access) /\ Len(g) = 2 /\ g[1] = g1 /\ g[2] = c1
    BY <1>2
  <1> HIDE DEF c, g
  <1>7. s1 \in Seq(Access) /\ IsJoin(s1, m, c)
    BY <1>5, <1>6, Joined
  <1> HIDE DEF s1
  <1>8. Len(s1) = 8 /\ s1[8] = c1 /\ \A i \in 1 .. 7 : s1[i] = m[i]
    BY <1>5, <1>6, <1>7 DEF IsJoin
  <1>9. s2 \in Seq(Access) /\ IsJoin(s2, s1, n)
    BY <1>5, <1>7, Joined
  <1> HIDE DEF s2
  <1>10. /\ Len(s2) = 15 /\ \A i \in 1 .. 8 : s2[i] = s1[i]
         /\ \A i \in 1 .. 7 : s2[i + 8] = n[i]
    BY <1>5, <1>8, <1>9 DEF IsJoin
  <1>11. s \in Seq(Access) /\ IsJoin(s, s2, g)
    BY <1>6, <1>9, Joined
  <1> HIDE DEF s
  <1>12. /\ Len(s) = 17 /\ s[16] = g1 /\ s[17] = c1
         /\ \A i \in 1 .. 15 : s[i] = s2[i]
    BY <1>6, <1>10, <1>11 DEF IsJoin
  <1>13. \A i \in 1 .. 7 : s[i] = m[i]
    BY <1>8, <1>10, <1>12
  <1>14. s[8] = c1
    <2>1. s[8] = s2[8] /\ s2[8] = s1[8]
      BY <1>10, <1>12
    <2> QED  BY <2>1, <1>8
  <1>15. \A i \in 1 .. 7 : s[i + 8] = n[i]
    <2> SUFFICES ASSUME NEW i \in 1 .. 7 PROVE s[i + 8] = n[i]
      OBVIOUS
    <2>1. i + 8 \in 1 .. 15
      OBVIOUS
    <2> QED  BY <2>1, <1>10, <1>12
  <1>16. IsVerify(s, k, t, v, l)
    BY <1>3, <1>4, <1>12, <1>13, <1>14, <1>15 DEF IsVerify
  <1> QED  BY <1>1, <1>11, <1>16

-----------------------------------------------------------------------------
(* What the parts of a script do.                                          *)

GlobalsTyped ==
    /\ globals \in [Contexts -> [columns : Opt(Nat), t : Opt(Nat), rows : Opt(Nat)]]
    /\ main \in [k : Opt(Nat), embedding : Nat]
    /\ layout \in Layouts

(* Context c holds the almost square matrix of 2^v entries.                *)
IsMatrix(c, v, t) ==
    /\ globals[c].columns = Sigma(v)
    /\ globals[c].t = t
    /\ globals[c].rows = Nu(v)

(* No worker computes; every worker has read part of that matrix.          *)
NoWorkers == worker = [w \in Workers |-> NoWorker]

Reads(r, c, v, t) ==
    /\ r = [reads |-> r.reads, ctx |-> r.ctx, got |-> r.got]
    /\ r.ctx \in {Unset, c}
    /\ \/ r.reads = <<"columns", "rows", "t">> /\ r.got = <<>>
       \/ r.reads = <<"rows", "t">> /\ r.got = <<Sigma(v)>>
       \/ r.reads = <<"t">> /\ r.got = <<Sigma(v), Nu(v)>>
       \/ r.reads = <<>> /\ r.got = <<Sigma(v), Nu(v), t>>

Reading(c, v, t) ==
    /\ worker = [w \in Workers |-> worker[w]]
    /\ \A w \in Workers : Reads(worker[w], c, v, t)

(* The access that comes next, and those after it.                         *)
LEMMA NextAccess ==
    ASSUME NEW s \in Seq(Access), NEW p \in 1 .. Len(s) + 1,
           todo = SubSeq(s, p, Len(s))
    PROVE  /\ p <= Len(s) => /\ todo # <<>> /\ Head(todo) = s[p]
                             /\ Tail(todo) = SubSeq(s, p + 1, Len(s))
           /\ p = Len(s) + 1 => todo = <<>>
  <1>0. Len(s) \in Nat
    BY LenProperties
  <1>1. CASE p <= Len(s)
    <2>1. p \in 1 .. Len(s) /\ Len(s) \in p .. Len(s)
      BY <1>0, <1>1
    <2>2. /\ Head(SubSeq(s, p, Len(s))) = s[p]
          /\ Tail(SubSeq(s, p, Len(s))) = SubSeq(s, p + 1, Len(s))
      BY <1>0, <2>1, HeadTailOfSubSeq
    <2>3. Len(SubSeq(s, p, Len(s))) = Len(s) - p + 1
      BY <1>0, <2>1, SubSeqProperties
    <2>4. Len(SubSeq(s, p, Len(s))) # 0
      BY <1>0, <2>1, <2>3
    <2>5. SubSeq(s, p, Len(s)) # <<>>
      BY <2>4, EmptySeq
    <2> QED  BY <1>0, <1>1, <2>2, <2>5
  <1>2. CASE p = Len(s) + 1
    BY <1>0, <1>2, SubSeqEmpty
  <1> QED  BY <1>0, <1>1, <1>2

(* A step of a session makes the access that comes next, or is a worker's. *)
LEMMA SessionSteps ==
    ASSUME Next, session # Idle, todo # <<>>
    PROVE  \/ \E w \in Workers : LoadContext(w) \/ ReadParameter(w)
           \/ Head(todo).op = "set" /\ SetParameter
           \/ Head(todo).op \in {"k", "embedding"} /\ SetMain
           \/ Head(todo).op = "layout" /\ SetLayout
           \/ Head(todo).op = "main context" /\ SetMainContext
           \/ Head(todo).op = "enter" /\ WithContext
           \/ Head(todo).op = "drop" /\ DropGuard
           \/ Head(todo).op = "fork" /\ Fork
           \/ Head(todo).op = "join" /\ Join
           \/ Head(todo).op \in {"hash", "publish", "embedded", "geometry"} /\ Look
           \/ Head(todo).op = "check" /\ Check
  <1>1. ~StartProve /\ ~StartVerify /\ ~StartCommit /\ ~Finish
    BY DEF StartProve, StartVerify, StartCommit, Start, Finish
  <1>2. /\ SetParameter => Head(todo).op = "set"
        /\ SetMain => Head(todo).op \in {"k", "embedding"}
        /\ SetLayout => Head(todo).op = "layout"
        /\ SetMainContext => Head(todo).op = "main context"
    BY DEF SetParameter, SetMain, SetLayout, SetMainContext, Do
  <1>3. /\ WithContext => Head(todo).op = "enter"
        /\ DropGuard => Head(todo).op = "drop"
        /\ Fork => Head(todo).op = "fork"
        /\ Join => Head(todo).op = "join"
    BY DEF WithContext, DropGuard, Fork, Join, Do
  <1>4. /\ Look => Head(todo).op \in {"hash", "publish", "embedded", "geometry"}
        /\ Check => Head(todo).op = "check"
    BY DEF Look, Check, Do
  <1> QED  BY <1>1, <1>2, <1>3, <1>4 DEF Next

(* When nobody computes, it is not a worker's.                             *)
LEMMA NobodyWorks ==
    ASSUME NoWorkers, NEW w \in Workers
    PROVE  ~LoadContext(w) /\ ~ReadParameter(w)
  BY DEF NoWorkers, NoWorker, LoadContext, ReadParameter

(* A worker appends what it reads.                                         *)
LEMMA AppendedOne ==
    ASSUME NEW a, NEW b
    PROVE  Append(<<a>>, b) = <<a, b>>
  <1> DEFINE r == Append(<<a>>, b)
             u == <<a, b>>
  <1>1. <<a>> \in Seq({a, b}) /\ b \in {a, b}
    OBVIOUS
  <1>2. u \in Seq({a, b}) /\ Len(u) = 2 /\ u[1] = a /\ u[2] = b
    OBVIOUS
  <1>3. r \in Seq({a, b}) /\ Len(r) = 2 /\ r[1] = a /\ r[2] = b
    BY <1>1, AppendProperties
  <1> HIDE DEF r, u
  <1>4. \A i \in 1 .. Len(r) : r[i] = u[i]
    BY <1>2, <1>3
  <1>5. r = u
    BY <1>2, <1>3, <1>4, SeqEqual
  <1> QED  BY <1>5 DEF r, u

(* The same for what it reads last.                                        *)
LEMMA AppendedTwo ==
    ASSUME NEW a, NEW b, NEW d
    PROVE  Append(<<a, b>>, d) = <<a, b, d>>
  <1> DEFINE r == Append(<<a, b>>, d)
             u == <<a, b, d>>
  <1>1. <<a, b>> \in Seq({a, b, d}) /\ d \in {a, b, d}
    OBVIOUS
  <1>2. u \in Seq({a, b, d}) /\ Len(u) = 3 /\ u[1] = a /\ u[2] = b /\ u[3] = d
    OBVIOUS
  <1>3. r \in Seq({a, b, d}) /\ Len(r) = 3 /\ r[1] = a /\ r[2] = b /\ r[3] = d
    BY <1>1, AppendProperties
  <1> HIDE DEF r, u
  <1>4. \A i \in 1 .. Len(r) : r[i] = u[i]
    BY <1>2, <1>3
  <1>5. r = u
    BY <1>2, <1>3, <1>4, SeqEqual
  <1> QED  BY <1>5 DEF r, u

(* Whatever a worker reads is of the matrix of the current context.        *)
LEMMA WorkerStep ==
    ASSUME NEW c \in Contexts, NEW v \in Nat, NEW t \in Nat, NEW w \in Workers,
           context = c, IsMatrix(c, v, t), Reading(c, v, t),
           LoadContext(w) \/ ReadParameter(w)
    PROVE  /\ Reading(c, v, t)'
           /\ UNCHANGED <<globals, main, context, layout, guard, session, todo>>
  <1>1. UNCHANGED <<globals, main, context, layout, guard, session, todo>>
    BY DEF LoadContext, ReadParameter
  <1>2. Reads(worker[w], c, v, t)
    BY DEF Reading
  <1>3. /\ worker' = [u \in Workers |-> worker'[u]]
        /\ \A u \in Workers \ {w} : worker'[u] = worker[u]
    BY DEF LoadContext, ReadParameter, Reading
  <1>4. Reads(worker'[w], c, v, t)
    <2>1. CASE LoadContext(w)
      <3>1. worker'[w] = [worker[w] EXCEPT !.ctx = c]
        BY <2>1 DEF LoadContext, Reading
      <3>2. /\ worker'[w].reads = worker[w].reads /\ worker'[w].got = worker[w].got
            /\ worker'[w].ctx = c
            /\ worker'[w] = [reads |-> worker'[w].reads, ctx |-> worker'[w].ctx,
                             got |-> worker'[w].got]
        BY <1>2, <3>1 DEF Reads
      <3> QED  BY <1>2, <3>2 DEF Reads
    <2>2. CASE ReadParameter(w)
      <3> DEFINE r == worker[w]
                 g == Append(r.got, globals[c][Head(r.reads)])
      <3>1. /\ r.reads # <<>> /\ r.ctx = c
            /\ worker'[w] = [r EXCEPT !.got = g, !.reads = Tail(r.reads), !.ctx = Unset]
        BY <1>2, <2>2 DEF ReadParameter, Reading, Reads
      <3>2. /\ worker'[w].reads = Tail(r.reads) /\ worker'[w].got = g
            /\ worker'[w].ctx = Unset
            /\ worker'[w] = [reads |-> worker'[w].reads, ctx |-> worker'[w].ctx,
                             got |-> worker'[w].got]
        <4> HIDE DEF g
        <4> QED  BY <1>2, <3>1 DEF Reads
      <3>3. CASE r.reads = <<"columns", "rows", "t">> /\ r.got = <<>>
        <4>1. Tail(r.reads) = <<"rows", "t">> /\ g = <<Sigma(v)>>
          BY <3>3 DEF IsMatrix
        <4> QED  BY <3>2, <4>1 DEF Reads
      <3>4. CASE r.reads = <<"rows", "t">> /\ r.got = <<Sigma(v)>>
        <4>1. Tail(r.reads) = <<"t">> /\ Head(r.reads) = "rows"
          BY <3>4
        <4>2. globals[c][Head(r.reads)] = Nu(v)
          BY <4>1 DEF IsMatrix
        <4>3. g = <<Sigma(v), Nu(v)>>
          BY <3>4, <4>2, AppendedOne
        <4> QED  BY <3>2, <4>1, <4>3 DEF Reads
      <3>5. CASE r.reads = <<"t">> /\ r.got = <<Sigma(v), Nu(v)>>
        <4>1. Tail(r.reads) = <<>> /\ Head(r.reads) = "t"
          BY <3>5
        <4>2. globals[c][Head(r.reads)] = t
          BY <4>1 DEF IsMatrix
        <4>3. g = <<Sigma(v), Nu(v), t>>
          BY <3>5, <4>2, AppendedTwo
        <4> QED  BY <3>2, <4>1, <4>3 DEF Reads
      <3> QED  BY <1>2, <3>1, <3>3, <3>4, <3>5 DEF Reads
    <2> QED  BY <2>1, <2>2
  <1>5. Sigma(v)' = Sigma(v) /\ Nu(v)' = Nu(v)
    BY DEF Sigma, Nu
  <1> QED  BY <1>1, <1>3, <1>4, <1>5 DEF Reading, Reads

(* Fork and join, and what the workers do between them.                    *)
LEMMA Computes ==
    ASSUME NEW c \in Contexts, NEW v \in Nat, NEW t \in Nat,
           context = c, IsMatrix(c, v, t), session # Idle, todo # <<>>, Next,
           \/ Head(todo).op = "fork" /\ NoWorkers
           \/ Head(todo).op = "join" /\ Reading(c, v, t)
    PROVE  /\ UNCHANGED <<globals, main, context, layout, guard, session>>
           /\ \/ todo' = todo /\ Head(todo).op = "join" /\ Reading(c, v, t)'
              \/ todo' = Tail(todo) /\ Head(todo).op = "fork" /\ Reading(c, v, t)'
              \/ todo' = Tail(todo) /\ Head(todo).op = "join" /\ NoWorkers'
  <1>1. CASE \E w \in Workers : LoadContext(w) \/ ReadParameter(w)
    <2>1. Head(todo).op = "join" /\ Reading(c, v, t)
      BY <1>1, NobodyWorks
    <2> QED  BY <1>1, <2>1, WorkerStep
  <1>2. CASE Head(todo).op = "fork" /\ Fork
    <2>1. /\ worker' = [w \in Workers |-> [NoWorker EXCEPT !.reads = <<"columns", "rows", "t">>]]
          /\ UNCHANGED <<globals, main, context, layout, guard, session>>
          /\ todo' = Tail(todo)
      BY <1>2 DEF Fork, Do
    <2>2. [NoWorker EXCEPT !.reads = <<"columns", "rows", "t">>]
             = [reads |-> <<"columns", "rows", "t">>, ctx |-> Unset, got |-> <<>>]
      BY DEF NoWorker
    <2>3. Reading(c, v, t)'
      BY <2>1, <2>2 DEF Reading, Reads
    <2> QED  BY <1>2, <2>1, <2>3
  <1>3. CASE Head(todo).op = "join" /\ Join
    BY <1>3 DEF Join, Do, NoWorkers
  <1> QED  BY <1>1, <1>2, <1>3, SessionSteps

(* The first j accesses of InitializeMain have been made.                  *)
MainSet(j, k, t, v, l) ==
    /\ j >= 1 => globals["Main"].columns = Sigma(v)
    /\ j >= 2 => globals["Main"].t = t
    /\ j >= 3 => globals["Main"].rows = Nu(v)
    /\ j >= 4 => main.k = k
    /\ j >= 5 => layout = l
    /\ j >= 7 => main.embedding = v

(* The next access of initialize_main.                                     *)
LEMMA MainStep ==
    ASSUME NEW k \in Nat, NEW t \in Nat, NEW v \in Nat, v >= k, NEW l \in Layouts,
           NEW j \in 1 .. 7, GlobalsTyped, MainSet(j - 1, k, t, v, l), NoWorkers,
           context = "Main", session # Idle, todo # <<>>, Next,
           Head(todo) = InitializeMain(k, t, v, l)[j]
    PROVE  /\ todo' = Tail(todo) /\ GlobalsTyped' /\ MainSet(j, k, t, v, l)'
           /\ UNCHANGED <<context, guard, session, worker>>
           /\ layout' \in {layout, l}
  <1> DEFINE o == Head(todo)
             s == InitializeMain(k, t, v, l)
  <1>1. IsCommon(s, v, t, "Main") /\ IsMainRest(s, k, v, l)
    BY MainOps
  <1>2. Sigma(v) \in Nat /\ Nu(v) \in Nat /\ "Main" \in Contexts
    BY MatrixSides DEF Contexts
  <1>3. ~ \E w \in Workers : LoadContext(w) \/ ReadParameter(w)
    BY NobodyWorks
  <1>4. j \in 1 .. 3 =>
           /\ o.op = "set" /\ o.ctx = "Main" /\ o.field \in Fields /\ o.value \in Nat
           /\ j = 1 => o.field = "columns" /\ o.value = Sigma(v)
           /\ j = 2 => o.field = "t" /\ o.value = t
           /\ j = 3 => o.field = "rows" /\ o.value = Nu(v)
    <2> HIDE DEF s
    <2>1. j = 1 => o = Set("Main", "columns", Sigma(v))
      BY <1>1 DEF IsCommon, s
    <2>2. j = 2 => o = Set("Main", "t", t)
      BY <1>1 DEF IsCommon, s
    <2>3. j = 3 => o = Set("Main", "rows", Nu(v))
      BY <1>1 DEF IsCommon, s
    <2> QED  BY <1>2, <2>1, <2>2, <2>3 DEF Set, Fields
  <1>5. /\ j = 4 => o.op = "k" /\ o.value = k
        /\ j = 5 => o.op = "layout" /\ o.value = l
        /\ j = 6 => o.op = "main context"
        /\ j = 7 => o.op = "embedding" /\ o.value = v
    <2>0. o = s[j]
      OBVIOUS
    <2> HIDE DEF o, s
    <2>1. j = 4 => o.op = "k" /\ o.value = k
      BY <1>1, <2>0 DEF IsMainRest
    <2>2. j = 5 => o.op = "layout" /\ o.value = l
      BY <1>1, <2>0 DEF IsMainRest
    <2>3. j = 6 => o.op = "main context"
      BY <1>1, <2>0 DEF IsMainRest
    <2>4. j = 7 => o.op = "embedding" /\ o.value = v
      BY <1>1, <2>0 DEF IsMainRest
    <2> QED  BY <2>1, <2>2, <2>3, <2>4
  <1> HIDE DEF o, s
  <1>6. CASE j \in 1 .. 3
    <2>1. SetParameter
      BY <1>3, <1>4, <1>6, SessionSteps DEF o
    <2>2. /\ globals' = [globals EXCEPT !["Main"][o.field] = o.value]
          /\ UNCHANGED <<main, context, layout, guard, session, worker>>
          /\ todo' = Tail(todo)
      BY <1>4, <1>6, <2>1 DEF SetParameter, Do, o
    <2>3. globals["Main"] \in [columns : Opt(Nat), t : Opt(Nat), rows : Opt(Nat)]
      BY <1>2 DEF GlobalsTyped
    <2>4. /\ globals'["Main"] = [globals["Main"] EXCEPT ![o.field] = o.value]
          /\ globals' \in [Contexts -> [columns : Opt(Nat), t : Opt(Nat), rows : Opt(Nat)]]
      <3>1. [globals["Main"] EXCEPT ![o.field] = o.value]
               \in [columns : Opt(Nat), t : Opt(Nat), rows : Opt(Nat)]
        BY <1>4, <1>6, <2>3 DEF Fields, Opt
      <3> QED  BY <1>2, <2>2, <3>1 DEF GlobalsTyped
    <2>5. /\ j = 1 => globals'["Main"].columns = Sigma(v)
          /\ j = 2 => globals'["Main"].t = t
          /\ j = 3 => globals'["Main"].rows = Nu(v)
          /\ j # 1 => globals'["Main"].columns = globals["Main"].columns
          /\ j # 2 => globals'["Main"].t = globals["Main"].t
          /\ j # 3 => globals'["Main"].rows = globals["Main"].rows
      BY <1>4, <1>6, <2>3, <2>4
    <2>6. GlobalsTyped'
      BY <2>2, <2>4 DEF GlobalsTyped
    <2>7. MainSet(j, k, t, v, l)'
      BY <1>6, <2>5 DEF MainSet, Sigma, Nu
    <2> QED  BY <2>2, <2>6, <2>7
  <1>7. CASE j \in {4, 7}
    <2>1. SetMain
      BY <1>3, <1>5, <1>7, SessionSteps DEF o
    <2>2. /\ j = 4 => main' = [main EXCEPT !.k = k]
          /\ j = 7 => main' = [main EXCEPT !.embedding = v]
          /\ UNCHANGED <<globals, context, layout, guard, session, worker>>
          /\ todo' = Tail(todo)
      BY <1>5, <1>7, <2>1 DEF SetMain, Do, o
    <2>3. /\ main' \in [k : Opt(Nat), embedding : Nat]
          /\ j = 4 => main'.k = k
          /\ j = 7 => main'.k = main.k /\ main'.embedding = v
      BY <1>7, <2>2 DEF GlobalsTyped, Opt
    <2>4. GlobalsTyped'
      BY <2>2, <2>3 DEF GlobalsTyped
    <2>5. MainSet(j, k, t, v, l)'
      BY <1>7, <2>2, <2>3 DEF MainSet, Sigma, Nu
    <2> QED  BY <2>2, <2>4, <2>5
  <1>8. CASE j = 5
    <2>1. SetLayout
      BY <1>3, <1>5, <1>8, SessionSteps DEF o
    <2>2. /\ layout' = l /\ todo' = Tail(todo)
          /\ UNCHANGED <<globals, main, context, guard, session, worker>>
      BY <1>5, <1>8, <2>1 DEF SetLayout, Do, o
    <2> QED  BY <1>8, <2>2 DEF GlobalsTyped, MainSet, Sigma, Nu
  <1>9. CASE j = 6
    <2>1. SetMainContext
      BY <1>3, <1>5, <1>9, SessionSteps DEF o
    <2>2. /\ context' = "Main" /\ todo' = Tail(todo)
          /\ UNCHANGED <<globals, main, layout, guard, session, worker>>
      BY <2>1 DEF SetMainContext, Do
    <2> QED  BY <1>9, <2>2 DEF GlobalsTyped, MainSet, Sigma, Nu
  <1> QED  BY <1>6, <1>7, <1>8, <1>9

(* The commitment in context c is about to make its q-th access.           *)
Entering(q, k, t, c) ==
    /\ q >= 2 => globals[c].columns = Sigma(k + t)
    /\ q >= 3 => globals[c].t = t
    /\ q >= 4 => globals[c].rows = Nu(k + t)
    /\ context = IF q \in 5 .. 7 THEN c ELSE "Main"
    /\ guard = IF q \in 5 .. 7 THEN "Main" ELSE Unset
    /\ IF q = 6 THEN Reading(c, k + t, t) ELSE NoWorkers

Wanting(size, t) == [session EXCEPT !.want = [size |-> size, t |-> t]]

(* Its q-th access, or a step of a worker while it waits for the pool.     *)
LEMMA AdviceStep ==
    ASSUME NEW k \in Nat, NEW t \in Nat, NEW c \in Contexts \ {"Main"}, NEW q \in 1 .. 7,
           GlobalsTyped, Entering(q, k, t, c), session # Idle, todo # <<>>, Next,
           Head(todo) = CommitAdvice(k, t, c)[q]
    PROVE  /\ GlobalsTyped' /\ globals'["Main"] = globals["Main"]
           /\ UNCHANGED <<main, layout>>
           /\ \/ /\ todo' = todo /\ session' = session
                 /\ q = 6 /\ Entering(q, k, t, c)'
              \/ /\ todo' = Tail(todo) /\ Entering(q + 1, k, t, c)'
                 /\ session' = CASE q = 4 -> Wanting(k + t, t)
                                  [] q = 7 -> Wanting(session.total, session.t)
                                  [] OTHER -> session
  <1> DEFINE o == Head(todo)
             s == CommitAdvice(k, t, c)
             v == k + t
  <1>0. v \in Nat
    OBVIOUS
  <1>1. IsCommon(s, v, t, c) /\ IsAdviceRest(s, k, t, c)
    BY AdviceOps
  <1>2. Sigma(v) \in Nat /\ Nu(v) \in Nat /\ "Main" \in Contexts
    <2> HIDE DEF v
    <2> QED  BY <1>0, MatrixSides DEF Contexts
  <1>3. q # 6 => ~ \E w \in Workers : LoadContext(w) \/ ReadParameter(w)
    BY NobodyWorks DEF Entering
  <1>4. q \in 1 .. 3 =>
           /\ o.op = "set" /\ o.ctx = c /\ o.field \in Fields /\ o.value \in Nat
           /\ q = 1 => o.field = "columns" /\ o.value = Sigma(v)
           /\ q = 2 => o.field = "t" /\ o.value = t
           /\ q = 3 => o.field = "rows" /\ o.value = Nu(v)
    <2> HIDE DEF s, v
    <2>1. q = 1 => o = Set(c, "columns", Sigma(v))
      BY <1>1 DEF IsCommon, s
    <2>2. q = 2 => o = Set(c, "t", t)
      BY <1>1 DEF IsCommon, s
    <2>3. q = 3 => o = Set(c, "rows", Nu(v))
      BY <1>1 DEF IsCommon, s
    <2> QED  BY <1>2, <2>1, <2>2, <2>3 DEF Set, Fields
  <1>5. /\ q = 4 => o.op = "enter" /\ o.ctx = c /\ o.k = k /\ o.t = t
        /\ q = 5 => o.op = "fork"
        /\ q = 6 => o.op = "join"
        /\ q = 7 => o.op = "drop"
    <2>0. o = s[q]
      OBVIOUS
    <2> HIDE DEF o, s
    <2> QED  BY <1>1, <2>0 DEF IsAdviceRest
  <1>6. v' = v /\ Sigma(v)' = Sigma(v) /\ Nu(v)' = Nu(v)
    BY DEF Sigma, Nu
  <1>v. v = k + t
    OBVIOUS
  <1> HIDE DEF o, s, v
  <1>7. CASE q \in 1 .. 3
    <2>1. SetParameter
      <3>1. Head(todo).op = "set" /\ ~ \E w \in Workers : LoadContext(w) \/ ReadParameter(w)
        BY <1>3, <1>4, <1>7 DEF o
      <3> QED  BY <3>1, SessionSteps
    <2>2. /\ globals' = [globals EXCEPT ![c][o.field] = o.value]
          /\ UNCHANGED <<main, context, layout, guard, session, worker>>
          /\ todo' = Tail(todo)
      BY <1>4, <1>7, <2>1 DEF SetParameter, Do, o
    <2>3. globals[c] \in [columns : Opt(Nat), t : Opt(Nat), rows : Opt(Nat)]
      BY DEF GlobalsTyped
    <2>4. /\ globals'[c] = [globals[c] EXCEPT ![o.field] = o.value]
          /\ globals' \in [Contexts -> [columns : Opt(Nat), t : Opt(Nat), rows : Opt(Nat)]]
          /\ globals'["Main"] = globals["Main"]
      <3>1. [globals[c] EXCEPT ![o.field] = o.value]
               \in [columns : Opt(Nat), t : Opt(Nat), rows : Opt(Nat)]
        BY <1>4, <1>7, <2>3 DEF Fields, Opt
      <3> QED  BY <1>2, <2>2, <3>1 DEF GlobalsTyped
    <2>5. /\ q = 1 => globals'[c].columns = Sigma(v)
          /\ q = 2 => globals'[c].t = t
          /\ q = 3 => globals'[c].rows = Nu(v)
          /\ q # 1 => globals'[c].columns = globals[c].columns
          /\ q # 2 => globals'[c].t = globals[c].t
          /\ q # 3 => globals'[c].rows = globals[c].rows
      BY <1>4, <1>7, <2>3, <2>4
    <2>6. GlobalsTyped'
      BY <2>2, <2>4 DEF GlobalsTyped
    <2>7. Entering(q + 1, k, t, c)'
      BY <1>6, <1>7, <1>v, <2>2, <2>5 DEF Entering, NoWorkers
    <2> QED  BY <1>7, <2>2, <2>4, <2>6, <2>7
  <1>8. CASE q = 4
    <2>1. WithContext
      BY <1>3, <1>5, <1>8, SessionSteps DEF o
    <2>2. /\ guard' = context /\ context' = c /\ session' = Wanting(k + t, t)
          /\ UNCHANGED <<globals, main, layout, worker>>
          /\ todo' = Tail(todo)
      BY <1>5, <1>8, <2>1 DEF WithContext, Do, o, Wanting
    <2>3. Entering(q + 1, k, t, c)'
      BY <1>6, <1>8, <1>v, <2>2 DEF Entering, NoWorkers
    <2> QED  BY <1>8, <2>2, <2>3 DEF GlobalsTyped
  <1>9. CASE q \in {5, 6}
    <2>1. context = c /\ IsMatrix(c, v, t)
      BY <1>9, <1>v DEF Entering, IsMatrix
    <2>2. \/ q = 5 /\ Head(todo).op = "fork" /\ NoWorkers
          \/ q = 6 /\ Head(todo).op = "join" /\ Reading(c, v, t)
      BY <1>5, <1>9, <1>v DEF Entering, o
    <2>3. /\ UNCHANGED <<globals, main, context, layout, guard, session>>
          /\ \/ todo' = todo /\ Head(todo).op = "join" /\ Reading(c, v, t)'
             \/ todo' = Tail(todo) /\ Head(todo).op = "fork" /\ Reading(c, v, t)'
             \/ todo' = Tail(todo) /\ Head(todo).op = "join" /\ NoWorkers'
      BY <1>0, <2>1, <2>2, Computes
    <2>4. \/ todo' = todo /\ q = 6 /\ Reading(c, v, t)'
          \/ todo' = Tail(todo) /\ q = 5 /\ Reading(c, v, t)'
          \/ todo' = Tail(todo) /\ q = 6 /\ NoWorkers'
      BY <2>2, <2>3
    <2>5. IF todo' = todo /\ q = 6 /\ Reading(c, v, t)' THEN Entering(q, k, t, c)'
          ELSE Entering(q + 1, k, t, c)'
      BY <1>6, <1>9, <1>v, <2>1, <2>3, <2>4 DEF Entering, IsMatrix
    <2> QED  BY <1>9, <2>3, <2>4, <2>5 DEF GlobalsTyped
  <1>10. CASE q = 7
    <2>1. DropGuard
      BY <1>3, <1>5, <1>10, SessionSteps DEF o
    <2>2. /\ context' = guard /\ guard' = Unset
          /\ session' = Wanting(session.total, session.t)
          /\ UNCHANGED <<globals, main, layout, worker>>
          /\ todo' = Tail(todo)
      BY <2>1 DEF DropGuard, Do, Wanting
    <2>3. Entering(q + 1, k, t, c)'
      BY <1>6, <1>10, <1>v, <2>2 DEF Entering, NoWorkers
    <2> QED  BY <1>10, <2>2, <2>3 DEF GlobalsTyped
  <1> QED  BY <1>7, <1>8, <1>9, <1>10

-----------------------------------------------------------------------------
(* The sessions.                                                           *)

SessionSizes ==
    /\ session.k \in Nat /\ session.t \in Nat /\ session.total \in Nat
    /\ session.total >= session.k + session.t /\ session.layout \in Layouts

SessionOf(kind) ==
    /\ SessionSizes
    /\ session = [kind |-> kind, k |-> session.k, t |-> session.t,
                  total |-> session.total, want |-> session.want,
                  layout |-> session.layout, hashed |-> session.hashed,
                  seen |-> session.seen, embedded |-> session.embedded,
                  published |-> session.published]

(* The accesses of s from position p on are those to be made.              *)
Scripted(s, p) == p \in 1 .. Len(s) + 1 /\ todo = SubSeq(s, p, Len(s))

Wanted(size, t) == session.want = [size |-> size, t |-> t]

(* A prover at position p of its script.                                   *)
ProveState(a, p) ==
    /\ layout = session.layout
    /\ MainSet(p - 2, session.k, session.t, session.total, session.layout)
    /\ IF a # Unset /\ p \in 12 .. 19
       THEN Entering(p - 11, 0, a, "UntrustedAdvice")
       ELSE /\ context = "Main" /\ guard = Unset
            /\ IF p = 11 THEN Reading("Main", session.total, session.t) ELSE NoWorkers
    /\ IF a # Unset /\ p \in 16 .. 18 THEN Wanted(0 + a, a)
                                      ELSE Wanted(session.total, session.t)
    /\ IF p > 1 THEN session.hashed = layout ELSE session.published = Unset

Proving(a, p) ==
    /\ SessionOf("prove") /\ a \in Nat \cup {Unset}
    /\ Scripted(ProveScript(session.k, session.t, session.total, session.layout, a), p)
    /\ ProveState(a, p)

(* What every session has read so far is right.                            *)
Geometry == GlobalsTyped /\ SameGeometry /\ ProofLayout

(* A session that makes its next access is one position further.           *)
LEMMA Advance ==
    ASSUME NEW s \in Seq(Access), NEW p, Scripted(s, p)
    PROVE  /\ todo # <<>> => p \in 1 .. Len(s) /\ Head(todo) = s[p]
           /\ todo # <<>> /\ todo' = Tail(todo) => Scripted(s, p + 1)'
           /\ todo' = todo => Scripted(s, p)'
           /\ p = Len(s) + 1 => todo = <<>>
  <1>0. Len(s) \in Nat
    BY LenProperties
  <1>1. p \in 1 .. Len(s) + 1 /\ todo = SubSeq(s, p, Len(s))
    BY DEF Scripted
  <1>2. /\ p <= Len(s) => /\ todo # <<>> /\ Head(todo) = s[p]
                          /\ Tail(todo) = SubSeq(s, p + 1, Len(s))
        /\ p = Len(s) + 1 => todo = <<>>
    BY <1>1, NextAccess
  <1>3. todo # <<>> => p \in 1 .. Len(s) /\ Head(todo) = s[p]
    BY <1>0, <1>1, <1>2
  <1>4. ASSUME todo # <<>>, todo' = Tail(todo) PROVE Scripted(s, p + 1)'
    <2>1. p <= Len(s) /\ todo' = SubSeq(s, p + 1, Len(s))
      BY <1>0, <1>1, <1>2, <1>4
    <2>2. p + 1 \in 1 .. Len(s) + 1
      BY <1>0, <1>1, <2>1
    <2> QED  BY <2>1, <2>2 DEF Scripted
  <1>5. todo' = todo => Scripted(s, p)'
    BY <1>1 DEF Scripted
  <1> QED  BY <1>2, <1>3, <1>4, <1>5

(* Whoever reads the parameters after initialize_main reads the matrix.    *)
LEMMA LookStep ==
    ASSUME session # Idle, todo # <<>>, Next, NoWorkers,
           NEW op \in {"hash", "publish", "embedded", "geometry"}, Head(todo).op = op
    PROVE  /\ todo' = Tail(todo)
           /\ UNCHANGED <<globals, main, context, layout, guard, worker>>
           /\ session' = CASE op = "hash"    -> [session EXCEPT !.hashed = layout]
                           [] op = "publish" -> [session EXCEPT !.published = layout]
                           [] op = "embedded" -> [session EXCEPT !.embedded =
                                [t |-> globals[context].rows + globals[context].columns - main.k,
                                 extra |-> ExtraVars]]
                           [] op = "geometry" -> [session EXCEPT !.seen =
                                [k |-> main.k, columns |-> globals["Main"].columns,
                                 t |-> globals["Main"].t, layout |-> layout]]
  <1>1. Look
    BY NobodyWorks, SessionSteps
  <1> QED  BY <1>1 DEF Look, Do

(* A session that is under way is no idle one.                             *)
LEMMA NotIdle ==
    ASSUME NEW kind \in {"prove", "verify", "commit"}, SessionOf(kind)
    PROVE  session # Idle /\ session.kind = kind /\ SessionSizes
  <1>1. session.kind = kind
    BY DEF SessionOf
  <1>2. Idle.kind = "idle"
    BY DEF Idle
  <1> QED  BY <1>1, <1>2 DEF SessionOf

(* A session that changes in nothing but what it has read or wants.        *)
SameSession ==
    /\ session'.k = session.k /\ session'.t = session.t
    /\ session'.total = session.total /\ session'.layout = session.layout

(* It is still under way.                                                  *)
LEMMA SessionKept ==
    ASSUME NEW kind, SessionOf(kind), NEW e,
           \/ session' = session
           \/ session' = [session EXCEPT !.hashed = e]
           \/ session' = [session EXCEPT !.published = e]
           \/ session' = [session EXCEPT !.embedded = e]
           \/ session' = [session EXCEPT !.seen = e]
           \/ session' = [session EXCEPT !.want = e]
    PROVE  SessionOf(kind)' /\ SameSession
  <1>1. CASE session' = session
    BY <1>1 DEF SessionOf, SessionSizes, SameSession
  <1>2. CASE session' = [session EXCEPT !.hashed = e]
    BY <1>2 DEF SessionOf, SessionSizes, SameSession
  <1>3. CASE session' = [session EXCEPT !.published = e]
    BY <1>3 DEF SessionOf, SessionSizes, SameSession
  <1>4. CASE session' = [session EXCEPT !.embedded = e]
    BY <1>4 DEF SessionOf, SessionSizes, SameSession
  <1>5. CASE session' = [session EXCEPT !.seen = e]
    BY <1>5 DEF SessionOf, SessionSizes, SameSession
  <1>6. CASE session' = [session EXCEPT !.want = e]
    BY <1>6 DEF SessionOf, SessionSizes, SameSession
  <1> QED  BY <1>1, <1>2, <1>3, <1>4, <1>5, <1>6

(* What a session has read stays right while it reads nothing.             *)
LEMMA GeometryKept ==
    ASSUME Geometry, session # Idle, GlobalsTyped',
           session'.k = session.k, session'.t = session.t,
           session'.total = session.total, session'.layout = session.layout,
           session'.embedded = session.embedded, session'.seen = session.seen,
           session'.hashed = session.hashed, session'.published = session.published
    PROVE  Geometry'
  BY DEF Geometry, SameGeometry, ProofLayout

(* What a prover does next.                                                *)
ProveNext(a, p) ==
    LET n == IF a = Unset THEN 13 ELSE 20
    IN  /\ p \in 1 .. n
        /\ p = 1 => Head(todo).op = "hash"
        /\ p \in 2 .. 8 => Head(todo) = InitializeMain(session.k, session.t, session.total,
                                                     session.layout)[p - 1]
        /\ p = 9 => Head(todo).op = "embedded"
        /\ p = 10 => Head(todo).op = "fork"
        /\ p = 11 => Head(todo).op = "join"
        /\ a # Unset /\ p \in 12 .. 18 =>
              Head(todo) = CommitAdvice(0, a, "UntrustedAdvice")[p - 11]
        /\ p = n - 1 => Head(todo).op = "geometry"
        /\ p = n => Head(todo).op = "publish"

(* The script of a prover is of the form above.                            *)
LEMMA ProveScripted ==
    ASSUME SessionSizes, NEW a \in Nat \cup {Unset}
    PROVE  LET s == ProveScript(session.k, session.t, session.total, session.layout, a)
           IN  /\ s \in Seq(Access)
               /\ IsProve(s, session.k, session.t, session.total, session.layout, a)
  <1>1. /\ session.k \in Nat /\ session.t \in Nat /\ session.total \in Nat
        /\ session.total >= session.k /\ session.layout \in Layouts
    BY DEF SessionSizes
  <1> QED  BY <1>1, ProveOps

(* A prover knows what comes next, and where it ends.                      *)
LEMMA ProvePlace ==
    ASSUME NEW a, NEW p, Proving(a, p)
    PROVE  /\ session # Idle /\ SessionSizes /\ ProveState(a, p) /\ a \in Nat \cup {Unset}
           /\ todo # <<>> => ProveNext(a, p)
           /\ todo = <<>> => p = IF a = Unset THEN 14 ELSE 21
  <1> DEFINE s == ProveScript(session.k, session.t, session.total, session.layout, a)
             m == InitializeMain(session.k, session.t, session.total, session.layout)
             y == CommitAdvice(0, a, "UntrustedAdvice")
  <1>1. SessionOf("prove") /\ a \in Nat \cup {Unset} /\ Scripted(s, p) /\ ProveState(a, p)
    BY DEF Proving
  <1>2. session # Idle /\ SessionSizes
    BY <1>1, NotIdle
  <1>3. /\ s \in Seq(Access)
        /\ IsProve(s, session.k, session.t, session.total, session.layout, a)
    BY <1>1, <1>2, ProveScripted
  <1> HIDE DEF s
  <1>4. /\ todo # <<>> => p \in 1 .. Len(s) /\ Head(todo) = s[p]
        /\ todo = <<>> => p = Len(s) + 1
    <2>1. todo # <<>> => p \in 1 .. Len(s) /\ Head(todo) = s[p]
      BY <1>1, <1>3, Advance
    <2>2. todo = SubSeq(s, p, Len(s)) /\ p \in 1 .. Len(s) + 1 /\ Len(s) \in Nat
      BY <1>1, <1>3, LenProperties DEF Scripted
    <2>3. p <= Len(s) => todo # <<>>
      BY <1>3, <2>2, NextAccess
    <2> QED  BY <2>1, <2>2, <2>3
  <1>5. Len(s) = IF a = Unset THEN 13 ELSE 20
    BY <1>3 DEF IsProve
  <1>6. ASSUME todo # <<>> PROVE ProveNext(a, p)
    <2>1. /\ s[1].op = "hash" /\ s[9].op = "embedded" /\ s[10].op = "fork" /\ s[11].op = "join"
          /\ s[Len(s) - 1].op = "geometry" /\ s[Len(s)].op = "publish"
      BY <1>3 DEF IsProve
    <2>2. (\A i \in 1 .. 7 : s[i + 1] = m[i]) /\ (a # Unset => \A i \in 1 .. 7 : s[i + 11] = y[i])
      BY <1>3 DEF IsProve
    <2>3. p \in 1 .. Len(s) /\ Head(todo) = s[p]
      BY <1>4, <1>6
    <2>a. m = InitializeMain(session.k, session.t, session.total, session.layout)
          /\ y = CommitAdvice(0, a, "UntrustedAdvice")
      OBVIOUS
    <2> HIDE DEF m, y
    <2>4. p \in 2 .. 8 => Head(todo) = m[p - 1]
      <3> SUFFICES ASSUME p \in 2 .. 8 PROVE Head(todo) = m[p - 1]
        OBVIOUS
      <3>1. p - 1 \in 1 .. 7 /\ (p - 1) + 1 = p
        OBVIOUS
      <3> QED  BY <2>2, <2>3, <3>1
    <2>5. a # Unset /\ p \in 12 .. 18 => Head(todo) = y[p - 11]
      <3> SUFFICES ASSUME a # Unset, p \in 12 .. 18 PROVE Head(todo) = y[p - 11]
        OBVIOUS
      <3>1. p - 11 \in 1 .. 7 /\ (p - 11) + 11 = p
        OBVIOUS
      <3> QED  BY <2>2, <2>3, <3>1
    <2> QED  BY <1>5, <2>1, <2>3, <2>4, <2>5, <2>a DEF ProveNext
  <1> QED  BY <1>1, <1>2, <1>4, <1>5, <1>6

(* It goes on, or stays where it is.                                       *)
LEMMA ProveOn ==
    ASSUME NEW a, NEW p, Proving(a, p), todo # <<>>, SameSession, SessionOf("prove")',
           NEW q, ProveState(a, q)',
           \/ q = p + 1 /\ todo' = Tail(todo)
           \/ q = p /\ todo' = todo
    PROVE  Proving(a, q)'
  <1> PICK s : s = ProveScript(session.k, session.t, session.total, session.layout, a)
    OBVIOUS
  <1>1. SessionOf("prove") /\ a \in Nat \cup {Unset} /\ Scripted(s, p)
    BY DEF Proving
  <1>2. s \in Seq(Access)
    BY <1>1, NotIdle, ProveScripted
  <1>3. s = ProveScript(session'.k, session'.t, session'.total, session'.layout, a)
    BY DEF SameSession
  <1>4. Scripted(s, q)'
    BY <1>1, <1>2, Advance
  <1> QED  BY <1>1, <1>3, <1>4 DEF Proving

(* The first accesses of a prover: it hashes the layout, ...               *)
LEMMA ProveHashes ==
    ASSUME NEW a, Proving(a, 1), Geometry, todo # <<>>, Next
    PROVE  Geometry' /\ Proving(a, 2)'
  <1>1. session # Idle /\ ProveState(a, 1) /\ ProveNext(a, 1)
    BY ProvePlace
  <1>2. NoWorkers /\ Head(todo).op = "hash"
    BY <1>1 DEF ProveState, ProveNext
  <1>3. /\ todo' = Tail(todo) /\ session' = [session EXCEPT !.hashed = layout]
        /\ UNCHANGED <<globals, main, context, layout, guard, worker>>
    BY <1>1, <1>2, LookStep
  <1>4. SessionOf("prove")
    BY DEF Proving
  <1>5. SessionOf("prove")' /\ SameSession
    BY <1>3, <1>4, SessionKept
  <1>6. /\ session'.hashed = layout /\ session'.published = session.published
        /\ session'.embedded = session.embedded /\ session'.seen = session.seen
        /\ session'.want = session.want
    BY <1>3, <1>4 DEF SessionOf
  <1>7. ProveState(a, 2)'
    BY <1>1, <1>3, <1>5, <1>6 DEF ProveState, MainSet, Wanted, NoWorkers, SameSession
  <1>8. Geometry'
    BY <1>1, <1>3, <1>5, <1>6
    DEF ProveState, Geometry, GlobalsTyped, SameGeometry, ProofLayout, SameSession
  <1>9. Proving(a, 1 + 1)'
    BY <1>3, <1>5, <1>7, ProveOn
  <1> QED  BY <1>8, <1>9

(* ... then initialises the matrix, ...                                    *)
LEMMA ProveInitialises ==
    ASSUME NEW a, NEW p \in 2 .. 8, Proving(a, p), Geometry, todo # <<>>, Next
    PROVE  Geometry' /\ Proving(a, p + 1)'
  <1> DEFINE j == p - 1
  <1>0. PICK k, t, v, l :
           k = session.k /\ t = session.t /\ v = session.total /\ l = session.layout
    OBVIOUS
  <1>1. /\ session # Idle /\ SessionSizes /\ ProveState(a, p) /\ ProveNext(a, p)
        /\ SessionOf("prove")
    BY ProvePlace DEF Proving
  <1>2. k \in Nat /\ t \in Nat /\ v \in Nat /\ v >= k /\ l \in Layouts /\ j \in 1 .. 7
    BY <1>0, <1>1 DEF SessionSizes
  <1>3. Head(todo) = InitializeMain(k, t, v, l)[j]
    BY <1>0, <1>1 DEF ProveNext
  <1>4. /\ NoWorkers /\ context = "Main" /\ guard = Unset /\ layout = l
        /\ Wanted(v, t) /\ session.hashed = layout
        /\ MainSet(p - 2, k, t, v, l)
    BY <1>0, <1>1 DEF ProveState
  <1>5. p - 2 = j - 1 /\ (p + 1) - 2 = j
    OBVIOUS
  <1>6. GlobalsTyped
    BY DEF Geometry
  <1> HIDE DEF j
  <1>7. /\ todo' = Tail(todo) /\ GlobalsTyped'
        /\ UNCHANGED <<context, guard, session, worker>>
        /\ layout' \in {layout, l}
    BY <1>1, <1>2, <1>3, <1>4, <1>5, <1>6, MainStep
  <1>8. MainSet(j, k, t, v, l)'
    BY <1>1, <1>2, <1>3, <1>4, <1>5, <1>6, MainStep
  <1>9. layout' = layout
    BY <1>4, <1>7
  <1>10. ProveState(a, p + 1)'
    BY <1>0, <1>4, <1>5, <1>7, <1>8, <1>9 DEF ProveState, Wanted, NoWorkers
  <1>11. SessionOf("prove")' /\ SameSession
    BY <1>1, <1>7, SessionKept
  <1>12. Proving(a, p + 1)'
    BY <1>7, <1>10, <1>11, ProveOn
  <1>13. Geometry'
    BY <1>1, <1>7, GeometryKept
  <1> QED  BY <1>12, <1>13

(* ... reads by how much the embedding stretches T, ...                    *)
LEMMA ProveEmbeds ==
    ASSUME NEW a, Proving(a, 9), Geometry, todo # <<>>, Next
    PROVE  Geometry' /\ Proving(a, 10)'
  <1> DEFINE e == [t |-> globals[context].rows + globals[context].columns - main.k,
                  extra |-> ExtraVars]
  <1>0. PICK k, t, v :
           k = session.k /\ t = session.t /\ v = session.total
    OBVIOUS
  <1>1. /\ session # Idle /\ SessionSizes /\ ProveState(a, 9) /\ ProveNext(a, 9)
        /\ SessionOf("prove")
    BY ProvePlace DEF Proving
  <1>2. /\ NoWorkers /\ Head(todo).op = "embedded" /\ context = "Main"
        /\ MainSet(7, k, t, v, layout)
    BY <1>0, <1>1 DEF ProveState, ProveNext
  <1>3. /\ todo' = Tail(todo) /\ session' = [session EXCEPT !.embedded = e]
        /\ UNCHANGED <<globals, main, context, layout, guard, worker>>
    BY <1>1, <1>2, LookStep
  <1>4. e.t = v - k /\ e.t = t + e.extra
    <2>1. k \in Nat /\ t \in Nat /\ v \in Nat /\ v >= k + t
      BY <1>0, <1>1 DEF SessionSizes
    <2>2. /\ globals["Main"].columns = Sigma(v) /\ globals["Main"].rows = Nu(v)
          /\ globals["Main"].t = t /\ main.k = k /\ main.embedding = v
      BY <1>2 DEF MainSet
    <2>3. Sigma(v) \in Nat /\ Nu(v) \in Nat /\ Sigma(v) + Nu(v) = v
      BY <2>1, MatrixSides
    <2>4. LogEmbedding = v
      BY <2>1, <2>2, <2>3 DEF LogEmbedding
    <2>5. ExtraVars = v - (k + t)
      BY <1>2, <2>1, <2>2, <2>4 DEF ExtraVars, SaturatingSub
    <2>6. e.t = Nu(v) + Sigma(v) - k /\ e.extra = v - (k + t)
      BY <1>2, <2>2, <2>5
    <2> HIDE DEF e
    <2> QED  BY <2>1, <2>3, <2>6
  <1> HIDE DEF e
  <1>5. SessionOf("prove")' /\ SameSession
    BY <1>1, <1>3, SessionKept
  <1>6. /\ session'.hashed = session.hashed /\ session'.published = session.published
        /\ session'.embedded = e /\ session'.seen = session.seen
        /\ session'.want = session.want
    BY <1>1, <1>3 DEF SessionOf
  <1>7. ProveState(a, 10)'
    BY <1>1, <1>3, <1>5, <1>6 DEF ProveState, MainSet, Wanted, NoWorkers, SameSession, Sigma, Nu
  <1>8. Geometry'
    BY <1>0, <1>1, <1>3, <1>4, <1>5, <1>6
    DEF Geometry, GlobalsTyped, SameGeometry, ProofLayout, SameSession
  <1>9. Proving(a, 9 + 1)'
    BY <1>1, <1>3, <1>5, <1>7, ProveOn
  <1> QED  BY <1>8, <1>9

(* ... commits to the witness, ...                                         *)
LEMMA ProveCommits ==
    ASSUME NEW a, NEW p \in {10, 11}, Proving(a, p), Geometry, todo # <<>>, Next
    PROVE  Geometry' /\ \E q \in {p, p + 1} : Proving(a, q)'
  <1>0. PICK k, t, v, l :
           k = session.k /\ t = session.t /\ v = session.total /\ l = session.layout
    OBVIOUS
  <1>1. /\ session # Idle /\ SessionSizes /\ ProveState(a, p) /\ ProveNext(a, p)
        /\ SessionOf("prove") /\ a \in Nat \cup {Unset}
    BY ProvePlace DEF Proving
  <1>2. k \in Nat /\ t \in Nat /\ v \in Nat /\ "Main" \in Contexts
    BY <1>0, <1>1 DEF SessionSizes, Contexts
  <1>3. /\ context = "Main" /\ guard = Unset /\ layout = l /\ session.hashed = layout
        /\ Wanted(v, t) /\ MainSet(p - 2, k, t, v, l)
        /\ IF p = 11 THEN Reading("Main", v, t) ELSE NoWorkers
    BY <1>0, <1>1 DEF ProveState
  <1>4. \/ p = 10 /\ Head(todo).op = "fork"
        \/ p = 11 /\ Head(todo).op = "join"
    BY <1>1 DEF ProveNext
  <1>5. IsMatrix("Main", v, t)
    BY <1>3 DEF MainSet, IsMatrix
  <1>6. /\ UNCHANGED <<globals, main, context, layout, guard, session>>
        /\ \/ todo' = todo /\ Head(todo).op = "join" /\ Reading("Main", v, t)'
           \/ todo' = Tail(todo) /\ Head(todo).op = "fork" /\ Reading("Main", v, t)'
           \/ todo' = Tail(todo) /\ Head(todo).op = "join" /\ NoWorkers'
    BY <1>1, <1>2, <1>3, <1>4, <1>5, Computes
  <1>7. \/ todo' = todo /\ p = 11 /\ Reading("Main", v, t)'
        \/ todo' = Tail(todo) /\ p = 10 /\ Reading("Main", v, t)'
        \/ todo' = Tail(todo) /\ p = 11 /\ NoWorkers'
    BY <1>4, <1>6
  <1>8. SessionOf("prove")' /\ SameSession
    BY <1>1, <1>6, SessionKept
  <1>9. Geometry'
    BY <1>1, <1>6, GeometryKept DEF Geometry, GlobalsTyped
  <1>10. ASSUME NEW q \in 10 .. 12, IF q = 11 THEN Reading("Main", v, t)' ELSE NoWorkers'
         PROVE  ProveState(a, q)'
    <2>1. context' = "Main" /\ guard' = Unset /\ layout' = session'.layout
          /\ session'.hashed = layout' /\ Wanted(session.total, session.t)'
      BY <1>0, <1>3, <1>6 DEF Wanted
    <2>2. MainSet(q - 2, session.k, session.t, session.total, session.layout)'
      BY <1>0, <1>3, <1>6 DEF MainSet, Sigma, Nu
    <2>3. q = 12 => Entering(1, 0, a, "UntrustedAdvice")'
      BY <1>10, <2>1 DEF Entering
    <2>4. q = 11 => Reading("Main", session.total, session.t)'
      BY <1>0, <1>6, <1>10
    <2> QED  BY <1>10, <2>1, <2>2, <2>3, <2>4 DEF ProveState
  <1>11. CASE todo' = todo /\ p = 11 /\ Reading("Main", v, t)'
    <2>1. ProveState(a, 11)'
      BY <1>10, <1>11
    <2> QED  BY <1>1, <1>8, <1>9, <1>11, <2>1, ProveOn
  <1>12. CASE todo' = Tail(todo) /\ p = 10 /\ Reading("Main", v, t)'
    <2>1. ProveState(a, p + 1)'
      BY <1>10, <1>12
    <2> QED  BY <1>1, <1>8, <1>9, <1>12, <2>1, ProveOn
  <1>13. CASE todo' = Tail(todo) /\ p = 11 /\ NoWorkers'
    <2>1. ProveState(a, p + 1)'
      BY <1>10, <1>13
    <2> QED  BY <1>1, <1>8, <1>9, <1>13, <2>1, ProveOn
  <1> QED  BY <1>7, <1>11, <1>12, <1>13

(* ... commits to the advice, ...                                          *)
LEMMA ProveAdvises ==
    ASSUME NEW a, NEW p \in 12 .. 18, a # Unset, Proving(a, p), Geometry, todo # <<>>, Next
    PROVE  Geometry' /\ \E q \in {p, p + 1} : Proving(a, q)'
  <1> DEFINE c == "UntrustedAdvice"
             i == p - 11
  <1>0. PICK k, t, v, l :
           k = session.k /\ t = session.t /\ v = session.total /\ l = session.layout
    OBVIOUS
  <1>1. /\ session # Idle /\ SessionSizes /\ ProveState(a, p) /\ ProveNext(a, p)
        /\ SessionOf("prove") /\ a \in Nat
    BY ProvePlace DEF Proving
  <1>2. /\ layout = l /\ session.hashed = layout /\ MainSet(7, k, t, v, l)
        /\ Entering(i, 0, a, c) /\ i \in 1 .. 7
        /\ IF p \in 16 .. 18 THEN Wanted(0 + a, a) ELSE Wanted(v, t)
    BY <1>0, <1>1 DEF ProveState, MainSet
  <1>3. Head(todo) = CommitAdvice(0, a, c)[i] /\ c \in Contexts \ {"Main"} /\ GlobalsTyped
    BY <1>1 DEF ProveNext, Contexts, Geometry
  <1> HIDE DEF c, i
  <1>4. /\ GlobalsTyped' /\ globals'["Main"] = globals["Main"]
        /\ UNCHANGED <<main, layout>>
        /\ \/ /\ todo' = todo /\ session' = session
              /\ i = 6 /\ Entering(i, 0, a, c)'
           \/ /\ todo' = Tail(todo) /\ Entering(i + 1, 0, a, c)'
              /\ session' = CASE i = 4 -> Wanting(0 + a, a)
                               [] i = 7 -> Wanting(session.total, session.t)
                               [] OTHER -> session
    BY <1>1, <1>2, <1>3, AdviceStep
  <1>5. /\ SessionOf("prove")' /\ SameSession
        /\ session'.hashed = session.hashed /\ session'.published = session.published
        /\ session'.embedded = session.embedded /\ session'.seen = session.seen
    <2>1. CASE session' = session
      BY <1>1, <2>1, SessionKept
    <2>2. CASE \E e : session' = [session EXCEPT !.want = e]
      <3>1. PICK e : session' = [session EXCEPT !.want = e]
        BY <2>2
      <3>2. SessionOf("prove")' /\ SameSession
        BY <1>1, <3>1, SessionKept
      <3> QED  BY <1>1, <3>1, <3>2 DEF SessionOf
    <2> QED  BY <1>4, <2>1, <2>2 DEF Wanting
  <1>6. Geometry'
    BY <1>1, <1>4, <1>5, GeometryKept DEF SameSession
  <1>7. MainSet(7, session.k, session.t, session.total, session.layout)'
    BY <1>0, <1>2, <1>4, <1>5 DEF MainSet, Sigma, Nu, SameSession
  <1>8. layout' = session'.layout /\ session'.hashed = layout'
    BY <1>0, <1>2, <1>4, <1>5 DEF SameSession
  <1>9. CASE todo' = todo /\ session' = session /\ i = 6 /\ Entering(i, 0, a, c)'
    <2>1. p = 17
      BY <1>9 DEF i
    <2>2. Wanted(0 + a, a)'
      BY <1>2, <1>9, <2>1 DEF Wanted
    <2>3. ProveState(a, p)'
      BY <1>1, <1>7, <1>8, <1>9, <2>1, <2>2 DEF ProveState, i, c, MainSet
    <2> QED  BY <1>1, <1>5, <1>6, <1>9, <2>3, ProveOn
  <1>10. CASE /\ todo' = Tail(todo) /\ Entering(i + 1, 0, a, c)'
              /\ session' = CASE i = 4 -> Wanting(0 + a, a)
                               [] i = 7 -> Wanting(session.total, session.t)
                               [] OTHER -> session
    <2>1. IF p + 1 \in 16 .. 18 THEN Wanted(0 + a, a)' ELSE Wanted(session.total, session.t)'
      <3>1. CASE i = 4
        <4>1. session'.want = [size |-> 0 + a, t |-> a]
          BY <1>1, <1>10, <3>1 DEF Wanting, SessionOf
        <4> QED  BY <3>1, <4>1 DEF Wanted, i
      <3>2. CASE i = 7
        <4>1. session'.want = [size |-> session.total, t |-> session.t]
          BY <1>1, <1>10, <3>2 DEF Wanting, SessionOf
        <4> QED  BY <1>5, <3>2, <4>1 DEF Wanted, i, SameSession
      <3>3. CASE i \notin {4, 7}
        <4>1. session' = session
          BY <1>10, <3>3
        <4> QED  BY <1>0, <1>2, <3>3, <4>1 DEF Wanted, i
      <3> QED  BY <3>1, <3>2, <3>3
    <2>2. (p + 1) - 11 = i + 1 /\ p + 1 \in 13 .. 19
      BY DEF i
    <2>3. ProveState(a, p + 1)'
      BY <1>1, <1>7, <1>8, <1>10, <2>1, <2>2 DEF ProveState, c, MainSet
    <2> QED  BY <1>1, <1>5, <1>6, <1>10, <2>3, ProveOn
  <1> QED  BY <1>4, <1>9, <1>10

(* ... and, after stage 6, names the layout.                               *)
LEMMA ProveEnds ==
    ASSUME NEW a, NEW p, Proving(a, p), Geometry, todo # <<>>, Next,
           IF a = Unset THEN p \in {12, 13} ELSE p \in {19, 20}
    PROVE  Geometry' /\ Proving(a, p + 1)'
  <1> DEFINE n == IF a = Unset THEN 13 ELSE 20
             seen == [k |-> main.k, columns |-> globals["Main"].columns,
                      t |-> globals["Main"].t, layout |-> layout]
  <1>0. PICK k, t, v, l :
           k = session.k /\ t = session.t /\ v = session.total /\ l = session.layout
    OBVIOUS
  <1>1. /\ session # Idle /\ SessionSizes /\ ProveState(a, p) /\ ProveNext(a, p)
        /\ SessionOf("prove") /\ a \in Nat \cup {Unset}
    BY ProvePlace DEF Proving
  <1>2. /\ layout = l /\ session.hashed = layout /\ MainSet(7, k, t, v, l)
        /\ Wanted(v, t) /\ context = "Main" /\ guard = Unset /\ NoWorkers
    BY <1>0, <1>1 DEF ProveState, MainSet, Entering
  <1>3. \/ p = n - 1 /\ Head(todo).op = "geometry"
        \/ p = n /\ Head(todo).op = "publish"
    BY <1>1 DEF ProveNext
  <1>4. /\ todo' = Tail(todo)
        /\ UNCHANGED <<globals, main, context, layout, guard, worker>>
        /\ session' = IF p = n THEN [session EXCEPT !.published = layout]
                               ELSE [session EXCEPT !.seen = seen]
    <2>1. CASE p = n - 1
      <3>1. Head(todo).op = "geometry" /\ p # n
        BY <1>3, <2>1
      <3> QED  BY <1>1, <1>2, <3>1, LookStep
    <2>2. CASE p = n
      <3>1. Head(todo).op = "publish"
        BY <1>3, <2>2
      <3> QED  BY <1>1, <1>2, <2>2, <3>1, LookStep
    <2> QED  BY <1>3, <2>1, <2>2
  <1>5. /\ seen.k = k /\ seen.t = t /\ seen.layout = l
        /\ 2 * seen.columns \in {v, v + 1}
    <2>1. /\ seen.k = main.k /\ seen.t = globals["Main"].t /\ seen.layout = layout
          /\ seen.columns = globals["Main"].columns
      OBVIOUS
    <2> HIDE DEF seen
    <2>2. 2 * Sigma(v) \in {v, v + 1}
      BY <1>0, <1>1, MatrixSides DEF SessionSizes
    <2>3. /\ main.k = k /\ globals["Main"].t = t
          /\ globals["Main"].columns = Sigma(v)
      BY <1>2 DEF MainSet
    <2> QED  BY <1>2, <2>1, <2>2, <2>3
  <1> HIDE DEF seen
  <1>6. /\ SessionOf("prove")' /\ SameSession
        /\ session'.hashed = session.hashed /\ session'.want = session.want
        /\ session'.embedded = session.embedded
        /\ session'.published = IF p = n THEN layout ELSE session.published
        /\ session'.seen = IF p = n THEN session.seen ELSE seen
    <2>1. SessionOf("prove")' /\ SameSession
      BY <1>1, <1>4, SessionKept
    <2>2. CASE p = n
      BY <1>1, <1>4, <2>1, <2>2 DEF SessionOf
    <2>3. CASE p # n
      BY <1>1, <1>4, <2>1, <2>3 DEF SessionOf
    <2> QED  BY <2>2, <2>3
  <1>7. ProveState(a, p + 1)'
    <2>1. MainSet((p + 1) - 2, session.k, session.t, session.total, session.layout)'
      BY <1>0, <1>1, <1>2, <1>4, <1>6 DEF MainSet, Sigma, Nu, SameSession
    <2>2. /\ layout' = session'.layout /\ session'.hashed = layout'
          /\ Wanted(session.total, session.t)' /\ context' = "Main" /\ guard' = Unset
          /\ NoWorkers'
      BY <1>0, <1>2, <1>4, <1>6 DEF SameSession, Wanted, NoWorkers
    <2>3. p + 1 \in {13, 14, 20, 21} /\ (a # Unset => p + 1 \notin 12 .. 19)
      OBVIOUS
    <2> QED  BY <2>1, <2>2, <2>3 DEF ProveState
  <1>8. Geometry'
    BY <1>0, <1>1, <1>2, <1>4, <1>5, <1>6
    DEF Geometry, GlobalsTyped, SameGeometry, ProofLayout, SameSession
  <1>9. Proving(a, p + 1)'
    BY <1>1, <1>4, <1>6, <1>7, ProveOn
  <1> QED  BY <1>8, <1>9
(* In all, every access of a prover leads to the next position.            *)
LEMMA ProveStep ==
    ASSUME NEW a, NEW p, Proving(a, p), Geometry, todo # <<>>, Next
    PROVE  Geometry' /\ \E q \in {p, p + 1} : Proving(a, q)'
  <1>1. ProveNext(a, p)
    BY ProvePlace
  <1>2. p \in 1 .. IF a = Unset THEN 13 ELSE 20
    BY <1>1 DEF ProveNext
  <1>3. CASE p = 1
    BY <1>3, ProveHashes
  <1>4. CASE p \in 2 .. 8
    BY <1>4, ProveInitialises
  <1>5. CASE p = 9
    BY <1>5, ProveEmbeds
  <1>6. CASE p \in {10, 11}
    BY <1>6, ProveCommits
  <1>7. CASE p \in 12 .. 18 /\ a # Unset
    BY <1>7, ProveAdvises
  <1>8. CASE IF a = Unset THEN p \in {12, 13} ELSE p \in {19, 20}
    BY <1>8, ProveEnds
  <1> QED  BY <1>2, <1>3, <1>4, <1>5, <1>6, <1>7, <1>8

-----------------------------------------------------------------------------
(* Verifying.                                                              *)

AtRest == context = "Main" /\ guard = Unset /\ NoWorkers

(* A verifier at position p of its script.                                 *)
VerifySet(p) ==
    IF p \in 1 .. 8
    THEN MainSet(p - 1, session.k, session.t, session.k + session.t, session.layout)
    ELSE MainSet(p - 9, session.k, session.t, session.total, session.layout)

Verifying(p) ==
    /\ SessionOf("verify") /\ AtRest
    /\ Scripted(Verify(session.k, session.t, session.total, session.layout), p)
    /\ VerifySet(p)

(* A verification that a stage has refused.                                *)
Refused == SessionOf("verify") /\ AtRest /\ todo = <<>>

(* What a verifier does next.                                              *)
VerifyNext(p) ==
    /\ p \in 1 .. 17
    /\ p \in 1 .. 7 => Head(todo) = InitializeMain(session.k, session.t,
                                       session.k + session.t, session.layout)[p]
    /\ p \in 9 .. 15 => Head(todo) = InitializeMain(session.k, session.t,
                                       session.total, session.layout)[p - 8]
    /\ p \in {8, 17} => Head(todo).op = "check"
    /\ p = 16 => Head(todo).op = "geometry"

(* A verifier knows what comes next.                                       *)
LEMMA VerifyPlace ==
    ASSUME NEW p, Verifying(p)
    PROVE  /\ session # Idle /\ SessionSizes
           /\ Verify(session.k, session.t, session.total, session.layout) \in Seq(Access)
           /\ p \in 1 .. 18
           /\ todo # <<>> => VerifyNext(p)
  <1> DEFINE s == Verify(session.k, session.t, session.total, session.layout)
             m == InitializeMain(session.k, session.t, session.k + session.t, session.layout)
             n == InitializeMain(session.k, session.t, session.total, session.layout)
  <1>1. SessionOf("verify") /\ Scripted(s, p)
    BY DEF Verifying
  <1>2. session # Idle /\ SessionSizes
    BY <1>1, NotIdle
  <1>a. /\ session.k \in Nat /\ session.t \in Nat /\ session.total \in Nat
        /\ session.total >= session.k /\ session.layout \in Layouts
    BY <1>2 DEF SessionSizes
  <1>3. s \in Seq(Access) /\ IsVerify(s, session.k, session.t, session.total, session.layout)
    BY <1>a, VerifyOps
  <1> HIDE DEF s
  <1>4. Len(s) = 17 /\ p \in 1 .. 18
    BY <1>1, <1>3 DEF IsVerify, Scripted
  <1>5. ASSUME todo # <<>> PROVE VerifyNext(p)
    <2>1. p \in 1 .. 17 /\ Head(todo) = s[p]
      BY <1>1, <1>3, <1>4, <1>5, Advance
    <2>2. /\ \A i \in 1 .. 7 : s[i] = m[i]
          /\ \A i \in 1 .. 7 : s[i + 8] = n[i]
          /\ s[8].op = "check" /\ s[16].op = "geometry" /\ s[17].op = "check"
      BY <1>3 DEF IsVerify
    <2>3. /\ m = InitializeMain(session.k, session.t, session.k + session.t, session.layout)
          /\ n = InitializeMain(session.k, session.t, session.total, session.layout)
      OBVIOUS
    <2> HIDE DEF m, n
    <2>4. p \in 9 .. 15 => Head(todo) = n[p - 8]
      <3> SUFFICES ASSUME p \in 9 .. 15 PROVE Head(todo) = n[p - 8]
        OBVIOUS
      <3>1. p - 8 \in 1 .. 7 /\ (p - 8) + 8 = p
        OBVIOUS
      <3> QED  BY <2>1, <2>2, <3>1
    <2> QED  BY <2>1, <2>2, <2>3, <2>4 DEF VerifyNext
  <1> QED  BY <1>2, <1>3, <1>4, <1>5 DEF s

(* It goes on.                                                             *)
LEMMA VerifyOn ==
    ASSUME NEW p, Verifying(p), todo # <<>>, SameSession, SessionOf("verify")',
           todo' = Tail(todo), AtRest', VerifySet(p + 1)'
    PROVE  Verifying(p + 1)'
  <1> PICK s : s = Verify(session.k, session.t, session.total, session.layout)
    OBVIOUS
  <1>1. s \in Seq(Access) /\ Scripted(s, p)
    BY VerifyPlace DEF Verifying
  <1>2. s = Verify(session'.k, session'.t, session'.total, session'.layout)
    BY DEF SameSession
  <1>3. Scripted(s, p + 1)'
    BY <1>1, Advance
  <1> QED  BY <1>2, <1>3 DEF Verifying

(* Both times, a verifier initialises the matrix ...                       *)
LEMMA VerifyInitialises ==
    ASSUME NEW p \in (1 .. 7) \cup (9 .. 15), Verifying(p), Geometry, todo # <<>>, Next
    PROVE  Geometry' /\ Verifying(p + 1)'
  <1>0. PICK k, t, l, v, j :
           /\ k = session.k /\ t = session.t /\ l = session.layout
           /\ v = IF p \in 1 .. 7 THEN session.k + session.t ELSE session.total
           /\ j = IF p \in 1 .. 7 THEN p ELSE p - 8
    OBVIOUS
  <1>1. /\ session # Idle /\ SessionSizes /\ VerifyNext(p) /\ SessionOf("verify")
        /\ AtRest /\ VerifySet(p)
    BY VerifyPlace DEF Verifying
  <1>2. k \in Nat /\ t \in Nat /\ v \in Nat /\ v >= k /\ l \in Layouts /\ j \in 1 .. 7
    BY <1>0, <1>1 DEF SessionSizes
  <1>3. Head(todo) = InitializeMain(k, t, v, l)[j]
    BY <1>0, <1>1 DEF VerifyNext
  <1>4. MainSet(j - 1, k, t, v, l)
    BY <1>0, <1>1 DEF VerifySet
  <1>5. GlobalsTyped /\ NoWorkers /\ context = "Main"
    BY <1>1 DEF Geometry, AtRest
  <1>6. /\ todo' = Tail(todo) /\ GlobalsTyped'
        /\ UNCHANGED <<context, guard, session, worker>>
    BY <1>1, <1>2, <1>3, <1>4, <1>5, MainStep
  <1>7. MainSet(j, k, t, v, l)'
    BY <1>1, <1>2, <1>3, <1>4, <1>5, MainStep
  <1>8. SessionOf("verify")' /\ SameSession
    BY <1>1, <1>6, SessionKept
  <1>9. AtRest'
    BY <1>1, <1>6 DEF AtRest, NoWorkers
  <1>10. VerifySet(p + 1)'
    BY <1>0, <1>6, <1>7 DEF VerifySet
  <1>11. Verifying(p + 1)'
    BY <1>6, <1>8, <1>9, <1>10, VerifyOn
  <1>12. Geometry'
    BY <1>1, <1>6, GeometryKept
  <1> QED  BY <1>11, <1>12

(* ... and a stage accepts or refuses; ...                                 *)
LEMMA VerifyChecks ==
    ASSUME NEW p \in {8, 17}, Verifying(p), Geometry, todo # <<>>, Next
    PROVE  Geometry' /\ (Verifying(p + 1)' \/ Refused')
  <1>1. /\ session # Idle /\ Head(todo).op = "check" /\ SessionOf("verify") /\ AtRest
    BY VerifyPlace DEF VerifyNext, Verifying
  <1>2. Check
    BY <1>1, NobodyWorks, SessionSteps DEF AtRest
  <1>3. /\ UNCHANGED <<globals, main, context, layout, guard, session, worker>>
        /\ todo' = Tail(todo) \/ todo' = <<>>
    BY <1>2 DEF Check
  <1>4. SessionOf("verify")' /\ SameSession
    BY <1>1, <1>3, SessionKept
  <1>5. AtRest'
    BY <1>1, <1>3 DEF AtRest, NoWorkers
  <1>6. Geometry'
    BY <1>1, <1>3, GeometryKept DEF Geometry, GlobalsTyped
  <1>7. VerifySet(p + 1)'
    <2>1. CASE p = 8
      BY <2>1 DEF VerifySet, MainSet
    <2>2. CASE p = 17
      <3>1. MainSet(8, session.k, session.t, session.total, session.layout)
        BY <2>2 DEF Verifying, VerifySet
      <3>2. MainSet(9, session.k, session.t, session.total, session.layout)'
        BY <1>3, <3>1 DEF MainSet, Sigma, Nu
      <3> QED  BY <2>2, <3>2 DEF VerifySet
    <2> QED  BY <2>1, <2>2
  <1>8. todo' = Tail(todo) => Verifying(p + 1)'
    BY <1>4, <1>5, <1>7, VerifyOn
  <1>9. todo' = <<>> => Refused'
    BY <1>4, <1>5 DEF Refused
  <1> QED  BY <1>3, <1>6, <1>8, <1>9

(* ... stage 6 reads the geometry in the second one.                       *)
LEMMA VerifyLooks ==
    ASSUME Verifying(16), Geometry, todo # <<>>, Next
    PROVE  Geometry' /\ Verifying(17)'
  <1> DEFINE seen == [k |-> main.k, columns |-> globals["Main"].columns,
                      t |-> globals["Main"].t, layout |-> layout]
  <1>0. PICK k, t, v, l :
           k = session.k /\ t = session.t /\ v = session.total /\ l = session.layout
    OBVIOUS
  <1>1. /\ session # Idle /\ SessionSizes /\ Head(todo).op = "geometry"
        /\ SessionOf("verify") /\ AtRest
    BY VerifyPlace DEF VerifyNext, Verifying
  <1>2. MainSet(7, k, t, v, l)
    BY <1>0 DEF Verifying, VerifySet
  <1>3. /\ todo' = Tail(todo) /\ session' = [session EXCEPT !.seen = seen]
        /\ UNCHANGED <<globals, main, context, layout, guard, worker>>
    BY <1>1, LookStep DEF AtRest
  <1>4. /\ seen.k = k /\ seen.t = t /\ seen.layout = l
        /\ 2 * seen.columns \in {v, v + 1}
    <2>1. /\ seen.k = main.k /\ seen.t = globals["Main"].t /\ seen.layout = layout
          /\ seen.columns = globals["Main"].columns
      OBVIOUS
    <2> HIDE DEF seen
    <2>2. 2 * Sigma(v) \in {v, v + 1}
      BY <1>0, <1>1, MatrixSides DEF SessionSizes
    <2>3. /\ main.k = k /\ globals["Main"].t = t /\ layout = l
          /\ globals["Main"].columns = Sigma(v)
      BY <1>2 DEF MainSet
    <2> QED  BY <2>1, <2>2, <2>3
  <1> HIDE DEF seen
  <1>5. SessionOf("verify")' /\ SameSession
    BY <1>1, <1>3, SessionKept
  <1>6. /\ session'.hashed = session.hashed /\ session'.published = session.published
        /\ session'.embedded = session.embedded /\ session'.seen = seen
    BY <1>1, <1>3 DEF SessionOf
  <1>7. AtRest'
    BY <1>1, <1>3 DEF AtRest, NoWorkers
  <1>8. VerifySet(16 + 1)'
    <2>1. MainSet(8, session.k, session.t, session.total, session.layout)'
      BY <1>0, <1>2, <1>3, <1>5 DEF MainSet, SameSession, Sigma, Nu
    <2> QED  BY <2>1 DEF VerifySet
  <1>9. Verifying(16 + 1)'
    BY <1>3, <1>5, <1>7, <1>8, VerifyOn
  <1>10. Geometry'
    BY <1>0, <1>1, <1>3, <1>4, <1>5, <1>6
    DEF Geometry, GlobalsTyped, SameGeometry, ProofLayout, SameSession
  <1> QED  BY <1>9, <1>10

(* In all, a verifier goes on or is refused.                               *)
LEMMA VerifyStep ==
    ASSUME NEW p, Verifying(p), Geometry, todo # <<>>, Next
    PROVE  Geometry' /\ (Verifying(p + 1)' \/ Refused')
  <1>1. p \in 1 .. 17
    BY VerifyPlace DEF VerifyNext
  <1>2. CASE p \in (1 .. 7) \cup (9 .. 15)
    BY <1>2, VerifyInitialises
  <1>3. CASE p \in {8, 17}
    BY <1>3, VerifyChecks
  <1>4. CASE p = 16
    BY <1>4, VerifyLooks
  <1> QED  BY <1>1, <1>2, <1>3, <1>4
-----------------------------------------------------------------------------
(* Committing ahead of time.                                               *)

(* A commitment in context c at position p of its script.                  *)
Committing(c, p) ==
    /\ SessionOf("commit") /\ session.total = session.k + session.t
    /\ c \in Contexts \ {"Main"}
    /\ Scripted(CommitAdvice(session.k, session.t, c), p)
    /\ Entering(p, session.k, session.t, c)
    /\ Wanted(session.k + session.t, session.t)

(* A commitment knows what comes next, and where it ends.                  *)
LEMMA CommitPlace ==
    ASSUME NEW c, NEW p, Committing(c, p)
    PROVE  /\ session # Idle /\ SessionSizes
           /\ CommitAdvice(session.k, session.t, c) \in Seq(Access)
           /\ p \in 1 .. 8
           /\ todo # <<>> => /\ p \in 1 .. 7
                             /\ Head(todo) = CommitAdvice(session.k, session.t, c)[p]
           /\ todo = <<>> => p = 8
  <1> DEFINE s == CommitAdvice(session.k, session.t, c)
  <1>1. SessionOf("commit") /\ c \in Contexts /\ Scripted(s, p)
    BY DEF Committing
  <1>2. session # Idle /\ SessionSizes
    BY <1>1, NotIdle
  <1>3. session.k \in Nat /\ session.t \in Nat
    BY <1>2 DEF SessionSizes
  <1>4. s \in Seq(Access) /\ Len(s) = 7
    BY <1>1, <1>3, AdviceOps
  <1> HIDE DEF s
  <1>5. p \in 1 .. 8 /\ todo = SubSeq(s, p, Len(s))
    BY <1>1, <1>4 DEF Scripted
  <1>6. p <= 7 => todo # <<>> /\ Head(todo) = s[p]
    <2>1. p \in 1 .. Len(s) + 1
      BY <1>4, <1>5
    <2> QED  BY <1>4, <1>5, <2>1, NextAccess
  <1>7. p = 8 => todo = <<>>
    BY <1>1, <1>4, Advance
  <1> QED  BY <1>2, <1>4, <1>5, <1>6, <1>7 DEF s

(* Every access of a commitment leads to the next position.                *)
LEMMA CommitStep ==
    ASSUME NEW c, NEW p, Committing(c, p), Geometry, todo # <<>>, Next
    PROVE  Geometry' /\ \E q \in {p, p + 1} : Committing(c, q)'
  <1>0. PICK k, t : k = session.k /\ t = session.t
    OBVIOUS
  <1> PICK s : s = CommitAdvice(k, t, c)
    OBVIOUS
  <1>1. /\ session # Idle /\ SessionSizes /\ s \in Seq(Access) /\ p \in 1 .. 7
        /\ Head(todo) = CommitAdvice(k, t, c)[p]
    BY <1>0, CommitPlace
  <1>2. /\ SessionOf("commit") /\ session.total = k + t /\ c \in Contexts \ {"Main"}
        /\ Scripted(s, p) /\ Entering(p, k, t, c) /\ Wanted(k + t, t)
    BY <1>0 DEF Committing
  <1>3. k \in Nat /\ t \in Nat
    BY <1>0, <1>1 DEF SessionSizes
  <1>4. GlobalsTyped
    BY DEF Geometry
  <1>5. /\ GlobalsTyped' /\ UNCHANGED <<main, layout>>
        /\ \/ /\ todo' = todo /\ session' = session
              /\ p = 6 /\ Entering(p, k, t, c)'
           \/ /\ todo' = Tail(todo) /\ Entering(p + 1, k, t, c)'
              /\ session' = CASE p = 4 -> Wanting(k + t, t)
                               [] p = 7 -> Wanting(session.total, session.t)
                               [] OTHER -> session
    BY <1>1, <1>2, <1>3, <1>4, AdviceStep
  <1>6. session' = session \/ session' = [session EXCEPT !.want = [size |-> k + t, t |-> t]]
    BY <1>0, <1>2, <1>5 DEF Wanting
  <1>7. SessionOf("commit")' /\ SameSession
    BY <1>2, <1>6, SessionKept
  <1>8. /\ session'.hashed = session.hashed /\ session'.published = session.published
        /\ session'.embedded = session.embedded /\ session'.seen = session.seen
        /\ session'.want = [size |-> k + t, t |-> t]
    BY <1>2, <1>6 DEF SessionOf, Wanted
  <1>9. Geometry'
    BY <1>1, <1>5, <1>7, <1>8, GeometryKept DEF SameSession
  <1>10. ASSUME NEW q, Scripted(s, q)', Entering(q, k, t, c)' PROVE Committing(c, q)'
    <2>1. /\ session'.k = k /\ session'.t = t /\ session'.total = k + t
      BY <1>0, <1>2, <1>7 DEF SameSession
    <2>2. Wanted(session.k + session.t, session.t)'
      BY <1>8, <2>1 DEF Wanted
    <2>3. s = CommitAdvice(session'.k, session'.t, c)
      BY <2>1
    <2>4. Entering(q, session.k, session.t, c)'
      BY <1>10, <2>1
    <2> QED  BY <1>2, <1>7, <1>10, <2>1, <2>2, <2>3, <2>4 DEF Committing
  <1>11. CASE todo' = todo /\ Entering(p, k, t, c)'
    <2>1. Scripted(s, p)'
      BY <1>1, <1>2, <1>11, Advance
    <2> QED  BY <1>9, <1>10, <1>11, <2>1
  <1>12. CASE todo' = Tail(todo) /\ Entering(p + 1, k, t, c)'
    <2>1. Scripted(s, p + 1)'
      BY <1>1, <1>2, <1>12, Advance
    <2> QED  BY <1>9, <1>10, <1>12, <2>1
  <1> QED  BY <1>5, <1>11, <1>12

-----------------------------------------------------------------------------
(* The inductive invariant: no session is under way, or one is, at some    *)
(* position of its script, and what it has read so far is right.           *)
Underway ==
    \/ session = Idle /\ todo = <<>> /\ AtRest
    \/ \E a \in Opt(Ts), p \in 1 .. 21 : Proving(a, p)
    \/ \E p \in 1 .. 18 : Verifying(p)
    \/ Refused
    \/ \E c \in Contexts, p \in 1 .. 8 : Committing(c, p)

IInv == Geometry /\ Underway

(* It holds at first.                                                      *)
LEMMA InitIInv == Init => IInv
  <1> SUFFICES ASSUME Init PROVE IInv
    OBVIOUS
  <1>1. AtRest
    BY DEF Init, AtRest, NoWorkers
  <1>2. GlobalsTyped
    BY DEF Init, GlobalsTyped, Opt, Layouts
  <1> QED  BY <1>1, <1>2 DEF Init, IInv, Underway, Geometry, SameGeometry, ProofLayout

(* A session starts at the beginning of its script, having read nothing.   *)
LEMMA Started ==
    ASSUME Geometry, AtRest, NEW kind, NEW k \in Nat, NEW t \in Nat, NEW v \in Nat, v >= k + t,
           NEW l \in Layouts, NEW s \in Seq(Access), Start(kind, k, t, v, l, s)
    PROVE  /\ Geometry' /\ AtRest' /\ SessionOf(kind)' /\ Scripted(s, 1)'
           /\ session'.k = k /\ session'.t = t /\ session'.total = v
           /\ session'.layout = l /\ layout' = layout
           /\ session'.want = [size |-> v, t |-> t] /\ session'.published = Unset
  <1>1. /\ session' = [kind |-> kind, k |-> k, t |-> t, total |-> v,
                       want |-> [size |-> v, t |-> t], layout |-> l, hashed |-> Unset,
                       seen |-> Unset, embedded |-> Unset, published |-> Unset]
        /\ todo' = s
        /\ UNCHANGED <<globals, main, context, layout, guard, worker>>
    BY DEF Start
  <1>2. /\ session'.k = k /\ session'.t = t /\ session'.total = v
        /\ session'.layout = l /\ session'.want = [size |-> v, t |-> t]
        /\ session'.hashed = Unset /\ session'.seen = Unset
        /\ session'.embedded = Unset /\ session'.published = Unset
    BY <1>1
  <1>3. SessionOf(kind)'
    BY <1>1, <1>2 DEF SessionOf, SessionSizes
  <1>4. Geometry'
    BY <1>1, <1>2 DEF Geometry, GlobalsTyped, SameGeometry, ProofLayout
  <1>5. AtRest'
    BY <1>1 DEF AtRest, NoWorkers
  <1>6. Scripted(s, 1)'
    <2>1. Len(s) \in Nat /\ SubSeq(s, 1, Len(s)) = s
      BY LenProperties, SubSeqFull
    <2> QED  BY <1>1, <2>1 DEF Scripted
  <1> QED  BY <1>1, <1>2, <1>3, <1>4, <1>5, <1>6

(* A session that starts is at the first position of its script.           *)
LEMMA StartStep ==
    ASSUME IInv, session = Idle, Next
    PROVE  IInv'
  <1>1. Geometry /\ AtRest /\ todo = <<>> /\ layout \in Layouts
    <2>1. ASSUME NEW a, NEW p, Proving(a, p) PROVE FALSE
      BY <2>1, ProvePlace
    <2>2. ASSUME NEW p, Verifying(p) PROVE FALSE
      BY <2>2, VerifyPlace
    <2>3. ASSUME NEW c, NEW p, Committing(c, p) PROVE FALSE
      BY <2>3, CommitPlace
    <2>4. ~Refused
      BY NotIdle DEF Refused
    <2> QED  BY <2>1, <2>2, <2>3, <2>4 DEF IInv, Underway, Geometry, GlobalsTyped
  <1>2. StartProve \/ StartVerify \/ StartCommit
    <2>1. ~ \E w \in Workers : LoadContext(w) \/ ReadParameter(w)
      BY <1>1, NobodyWorks DEF AtRest
    <2> QED
      BY <1>1, <2>1 DEF Next, SetParameter, SetMain, SetLayout, SetMainContext, WithContext,
         DropGuard, Fork, Join, Look, Check, Finish, Do
  <1>3. CASE StartProve
    <2>1. PICK k \in Ks, t \in Ts, x \in Extra, a \in Ts \cup {Unset} :
             Start("prove", k, t, k + t + x, layout, Prove(k, t, k + t + x, a))
      BY <1>3 DEF StartProve
    <2>2. PICK v : v = k + t + x
      OBVIOUS
    <2>3. k \in Nat /\ t \in Nat /\ v \in Nat /\ v >= k /\ v >= k + t /\ a \in Nat \cup {Unset}
      BY <2>2, SizesAssumption
    <2>4. PICK s, l : s = ProveScript(k, t, v, layout, a) /\ l = layout
      OBVIOUS
    <2>5. s = Prove(k, t, v, a)
      BY <2>4 DEF Prove, ProveScript
    <2>6. s \in Seq(Access) /\ l \in Layouts
      BY <1>1, <2>3, <2>4, ProveOps
    <2>7. Start("prove", k, t, v, l, s)
      BY <2>1, <2>2, <2>4, <2>5
    <2>8. /\ Geometry' /\ AtRest' /\ SessionOf("prove")' /\ Scripted(s, 1)'
          /\ session'.k = k /\ session'.t = t /\ session'.total = v
          /\ session'.layout = l /\ layout' = layout
          /\ session'.want = [size |-> v, t |-> t] /\ session'.published = Unset
      BY <1>1, <2>3, <2>6, <2>7, Started
    <2>9. s = ProveScript(session'.k, session'.t, session'.total, session'.layout, a)
      BY <2>4, <2>8
    <2>10. ProveState(a, 1)'
      BY <2>4, <2>8 DEF ProveState, MainSet, AtRest, Wanted
    <2>11. Proving(a, 1)'
      BY <2>3, <2>8, <2>9, <2>10 DEF Proving
    <2>12. a \in Opt(Ts) /\ 1 \in 1 .. 21
      BY DEF Opt
    <2> QED  BY <2>8, <2>11, <2>12 DEF IInv, Underway
  <1>4. CASE StartVerify
    <2>1. PICK k \in Ks, t \in Ts, x \in Extra, l \in Layouts :
             Start("verify", k, t, k + t + x, l, Verify(k, t, k + t + x, l))
      BY <1>4 DEF StartVerify
    <2>2. PICK v : v = k + t + x
      OBVIOUS
    <2>3. k \in Nat /\ t \in Nat /\ v \in Nat /\ v >= k /\ v >= k + t
      BY <2>2, SizesAssumption
    <2>4. PICK s : s = Verify(k, t, v, l)
      OBVIOUS
    <2>5. s \in Seq(Access)
      BY <2>3, <2>4, VerifyOps
    <2>6. Start("verify", k, t, v, l, s)
      BY <2>1, <2>2, <2>4
    <2>7. /\ Geometry' /\ AtRest' /\ SessionOf("verify")' /\ Scripted(s, 1)'
          /\ session'.k = k /\ session'.t = t /\ session'.total = v
          /\ session'.layout = l
      BY <1>1, <2>3, <2>5, <2>6, Started
    <2>8. VerifySet(1)'
      BY DEF VerifySet, MainSet
    <2>9. Verifying(1)'
      BY <2>4, <2>7, <2>8 DEF Verifying
    <2> QED  BY <2>7, <2>9 DEF IInv, Underway
  <1>5. CASE StartCommit
    <2>1. PICK k \in Ks \cup {0}, t \in Ts, c \in Contexts \ {"Main"} :
             Start("commit", k, t, k + t, layout, CommitAdvice(k, t, c))
      BY <1>5 DEF StartCommit
    <2>2. PICK v : v = k + t
      OBVIOUS
    <2>3. k \in Nat /\ t \in Nat /\ v \in Nat /\ v >= k + t
      BY <2>2, SizesAssumption
    <2>4. PICK s : s = CommitAdvice(k, t, c)
      OBVIOUS
    <2>5. s \in Seq(Access)
      BY <2>3, <2>4, AdviceOps
    <2>6. Start("commit", k, t, v, layout, s)
      BY <2>1, <2>2, <2>4
    <2>7. /\ Geometry' /\ AtRest' /\ SessionOf("commit")' /\ Scripted(s, 1)'
          /\ session'.k = k /\ session'.t = t /\ session'.total = v
          /\ session'.want = [size |-> v, t |-> t]
      BY <1>1, <2>3, <2>5, <2>6, Started
    <2>8. Entering(1, k, t, c)'
      BY <2>7 DEF Entering, AtRest
    <2>9. Committing(c, 1)'
      BY <2>2, <2>4, <2>7, <2>8 DEF Committing, Wanted
    <2> QED  BY <2>7, <2>9 DEF IInv, Underway
  <1> QED  BY <1>2, <1>3, <1>4, <1>5

(* A session that has made all its accesses leaves nothing behind.         *)
LEMMA FinishStep ==
    ASSUME IInv, session # Idle, todo = <<>>, Next
    PROVE  IInv'
  <1>1. AtRest
    <2>1. ASSUME NEW a, NEW p, Proving(a, p) PROVE AtRest
      <3>1. ProveState(a, p) /\ p = IF a = Unset THEN 14 ELSE 21
        BY <2>1, ProvePlace
      <3> QED  BY <3>1 DEF ProveState, AtRest
    <2>2. ASSUME NEW p, Verifying(p) PROVE AtRest
      BY <2>2 DEF Verifying
    <2>3. ASSUME NEW c, NEW p, Committing(c, p) PROVE AtRest
      <3>1. p = 8
        BY <2>3, CommitPlace
      <3> QED  BY <2>3, <3>1 DEF Committing, Entering, AtRest
    <2> QED  BY <2>1, <2>2, <2>3 DEF IInv, Underway, Refused
  <1>2. Finish
    <2>1. ~ \E w \in Workers : LoadContext(w) \/ ReadParameter(w)
      BY <1>1, NobodyWorks DEF AtRest
    <2> QED
      BY <2>1 DEF Next, SetParameter, SetMain, SetLayout, SetMainContext, WithContext,
         DropGuard, Fork, Join, Look, Check, StartProve, StartVerify, StartCommit, Start, Do
  <1>3. /\ session' = Idle /\ todo' = <<>>
        /\ UNCHANGED <<globals, main, context, layout, guard, worker>>
    BY <1>2 DEF Finish
  <1>4. AtRest'
    BY <1>1, <1>3 DEF AtRest, NoWorkers
  <1>5. Geometry'
    BY <1>3 DEF IInv, Geometry, GlobalsTyped, SameGeometry, ProofLayout
  <1> QED  BY <1>3, <1>4, <1>5 DEF IInv, Underway

(* Every step keeps it.                                                    *)
LEMMA StepIInv == IInv /\ [Next]_vars => IInv'
  <1> SUFFICES ASSUME IInv, [Next]_vars PROVE IInv'
    OBVIOUS
  <1>1. CASE UNCHANGED vars
    <2>1. /\ globals' = globals /\ main' = main /\ context' = context /\ layout' = layout
          /\ guard' = guard /\ session' = session /\ todo' = todo /\ worker' = worker
      BY <1>1 DEF vars
    <2>2. Geometry'
      BY <2>1 DEF IInv, Geometry, GlobalsTyped, SameGeometry, ProofLayout
    <2>3. AtRest' <=> AtRest
      BY <2>1 DEF AtRest, NoWorkers
    <2>4. ASSUME NEW j, NEW k, NEW t, NEW v, NEW l PROVE MainSet(j, k, t, v, l)' <=> MainSet(j, k, t, v, l)
      BY <2>1 DEF MainSet, Sigma, Nu
    <2>5. ASSUME NEW c, NEW v, NEW t PROVE Reading(c, v, t)' <=> Reading(c, v, t)
      BY <2>1 DEF Reading, Reads, Sigma, Nu
    <2>6. ASSUME NEW q, NEW k, NEW t, NEW c PROVE Entering(q, k, t, c)' <=> Entering(q, k, t, c)
      BY <2>1, <2>5 DEF Entering, NoWorkers, Sigma, Nu
    <2>7. ASSUME NEW a, NEW p, Proving(a, p) PROVE Proving(a, p)'
      BY <2>1, <2>4, <2>5, <2>6, <2>7
      DEF Proving, SessionOf, SessionSizes, Scripted, ProveState, NoWorkers, Wanted
    <2>8. ASSUME NEW p, Verifying(p) PROVE Verifying(p)'
      BY <2>1, <2>3, <2>4, <2>8 DEF Verifying, SessionOf, SessionSizes, Scripted, VerifySet
    <2>9. ASSUME NEW c, NEW p, Committing(c, p) PROVE Committing(c, p)'
      BY <2>1, <2>6, <2>9 DEF Committing, SessionOf, SessionSizes, Scripted, Wanted
    <2>10. Refused => Refused'
      BY <2>1, <2>3 DEF Refused, SessionOf, SessionSizes
    <2> QED  BY <2>1, <2>2, <2>3, <2>7, <2>8, <2>9, <2>10 DEF IInv, Underway
  <1>2. CASE Next /\ session = Idle
    BY <1>2, StartStep
  <1>3. CASE Next /\ session # Idle /\ todo = <<>>
    BY <1>3, FinishStep
  <1>4. CASE Next /\ session # Idle /\ todo # <<>>
    <2>1. Geometry
      BY DEF IInv
    <2>2. ASSUME NEW a \in Opt(Ts), NEW p \in 1 .. 21, Proving(a, p) PROVE IInv'
      <3>1. PICK q \in {p, p + 1} : Geometry' /\ Proving(a, q)'
        BY <1>4, <2>1, <2>2, ProveStep
      <3>2. p \in 1 .. 20
        <4>1. ProveNext(a, p)
          BY <1>4, <2>2, ProvePlace
        <4> QED  BY <4>1 DEF ProveNext
      <3>3. q \in 1 .. 21
        BY <3>1, <3>2
      <3> QED  BY <3>1, <3>3 DEF IInv, Underway
    <2>3. ASSUME NEW p \in 1 .. 18, Verifying(p) PROVE IInv'
      <3>1. Geometry' /\ (Verifying(p + 1)' \/ Refused')
        BY <1>4, <2>1, <2>3, VerifyStep
      <3>2. VerifyNext(p)
        BY <1>4, <2>3, VerifyPlace
      <3>3. p + 1 \in 1 .. 18
        BY <3>2 DEF VerifyNext
      <3> QED  BY <3>1, <3>3 DEF IInv, Underway
    <2>4. ASSUME NEW c \in Contexts, NEW p \in 1 .. 8, Committing(c, p) PROVE IInv'
      <3>1. PICK q \in {p, p + 1} : Geometry' /\ Committing(c, q)'
        BY <1>4, <2>1, <2>4, CommitStep
      <3>2. p \in 1 .. 7
        BY <1>4, <2>4, CommitPlace
      <3>3. q \in 1 .. 8
        BY <3>1, <3>2
      <3> QED  BY <3>1, <3>3 DEF IInv, Underway
    <2> QED  BY <1>4, <2>2, <2>3, <2>4 DEF IInv, Underway, Refused
  <1> QED  BY <1>1, <1>2, <1>3, <1>4

-----------------------------------------------------------------------------
(* What it implies.                                                        *)

(* Workers read the matrix that is wanted, or there are none at work.      *)
LEMMA WorkersRead ==
    ASSUME IInv
    PROVE  \/ NoWorkers
           \/ /\ session.want.size \in Nat /\ session.want.t \in Nat
              /\ \E c \in Contexts : Reading(c, session.want.size, session.want.t)
  <1>1. ASSUME NEW a, NEW p, Proving(a, p)
        PROVE  \/ NoWorkers
               \/ /\ session.want.size \in Nat /\ session.want.t \in Nat
                  /\ \E c \in Contexts : Reading(c, session.want.size, session.want.t)
    <2>1. ProveState(a, p) /\ SessionSizes /\ a \in Nat \cup {Unset}
      BY <1>1, ProvePlace
    <2>2. CASE a # Unset /\ p \in 12 .. 19
      <3>1. Entering(p - 11, 0, a, "UntrustedAdvice")
        BY <2>1, <2>2 DEF ProveState
      <3>2. CASE p = 17
        <4>1. Reading("UntrustedAdvice", 0 + a, a)
          BY <3>1, <3>2 DEF Entering
        <4>2. Wanted(0 + a, a)
          BY <2>1, <2>2, <3>2 DEF ProveState
        <4>3. session.want.size = 0 + a /\ session.want.t = a
          BY <4>2 DEF Wanted
        <4> QED  BY <2>1, <2>2, <4>1, <4>3 DEF Contexts
      <3>3. CASE p # 17
        BY <2>2, <3>1, <3>3 DEF Entering
      <3> QED  BY <3>2, <3>3
    <2>3. CASE ~(a # Unset /\ p \in 12 .. 19)
      <3>1. CASE p = 11
        <4>1. Reading("Main", session.total, session.t) /\ Wanted(session.total, session.t)
          BY <2>1, <2>3, <3>1 DEF ProveState
        <4>2. session.want.size = session.total /\ session.want.t = session.t
          BY <4>1 DEF Wanted
        <4> QED  BY <2>1, <4>1, <4>2 DEF Contexts, SessionSizes
      <3>2. CASE p # 11
        BY <2>1, <2>3, <3>2 DEF ProveState
      <3> QED  BY <3>1, <3>2
    <2> QED  BY <2>2, <2>3
  <1>2. ASSUME NEW c \in Contexts, NEW p, Committing(c, p)
        PROVE  \/ NoWorkers
               \/ /\ session.want.size \in Nat /\ session.want.t \in Nat
                  /\ Reading(c, session.want.size, session.want.t)
    <2>1. /\ Entering(p, session.k, session.t, c) /\ Wanted(session.k + session.t, session.t)
          /\ SessionSizes
      BY <1>2, CommitPlace DEF Committing
    <2>2. session.want.size = session.k + session.t /\ session.want.t = session.t
      BY <2>1 DEF Wanted
    <2> QED  BY <2>1, <2>2 DEF Entering, SessionSizes
  <1> QED  BY <1>1, <1>2 DEF IInv, Underway, Refused, Verifying, AtRest

(* The context and the saved one are contexts.                             *)
LEMMA ContextTyped ==
    ASSUME IInv
    PROVE  context \in Contexts /\ guard \in Opt(Contexts)
  <1>1. AtRest => context \in Contexts /\ guard \in Opt(Contexts)
    BY DEF AtRest, Contexts, Opt
  <1>2. ASSUME NEW a, NEW p, Proving(a, p)
        PROVE  context \in Contexts /\ guard \in Opt(Contexts)
    <2>1. ProveState(a, p)
      BY <1>2, ProvePlace
    <2> QED  BY <2>1 DEF ProveState, Entering, Contexts, Opt
  <1>3. ASSUME NEW c \in Contexts, NEW p, Committing(c, p)
        PROVE  context \in Contexts /\ guard \in Opt(Contexts)
    BY <1>3 DEF Committing, Entering, Contexts, Opt
  <1> QED  BY <1>1, <1>2, <1>3 DEF IInv, Underway, Refused, Verifying

(* What a worker has read and what it has still to read are three.         *)
LEMMA ReadsThree ==
    ASSUME IInv, NEW w \in Workers
    PROVE  /\ worker[w].ctx \in Opt(Contexts)
           /\ Len(worker[w].got) + Len(worker[w].reads) \in {0, 3}
  <1>1. CASE NoWorkers
    BY <1>1 DEF NoWorkers, NoWorker, Opt
  <1>2. ASSUME NEW c \in Contexts, NEW v, NEW t, Reading(c, v, t)
        PROVE  /\ worker[w].ctx \in Opt(Contexts)
               /\ Len(worker[w].got) + Len(worker[w].reads) \in {0, 3}
    <2> PICK r : r = worker[w]
      OBVIOUS
    <2>1. Reads(r, c, v, t)
      BY <1>2 DEF Reading
    <2>2. r.ctx \in Opt(Contexts)
      BY <2>1 DEF Reads, Opt
    <2> PICK g, h, a, b : g = r.got /\ h = r.reads /\ a = Sigma(v) /\ b = Nu(v)
      OBVIOUS
    <2>3. \/ h = <<"columns", "rows", "t">> /\ g = <<>>
          \/ h = <<"rows", "t">> /\ g = <<a>>
          \/ h = <<"t">> /\ g = <<a, b>>
          \/ h = <<>> /\ g = <<a, b, t>>
      BY <2>1 DEF Reads
    <2>4. Len(g) + Len(h) = 3
      <3>1. CASE h = <<"columns", "rows", "t">> /\ g = <<>>
        BY <3>1
      <3>2. CASE h = <<"rows", "t">> /\ g = <<a>>
        BY <3>2
      <3>3. CASE h = <<"t">> /\ g = <<a, b>>
        BY <3>3
      <3>4. CASE h = <<>> /\ g = <<a, b, t>>
        BY <3>4
      <3> QED  BY <2>3, <3>1, <3>2, <3>3, <3>4
    <2> QED  BY <2>2, <2>4
  <1> QED  BY <1>1, <1>2, WorkersRead

(* What a worker has read in full is the matrix that is wanted.            *)
LEMMA ImpliesShape == IInv => CommitShape
  <1> SUFFICES ASSUME IInv, NEW w \in Workers, Len(worker[w].got) = 3
               PROVE  LET got == worker[w].got
                      IN  /\ got \in [1 .. 3 -> Nat]
                          /\ got[1] + got[2] = session.want.size
                          /\ got[1] - got[2] \in {0, 1}
                          /\ got[3] = session.want.t
    BY DEF CommitShape
  <1> PICK v, t : v = session.want.size /\ t = session.want.t
    OBVIOUS
  <1>1. ~NoWorkers
    BY DEF NoWorkers, NoWorker
  <1>2. v \in Nat /\ t \in Nat /\ \E c \in Contexts : Reading(c, v, t)
    BY <1>1, WorkersRead
  <1>3. PICK c \in Contexts : Reads(worker[w], c, v, t)
    BY <1>2 DEF Reading
  <1>4. worker[w].got = <<Sigma(v), Nu(v), t>>
    <2> PICK g, a, b : g = worker[w].got /\ a = Sigma(v) /\ b = Nu(v)
      OBVIOUS
    <2>1. Len(g) = 3
      OBVIOUS
    <2>2. g \in {<<>>, <<a>>, <<a, b>>, <<a, b, t>>}
      BY <1>3 DEF Reads
    <2> QED  BY <2>1, <2>2
  <1>5. Sigma(v) \in Nat /\ Nu(v) \in Nat /\ Sigma(v) + Nu(v) = v /\ Sigma(v) - Nu(v) \in {0, 1}
    BY <1>2, MatrixSides
  <1> QED  BY <1>2, <1>4, <1>5

(* An idle state is at rest.                                               *)
LEMMA ImpliesRestored == IInv => ContextRestored
  <1> SUFFICES ASSUME IInv PROVE ContextRestored
    OBVIOUS
  <1>1. TypeOK
    BY ContextTyped, ReadsThree DEF TypeOK, IInv, Geometry, GlobalsTyped
  <1>2. session = Idle => AtRest
    <2>1. ASSUME NEW a, NEW p, Proving(a, p) PROVE session # Idle
      BY <2>1, ProvePlace
    <2>2. ASSUME NEW p, Verifying(p) PROVE session # Idle
      BY <2>2, VerifyPlace
    <2>3. ASSUME NEW c, NEW p, Committing(c, p) PROVE session # Idle
      BY <2>3, CommitPlace
    <2> QED  BY <2>1, <2>2, <2>3 DEF IInv, Underway, Refused
  <1>3. AtRest => context = "Main" /\ guard = Unset /\ Working = {}
    BY DEF AtRest, NoWorkers, NoWorker, Working
  <1> QED  BY <1>1, <1>2, <1>3 DEF ContextRestored

-----------------------------------------------------------------------------
(* The invariant holds of every state.                                     *)
THEOREM Invariant == Spec => []IInv
  BY InitIInv, StepIInv, PTL DEF Spec

(* Whatever the number of workers, sizes and earlier sessions: every       *)
(* commitment is computed in the almost square matrix its session asked    *)
(* for, although each of its parameters is looked up on its own, under     *)
(* whatever context is current then.                                       *)
THEOREM CommitAlwaysShaped == Spec => []CommitShape
  BY Invariant, ImpliesShape, PTL

(* Prover and verifier reduce their openings in the geometry of the proof, *)
(* and the layout that the proof names is the one its transcript began     *)
(* with.                                                                   *)
THEOREM GeometryAlwaysAgrees == Spec => []GeometryAgrees
  <1>1. IInv => GeometryAgrees
    BY DEF IInv, Geometry, GeometryAgrees
  <1> QED  BY <1>1, Invariant, PTL

(* Between sessions the context is Main, no guard is left and nobody       *)
(* computes, also after a verification that stopped half-way.              *)
THEOREM ContextAlwaysRestored == Spec => []ContextRestored
  BY Invariant, ImpliesRestored, PTL
=============================================================================
