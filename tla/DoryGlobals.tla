----------------------------- MODULE DoryGlobals -----------------------------
(***************************************************************************)
(* The process-wide Dory parameters of                                     *)
(* poly/commitment/dory/dory_globals.rs and the sessions that use them:    *)
(* producing a proof, verifying one, and committing to advice or to a      *)
(* program ahead of time.  Each lock or atomic is written and read in a    *)
(* step of its own, and a commitment is computed by several workers (the   *)
(* par_iter of batch_commit and of the witness commitment), each of which  *)
(* looks up the current context again for every parameter it reads.        *)
(*                                                                         *)
(* Sessions do not overlap: the tests that use the globals are #[serial],  *)
(* and no caller in the code base starts a second session while one runs.  *)
(* Sizes are powers of two, and stand for their base-two logarithms.       *)
(***************************************************************************)
EXTENDS Integers, Sequences

CONSTANTS Workers,       \* threads of the pool that compute commitments
          Ks, Ts,        \* logarithms of K and of T
          Extra,         \* by how much the Main matrix may exceed K * T
          Unset          \* None

ASSUME SizesAssumption ==
    /\ Ks \subseteq Nat /\ Ts \subseteq Nat /\ Extra \subseteq Nat
    /\ Unset \notin Nat

Contexts == {"Main", "TrustedAdvice", "UntrustedAdvice"}
Layouts  == {"CycleMajor", "AddressMajor"}

VARIABLES globals,     \* context -> columns, T, rows, as they are stored
          main,        \* MAIN_K_CHUNK and MAIN_LOG_EMBEDDING
          context,     \* CURRENT_CONTEXT
          layout,      \* CURRENT_LAYOUT
          guard,       \* previous_context of the live guard, Unset if none
          session,     \* what the running session is about and has read
          todo,        \* the accesses it has still to make
          worker       \* worker -> what it has still to read, and has read

vars == <<globals, main, context, layout, guard, session, todo, worker>>

SaturatingSub(a, b) == IF a > b THEN a - b ELSE 0

(* Columns and rows of a matrix of 2^v entries. *)
Sigma(v) == (v + 1) \div 2
Nu(v)    == v - Sigma(v)

-----------------------------------------------------------------------------
(* What each operation does, as the sequence of its accesses.              *)

Set(c, f, v) == [op |-> "set", ctx |-> c, field |-> f, value |-> v]

InitializeContextCommon(k, embedded, stored, c) ==
    <<Set(c, "columns", Sigma(k + embedded)), Set(c, "t", stored),
      Set(c, "rows", Nu(k + embedded))>>

InitializeMain(k, t, total, l) ==
    InitializeContextCommon(k, SaturatingSub(total, k), t, "Main")
        \o <<[op |-> "k", value |-> k], [op |-> "layout", value |-> l],
             [op |-> "main context"], [op |-> "embedding", value |-> total]>>

Commit == <<[op |-> "fork"], [op |-> "join"]>>

(* Commit to advice, or to a program, in the matrix of its own context. *)
CommitAdvice(k, t, c) ==
    InitializeContextCommon(k, t, t, c)
        \o <<[op |-> "enter", ctx |-> c, k |-> k, t |-> t]>>
        \o Commit \o <<[op |-> "drop"]>>

(* Mutant: the matrix is initialised in the default layout. *)
ProveDefaultLayout(k, t, total, advice) ==
    <<[op |-> "hash"]>> \o InitializeMain(k, t, total, "CycleMajor")
        \o <<[op |-> "embedded"]>> \o Commit
        \o (IF advice = Unset THEN <<>> ELSE CommitAdvice(0, advice, "UntrustedAdvice"))
        \o <<[op |-> "geometry"], [op |-> "publish"]>>

(* prove: hash the layout, commit to the witness and to the advice, read   *)
(* the geometry in stages 6 and 8, put the layout in the proof.            *)
Prove(k, t, total, advice) ==
    <<[op |-> "hash"]>> \o InitializeMain(k, t, total, layout)
        \o <<[op |-> "embedded"]>> \o Commit
        \o (IF advice = Unset THEN <<>> ELSE CommitAdvice(0, advice, "UntrustedAdvice"))
        \o <<[op |-> "geometry"], [op |-> "publish"]>>

(* Mutant: stage 6 keeps the matrix of K * T. *)
VerifyOnce(k, t, total, l) ==
    InitializeMain(k, t, k + t, l)
        \o <<[op |-> "check"], [op |-> "geometry"], [op |-> "check"]>>

(* verify: the matrix is first that of K * T, and that of the whole        *)
(* embedding from stage 6 on; any stage may refuse the proof.              *)
Verify(k, t, total, l) ==
    InitializeMain(k, t, k + t, l) \o <<[op |-> "check"]>>
        \o InitializeMain(k, t, total, l)
        \o <<[op |-> "geometry"], [op |-> "check"]>>

-----------------------------------------------------------------------------
Idle == [kind |-> "idle"]
NoWorker == [reads |-> <<>>, ctx |-> Unset, got |-> <<>>]

Init ==
    /\ globals = [c \in Contexts |->
                    [columns |-> Unset, t |-> Unset, rows |-> Unset]]
    /\ main = [k |-> Unset, embedding |-> 0]
    /\ context = "Main" /\ layout = "CycleMajor" /\ guard = Unset
    /\ session = Idle /\ todo = <<>>
    /\ worker = [w \in Workers |-> NoWorker]

(* want: the matrix a commitment is to be computed in now.  hashed, seen,  *)
(* embedded, published: what the session has read so far.                  *)
Start(kind, k, t, total, l, ops) ==
    /\ session = Idle
    /\ session' = [kind |-> kind, k |-> k, t |-> t, total |-> total,
                   want |-> [size |-> total, t |-> t], layout |-> l,
                   hashed |-> Unset,
                   seen |-> Unset, embedded |-> Unset, published |-> Unset]
    /\ todo' = ops
    /\ UNCHANGED <<globals, main, context, layout, guard, worker>>

StartProve ==
    \E k \in Ks, t \in Ts, x \in Extra, advice \in Ts \cup {Unset} :
        Start("prove", k, t, k + t + x, layout, Prove(k, t, k + t + x, advice))

StartVerify ==
    \E k \in Ks, t \in Ts, x \in Extra, l \in Layouts :
        Start("verify", k, t, k + t + x, l, Verify(k, t, k + t + x, l))

StartCommit ==
    \E k \in Ks \cup {0}, t \in Ts, c \in Contexts \ {"Main"} :
        Start("commit", k, t, k + t, layout, CommitAdvice(k, t, c))

Do(op) == todo # <<>> /\ Head(todo).op = op /\ todo' = Tail(todo)

SetParameter ==
    /\ Do("set")
    /\ globals' = [globals EXCEPT ![Head(todo).ctx][Head(todo).field] =
                       Head(todo).value]
    /\ UNCHANGED <<main, context, layout, guard, session, worker>>

SetMain ==
    /\ \/ Do("k") /\ main' = [main EXCEPT !.k = Head(todo).value]
       \/ Do("embedding") /\ main' = [main EXCEPT !.embedding = Head(todo).value]
    /\ UNCHANGED <<globals, context, layout, guard, session, worker>>

SetLayout ==
    /\ Do("layout")
    /\ layout' = Head(todo).value
    /\ UNCHANGED <<globals, main, context, guard, session, worker>>

SetMainContext ==
    /\ Do("main context")
    /\ context' = "Main"
    /\ UNCHANGED <<globals, main, layout, guard, session, worker>>

(* Mutant: the guard saves the context it has just set. *)
WithContextSavingNew ==
    /\ Do("enter")
    /\ guard' = Head(todo).ctx
    /\ context' = Head(todo).ctx
    /\ session' = [session EXCEPT !.want = [size |-> Head(todo).k + Head(todo).t,
                                           t |-> Head(todo).t]]
    /\ UNCHANGED <<globals, main, layout, worker>>

(* Mutant: the guard saves nothing. *)
WithContextUnsaved ==
    /\ Do("enter")
    /\ guard' = Unset
    /\ context' = Head(todo).ctx
    /\ session' = [session EXCEPT !.want = [size |-> Head(todo).k + Head(todo).t,
                                           t |-> Head(todo).t]]
    /\ UNCHANGED <<globals, main, layout, worker>>

WithContext ==
    /\ Do("enter")
    /\ guard' = context
    /\ context' = Head(todo).ctx
    /\ session' = [session EXCEPT !.want = [size |-> Head(todo).k + Head(todo).t,
                                           t |-> Head(todo).t]]
    /\ UNCHANGED <<globals, main, layout, worker>>

DropGuard ==
    /\ Do("drop")
    /\ context' = guard
    /\ guard' = Unset
    /\ session' = [session EXCEPT !.want = [size |-> session.total, t |-> session.t]]
    /\ UNCHANGED <<globals, main, layout, worker>>

Fork ==
    /\ Do("fork")
    /\ worker' = [w \in Workers |-> [NoWorker EXCEPT !.reads = <<"columns", "rows", "t">>]]
    /\ UNCHANGED <<globals, main, context, layout, guard, session>>

Working == {w \in Workers : worker[w].reads # <<>>}

(* Mutant: the commitments are not waited for. *)
JoinEarly ==
    /\ Do("join")
    /\ UNCHANGED <<globals, main, context, layout, guard, session, worker>>

Join ==
    /\ Working = {}
    /\ Do("join")
    /\ worker' = [w \in Workers |-> NoWorker]
    /\ UNCHANGED <<globals, main, context, layout, guard, session>>

LoadContext(w) ==
    /\ worker[w].reads # <<>> /\ worker[w].ctx = Unset
    /\ worker' = [worker EXCEPT ![w].ctx = context]
    /\ UNCHANGED <<globals, main, context, layout, guard, session, todo>>

ReadParameter(w) ==
    /\ worker[w].reads # <<>> /\ worker[w].ctx # Unset
    /\ worker' = [worker EXCEPT
                    ![w].got = Append(@, globals[worker[w].ctx][Head(worker[w].reads)]),
                    ![w].reads = Tail(@), ![w].ctx = Unset]
    /\ UNCHANGED <<globals, main, context, layout, guard, session, todo>>

(* get_main_log_embedding and main_embedding_extra_vars. *)
LogEmbedding ==
    IF main.embedding > 0 THEN main.embedding
                          ELSE globals["Main"].columns + globals["Main"].rows
ExtraVars == SaturatingSub(LogEmbedding, main.k + globals[context].t)

(* What the session itself reads: the layout for the transcript and for    *)
(* the proof, get_embedded_t before the witness commitments, and the       *)
(* geometry of stage 6.                                                    *)
Look ==
    /\ \/ Do("hash")    /\ session' = [session EXCEPT !.hashed = layout]
       \/ Do("publish") /\ session' = [session EXCEPT !.published = layout]
       \/ /\ Do("embedded")
          /\ session' = [session EXCEPT !.embedded =
               [t |-> globals[context].rows + globals[context].columns - main.k,
                extra |-> ExtraVars]]
       \/ /\ Do("geometry")
          /\ session' = [session EXCEPT !.seen =
               [k |-> main.k, columns |-> globals["Main"].columns,
                t |-> globals["Main"].t, layout |-> layout]]
    /\ UNCHANGED <<globals, main, context, layout, guard, worker>>

(* A stage of verify accepts, or returns its error. *)
Check ==
    /\ todo # <<>> /\ Head(todo).op = "check"
    /\ todo' \in {Tail(todo), <<>>}
    /\ UNCHANGED <<globals, main, context, layout, guard, session, worker>>

Finish ==
    /\ session # Idle /\ todo = <<>>
    /\ session' = Idle
    /\ UNCHANGED <<globals, main, context, layout, guard, todo, worker>>

Next ==
    \/ StartProve \/ StartVerify \/ StartCommit
    \/ SetParameter \/ SetMain \/ SetLayout \/ SetMainContext
    \/ WithContext \/ DropGuard \/ Fork \/ Join
    \/ \E w \in Workers : LoadContext(w) \/ ReadParameter(w)
    \/ Look \/ Check \/ Finish

Spec == Init /\ [][Next]_vars

-----------------------------------------------------------------------------
Opt(S) == S \cup {Unset}

(* Type invariant: every global is unset or a size, the context and the    *)
(* guard's saved context are contexts.                                     *)
TypeOK ==
    /\ globals \in [Contexts -> [columns : Opt(Nat), t : Opt(Nat), rows : Opt(Nat)]]
    /\ main \in [k : Opt(Nat), embedding : Nat]
    /\ context \in Contexts /\ layout \in Layouts /\ guard \in Opt(Contexts)
    /\ \A w \in Workers :
         /\ worker[w].ctx \in Opt(Contexts)
         /\ Len(worker[w].got) + Len(worker[w].reads) \in {0, 3}

(* Every commitment is computed in the matrix its session asked for: the   *)
(* columns, rows and T a worker looked up, each under whatever context was *)
(* current at that moment, belong to one initialisation of one context,    *)
(* are initialised, and make an almost square matrix of K * T entries.     *)
CommitShape ==
    \A w \in Workers :
        Len(worker[w].got) = 3 =>
            LET got == worker[w].got
            IN  /\ got \in [1..3 -> Nat]
                /\ got[1] + got[2] = session.want.size
                /\ got[1] - got[2] \in {0, 1}
                /\ got[3] = session.want.t

(* Prover and verifier reduce their openings in the same geometry: what    *)
(* either reads in stage 6 is the K, T, width and layout of the proof it   *)
(* makes or checks, whatever earlier sessions left in the globals, and the *)
(* embedded T is T stretched by the extra variables of the embedding.      *)
SameGeometry ==
    session # Idle =>
        /\ session.seen # Unset =>
             /\ session.seen.k = session.k /\ session.seen.t = session.t
             /\ session.seen.layout = session.layout
             /\ 2 * session.seen.columns \in {session.total, session.total + 1}
        /\ session.embedded # Unset =>
             /\ session.embedded.t = session.total - session.k
             /\ session.embedded.t = session.t + session.embedded.extra

(* The layout named by a proof is the one its transcript began with.       *)
ProofLayout ==
    session # Idle /\ session.published # Unset =>
        session.published = session.hashed

(* Prover and verifier work in one geometry: the one they read in stage 6  *)
(* is the proof's, and so is the layout the proof names.                   *)
GeometryAgrees == SameGeometry /\ ProofLayout

(* Between sessions the context is Main again and no guard is left, also   *)
(* after a verification that stopped half-way.                             *)
ContextRestored ==
    /\ TypeOK
    /\ session = Idle => context = "Main" /\ guard = Unset /\ Working = {}
=============================================================================
