---------------------------- MODULE BuildRecords ----------------------------
(***************************************************************************)
(* The incremental native build of std::build: objects.cv, the loop of     *)
(* execute.cv and build_product.  What a build reuses is decided by the    *)
(* records that it and earlier builds left beside the objects and the      *)
(* product, while sources are edited, files are deleted, compilations fail *)
(* and a build is killed with its compilers still running.                 *)
(*                                                                         *)
(* A fingerprint is modelled by what it covers.  The content of an object  *)
(* is the version of every file it was compiled from; a source includes    *)
(* the headers its version asks for.                                       *)
(***************************************************************************)
EXTENDS Naturals, FiniteSets

CONSTANTS
    Objects,  \* the objects; an object is named as its source
    Headers,
    Includes, \* the headers a version of a source includes
    Selects,  \* the implementations a header asks for
    Roots,    \* the possible sources of the target
    Limit,    \* available_parallelism
    Edits, Crashes, Builds  \* bounds on the environment

Files == Objects \cup Headers
Versions == {0, 1}

ASSUME ShapeAssumption ==
    /\ Includes \in [Objects -> [Versions -> SUBSET Headers]]
    /\ Selects \in [Headers -> SUBSET Objects]
    /\ Roots \subseteq SUBSET Objects
    /\ Objects \cap Headers = {}
ASSUME BoundsAssumption == Limit \in Nat \ {0} /\ Edits \in Nat /\ Crashes \in Nat /\ Builds \in Nat

VARIABLES
    content,    \* the version of every source and header
    object,     \* the .o files, by the versions they were compiled from
    deps,       \* the .d files, by the files they list
    state,      \* the .state files
    product,    \* the output of the target, by the objects in it
    pstate,     \* its .state file
    compilers,  \* the compiler processes
    roots,      \* the sources of the target
    stage,      \* how far the build has come
    reusable,   \* compilation.cacheable, and for the product its own reusable
    pending,    \* pending_sources
    completed,  \* CompileGroup::completed
    files,      \* the objects of this compile_objects
    record,     \* ObjectFile::record
    todo,       \* the objects whose state is still to be looked at or published
    jobs,       \* the jobs of this compile_objects
    waiting,    \* those of them not dispatched yet
    disturbed,  \* history: objects touched between their compiler's read and their record
    spoiled,    \* history: the product was linked from objects that changed before its record
    quiet,      \* history: nothing was edited since the build began
    edits, crashes, builds

disk == <<object, deps, state, product, pstate>>
memory == <<reusable, pending, completed, files, record, todo, jobs, waiting>>
history == <<disturbed, spoiled, quiet>>
bounds == <<edits, crashes, builds>>
vars == <<content, disk, compilers, roots, stage, memory, history, bounds>>

Missing == [f \in {} |-> 0]
NoRecord == [deps |-> Missing, object |-> Missing]
NoProduct == [objects |-> Missing, output |-> Missing]
Torn == [o \in Objects |-> Missing]
Ended == {"idle", "built", "failed"}

\* What a compiler reads for o, and so what a fresh object holds.
Current(o) == [f \in {o} \cup Includes[o][content[o]] |-> content[f]]

FingerprintOfSources(o) ==
    IF deps[o] = {} \/ object[o] = Missing THEN NoRecord
    ELSE [deps |-> [f \in deps[o] |-> content[f]], object |-> Missing]

\* The record of o as a refresh finds it now.
Fingerprint(o) ==
    IF deps[o] = {} \/ object[o] = Missing THEN NoRecord
    ELSE [deps |-> [f \in deps[o] |-> content[f]], object |-> object[o]]

FingerprintOfOutput ==
    IF product = Missing \/ \E o \in completed : object[o] = Missing THEN NoProduct
    ELSE [objects |-> Missing, output |-> product]

ProductFingerprint ==
    IF product = Missing \/ \E o \in completed : object[o] = Missing THEN NoProduct
    ELSE [objects |-> [o \in completed |-> object[o]], output |-> product]

Compiler(o, owned, at, seen) == [of |-> o, owned |-> owned, at |-> at, seen |-> seen]

Forgotten ==
    /\ reusable' = FALSE /\ record' = [o \in Objects |-> NoRecord]
    /\ pending' = {} /\ completed' = {} /\ files' = {} /\ todo' = {} /\ jobs' = {} /\ waiting' = {}

Init ==
    /\ content \in [Files -> {0}] /\ roots \in Roots
    /\ object = [o \in Objects |-> Missing] /\ deps = [o \in Objects |-> {}]
    /\ state = [o \in Objects |-> NoRecord] /\ product = Missing /\ pstate = NoProduct
    /\ compilers = {} /\ stage = "idle"
    /\ reusable = FALSE /\ record = [o \in Objects |-> NoRecord]
    /\ pending = {} /\ completed = {} /\ files = {} /\ todo = {} /\ jobs = {} /\ waiting = {}
    /\ disturbed = {} /\ spoiled = FALSE /\ quiet = FALSE
    /\ edits = 0 /\ crashes = 0 /\ builds = 0

-----------------------------------------------------------------------------
(* The user.                                                                *)

Owned == {c \in compilers : c.owned}

\* The objects that were compiled from a file and whose record is not taken yet.
Unrecorded(f) ==
    {c.of : c \in {d \in Owned : f \in DOMAIN d.seen}}
    \cup {o \in jobs \ waiting : /\ stage = "work" /\ f \in DOMAIN object[o]
                                 /\ \A c \in Owned : c.of # o}

Edit(f) ==
    /\ edits < Edits /\ edits' = edits + 1
    /\ \E v \in Versions \ {content[f]} : content' = [content EXCEPT ![f] = v]
    /\ disturbed' = disturbed \cup Unrecorded(f) /\ quiet' = FALSE
    /\ UNCHANGED <<disk, compilers, roots, stage, memory, spoiled, crashes, builds>>

Delete(o) ==
    /\ edits < Edits /\ edits' = edits + 1 /\ quiet' = FALSE
    /\ \/ object[o] # Missing /\ object' = [object EXCEPT ![o] = Missing] /\ UNCHANGED product
       \/ product # Missing /\ product' = Missing /\ UNCHANGED object
    /\ UNCHANGED <<content, deps, state, pstate, compilers, roots, stage, memory, disturbed, spoiled,
                   crashes, builds>>

-----------------------------------------------------------------------------
(* The compilers.                                                           *)

Replace(c, d) == compilers' = (compilers \ {c}) \cup {d}

\* A write by a compiler that no build waits for, to files that were compiled anew.
Disturbs(c) ==
    /\ disturbed' = IF /\ ~c.owned /\ stage = "work" /\ c.of \in jobs \ waiting
                       /\ \A d \in Owned : d.of = c.of => d.at \in {"listed", "ok"}
                    THEN disturbed \cup {c.of} ELSE disturbed
    /\ quiet' = (quiet /\ c.owned)

ReadSources(c) ==
    /\ c.at = "started"
    /\ Replace(c, Compiler(c.of, c.owned, "read", Current(c.of)))
    /\ disturbed' = IF c.owned THEN disturbed \ {c.of} ELSE disturbed
    /\ UNCHANGED <<deps, object, spoiled, quiet>>

WriteDeps(c) ==
    /\ c.at = "read"
    /\ deps' = [deps EXCEPT ![c.of] = DOMAIN c.seen]
    /\ Replace(c, Compiler(c.of, c.owned, "listed", c.seen)) /\ Disturbs(c)
    /\ UNCHANGED <<object, spoiled>>

WriteObject(c) ==
    /\ c.at = "listed"
    /\ object' = [object EXCEPT ![c.of] = c.seen]
    /\ IF c.owned THEN Replace(c, Compiler(c.of, c.owned, "ok", c.seen))
                  ELSE compilers' = compilers \ {c}
    /\ Disturbs(c) /\ spoiled' = (spoiled \/ stage = "record")
    /\ UNCHANGED deps

\* A compiler that fails removes the object or leaves it alone.
Fails(c) ==
    /\ c.owned /\ c.at \in {"started", "read"}
    /\ object' \in {object, [object EXCEPT ![c.of] = Missing]}
    /\ Replace(c, Compiler(c.of, c.owned, "failed", Missing))
    /\ UNCHANGED <<deps, disturbed, spoiled, quiet>>

Compile(c) ==
    /\ ReadSources(c) \/ WriteDeps(c) \/ WriteObject(c) \/ Fails(c)
    /\ UNCHANGED <<content, state, product, pstate, roots, stage, memory, bounds>>

-----------------------------------------------------------------------------
(* One call of compile_objects.                                             *)

Begin ==
    /\ stage \in Ended /\ builds < Builds /\ builds' = builds + 1
    /\ stage' = "round" /\ pending' = roots /\ completed' = {} /\ reusable' \in BOOLEAN
    /\ quiet' = TRUE
    /\ UNCHANGED <<content, disk, compilers, roots, files, record, todo, jobs, waiting, disturbed, spoiled,
                   edits, crashes>>

\* refresh_objects for the objects that have a record.
Validate ==
    /\ stage = "round"
    /\ files' = pending \ completed
    /\ files' # {}
    /\ record' = [o \in Objects |->
                     IF reusable /\ o \in files' /\ state[o] # NoRecord THEN Fingerprint(o) ELSE NoRecord]
    /\ todo' = files' /\ jobs' = {} /\ waiting' = {} /\ stage' = "clear"
    /\ UNCHANGED <<content, disk, compilers, roots, reusable, pending, completed, history, bounds>>

Clear(o) ==
    /\ stage = "clear" /\ o \in todo
    /\ todo' = todo \ {o}
    /\ IF ~reusable \/ state[o] = NoRecord \/ record[o] # state[o]
       THEN /\ state' = [state EXCEPT ![o] = NoRecord]
            /\ jobs' = jobs \cup {o} /\ waiting' = waiting \cup {o}
       ELSE UNCHANGED <<state, jobs, waiting>>
    /\ stage' = IF todo' = {} THEN "work" ELSE "clear"
    /\ UNCHANGED <<content, object, deps, product, pstate, compilers, roots, reusable, pending, completed,
                   files, record, history, bounds>>

\* The loop fills the free places before it waits.
Spawn(o) ==
    /\ stage = "work" /\ o \in waiting /\ Cardinality(Owned) < Limit
    /\ waiting' = waiting \ {o}
    /\ compilers' = compilers \cup {Compiler(o, TRUE, "started", Missing)}
    /\ UNCHANGED <<content, disk, roots, stage, reusable, pending, completed, files, record, todo, jobs,
                   history, bounds>>

SpawnFails(o) ==
    /\ stage = "work" /\ o \in waiting /\ Cardinality(Owned) < Limit
    /\ stage' = "reap"
    /\ UNCHANGED <<content, disk, compilers, roots, memory, history, bounds>>

Wait(c) ==
    /\ stage = "work" /\ c \in Owned /\ c.at \in {"ok", "failed"}
    /\ waiting = {} \/ Cardinality(Owned) = Limit
    /\ compilers' = compilers \ {c}
    /\ stage' = IF c.at = "failed" THEN "reap" ELSE "work"
    /\ UNCHANGED <<content, disk, roots, memory, history, bounds>>

\* reap_processes.
Reap(c) ==
    /\ stage = "reap" /\ c \in Owned /\ c.at \in {"ok", "failed"}
    /\ compilers' = compilers \ {c}
    /\ UNCHANGED <<content, disk, roots, stage, memory, history, bounds>>

Throw ==
    /\ stage = "reap" /\ Owned = {}
    /\ stage' = "failed" /\ Forgotten
    /\ UNCHANGED <<content, disk, compilers, roots, history, bounds>>

\* The second refresh_objects: the records that are going to be published.
Collect ==
    /\ stage = "work" /\ waiting = {} /\ Owned = {}
    /\ record' = [o \in Objects |-> IF o \in jobs THEN Fingerprint(o) ELSE record[o]]
    /\ stage' = IF \E o \in jobs : record'[o] = NoRecord THEN "reap" ELSE "publish"
    /\ todo' = IF reusable THEN jobs ELSE {}
    /\ UNCHANGED <<content, disk, compilers, roots, reusable, pending, completed, files, jobs, waiting,
                   history, bounds>>

Publish(o) ==
    /\ stage = "publish" /\ o \in todo
    /\ state' = [state EXCEPT ![o] = record[o]]
    /\ todo' = todo \ {o}
    /\ UNCHANGED <<content, object, deps, product, pstate, compilers, roots, stage, reusable, pending,
                   completed, files, record, jobs, waiting, history, bounds>>

\* record_dependencies: the headers that were read ask for further implementations.
NextRound ==
    /\ stage = "publish" /\ todo = {}
    /\ completed' = completed \cup files
    /\ pending' = UNION {Selects[h] : h \in Headers \cap UNION {DOMAIN record[o].deps : o \in files}}
    /\ files' = {} /\ jobs' = {} /\ record' = [o \in Objects |-> NoRecord]
    /\ stage' = "round"
    /\ UNCHANGED <<content, disk, compilers, roots, reusable, todo, waiting, history, bounds>>

-----------------------------------------------------------------------------
(* build_product.                                                           *)

\* A product made with flags or libraries that no record covers is not known; its
\* objects may be.  The tool of an archive finds no output; a linker overwrites
\* the one there is.
Open ==
    /\ stage = "round" /\ pending \ completed = {}
    /\ \E known \in BOOLEAN :
         IF reusable /\ known /\ ProductFingerprint # NoProduct /\ ProductFingerprint = pstate
         THEN stage' = "built" /\ Forgotten /\ UNCHANGED <<product, pstate>>
         ELSE /\ stage' = "link" /\ pstate' = NoProduct /\ product' \in {product, Missing}
              /\ reusable' = (reusable /\ known)
              /\ UNCHANGED <<pending, completed, files, record, todo, jobs, waiting>>
    /\ UNCHANGED <<content, object, deps, state, compilers, roots, history, bounds>>

Link ==
    /\ stage = "link" /\ \A o \in completed : object[o] # Missing
    /\ product' = [o \in completed |-> object[o]] /\ spoiled' = FALSE
    /\ stage' = "record"
    /\ UNCHANGED <<content, object, deps, state, pstate, compilers, roots, memory, disturbed, quiet, bounds>>

LinkFails ==
    /\ stage = "link"
    /\ product' \in {product, Missing}
    /\ stage' = "failed" /\ Forgotten
    /\ UNCHANGED <<content, object, deps, state, pstate, compilers, roots, history, bounds>>

RecordProduct ==
    /\ stage = "record"
    /\ pstate' = IF reusable THEN ProductFingerprint ELSE pstate
    /\ stage' = "built" /\ Forgotten
    /\ UNCHANGED <<content, object, deps, state, product, compilers, roots, history, bounds>>

\* The build is killed; some of its compilers may run on, and a linker may have
\* written half of its output.
Crash ==
    /\ stage \notin Ended /\ crashes < Crashes /\ crashes' = crashes + 1
    /\ \E kept \in SUBSET {c \in Owned : c.at \notin {"ok", "failed"}} :
         compilers' = (compilers \ Owned) \cup {Compiler(c.of, FALSE, c.at, c.seen) : c \in kept}
    /\ IF stage = "link" THEN product' \in {product, Torn} ELSE UNCHANGED product
    /\ stage' = "idle" /\ Forgotten /\ quiet' = FALSE
    /\ UNCHANGED <<content, object, deps, state, pstate, roots, disturbed, spoiled, edits, builds>>

-----------------------------------------------------------------------------
Build ==
    \/ Begin \/ Validate \/ Throw \/ Collect \/ NextRound
    \/ Open \/ Link \/ LinkFails \/ RecordProduct
    \/ \E o \in Objects : Clear(o) \/ Spawn(o) \/ SpawnFails(o) \/ Publish(o)
    \/ \E c \in compilers : Wait(c) \/ Reap(c)

Outside ==
    \/ Crash
    \/ \E f \in Files : Edit(f)
    \/ \E o \in Objects : Delete(o)
    \/ \E c \in compilers : Compile(c)

Next == Build \/ Outside

Spec == Init /\ [][Next]_vars

-----------------------------------------------------------------------------
Compilers == [of : Objects, owned : BOOLEAN, at : {"started", "read", "listed", "ok", "failed"},
              seen : UNION {[F -> Versions] : F \in SUBSET Files}]

\* TYPE: compilers only run for objects, and nothing runs on behalf of no build.
TypeOK ==
    /\ content \in [Files -> Versions] /\ compilers \subseteq Compilers
    /\ stage \in Ended \cup {"round", "clear", "work", "reap", "publish", "link", "record"}
    /\ waiting \subseteq jobs /\ jobs \subseteq files /\ todo \subseteq files /\ disturbed \subseteq Objects

\* A record that the next build would believe speaks the truth (objects.cv:184): the
\* object it validates was compiled from the sources as they are now.  The code cannot
\* see, and the statement excepts, an edit between a compiler's read and the record
\* of its object, and a compiler of a killed build that writes in between.
RecordsHonest ==
    \A o \in Objects \ disturbed :
        state[o] # NoRecord /\ state[o] = Fingerprint(o) => object[o] = Current(o)

\* The objects the current sources ask for.
Closure ==
    {o \in Objects : \A S \in SUBSET Objects :
        roots \subseteq S /\ (\A p \in S : \A g \in Includes[p][content[p]] : Selects[g] \subseteq S) => o \in S}

\* A build that returns without an error, with nothing edited since it began, leaves
\* the product that a build from nothing would make (build_product, execute.cv:128),
\* whatever earlier builds reused, failed or left behind when they were killed.
BuildTruthful ==
    stage = "built" /\ quiet /\ disturbed = {} /\ ~spoiled =>
        product = [o \in Closure |-> Current(o)]

\* A failed build waits for its running children before it returns
\* (docs/language/build.md:307), so no compiler of a build that returned still writes.
FailureWaits == stage \in Ended => Owned = {}
=============================================================================
