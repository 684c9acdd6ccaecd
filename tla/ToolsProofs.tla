---------------------------- MODULE ToolsProofs ----------------------------
(***************************************************************************)
(* The theorems about the tools: the records of a build, and the language  *)
(* server.                                                                 *)
(*                                                                         *)
(* A record the next build would believe speaks the truth: RecordsHonest   *)
(* for every set of objects and headers, whatever is edited and however    *)
(* often builds are killed.                                                *)
(*                                                                         *)
(* The argument: what a compiler has read equals the sources until one of  *)
(* them is edited, and then the object counts as disturbed; so a record    *)
(* that is collected lists the versions its object was made from.  A       *)
(* compiler that reads anew ends the disturbance, which is sound because   *)
(* the old record was cleared before the job started.                      *)
(*                                                                         *)
(* BuildTruthful adds the rounds of one build: what is complete is up to   *)
(* date, and the product was linked from the closure of the roots.         *)
(*                                                                         *)
(* The language server, for every set of documents, queries and messages:  *)
(* every query gets one answer, the jobs of the queue lead the analyzer to *)
(* the documents, queries run on the text they were asked about, and what  *)
(* the editor is shown is current.                                         *)
(*                                                                         *)
(* The argument: the active job is in one place (Flight); for every        *)
(* document there is a path of states, a step for each queued job, from    *)
(* what the analyzer will hold to what the server holds (Chained), and     *)
(* merging an update into an earlier one or taking a query out shortens    *)
(* that path; jobs are queued in the order of their generations (Ordered), *)
(* so that the newest job is the last but for queries (Showing); a query   *)
(* is in transit, queued, active or answered (AsksOnce).                   *)
(***************************************************************************)
EXTENDS BuildRecords, LanguageServer,
        SequenceTheorems, FiniteSetTheorems, WellFoundedInduction, TLAPS

\* x is what a compiler makes of o from some versions of its sources.
Made(o, x) ==
    x # Missing =>
        /\ x = [f \in DOMAIN x |-> x[f]]
        /\ o \in DOMAIN x
        /\ DOMAIN x = {o} \cup Includes[o][x[o]]

Functions ==
    /\ content = [f \in Files |-> content[f]]
    /\ object = [o \in Objects |-> object[o]]
    /\ deps = [o \in Objects |-> deps[o]]
    /\ state = [o \in Objects |-> state[o]]
    /\ \A c \in compilers :
         /\ c.of \in Objects
         /\ c = [of |-> c.of, owned |-> c.owned, at |-> c.at, seen |-> c.seen]

AllMade ==
    /\ \A o \in Objects : Made(o, object[o])
    /\ \A c \in compilers : c.at # "started" => Made(c.of, c.seen)

\* A build has one compiler for a job it has dispatched, and none out of its loop.
OneEach ==
    /\ waiting \subseteq jobs /\ jobs \subseteq Objects
    /\ \A c \in Owned : stage \in {"work", "reap"} /\ c.of \in jobs \ waiting
    /\ \A c, d \in Owned : c.of = d.of => c = d

Cleared ==
    /\ stage \in {"clear", "work", "reap"} => \A o \in jobs : state[o] = NoRecord
    /\ stage = "clear" => jobs = waiting
    /\ stage = "publish" => waiting = {}

\* What a compiler has seen and written, as long as nothing disturbed it.
Fresh(c) ==
    /\ c.at \in {"read", "listed", "ok"} => \A f \in DOMAIN c.seen : c.seen[f] = content[f]
    /\ c.at \in {"listed", "ok"} => deps[c.of] = DOMAIN c.seen
    /\ c.at = "ok" => object[c.of] = c.seen \/ object[c.of] = Missing

\* The same of an object whose compiler has ended.
Sound(o) ==
    object[o] # Missing =>
        deps[o] = DOMAIN object[o] /\ \A f \in DOMAIN object[o] : object[o][f] = content[f]

Finished(o) == o \in jobs \ waiting /\ \A c \in Owned : c.of # o

Undisturbed ==
    /\ stage = "work" => \A c \in Owned : c.of \notin disturbed => Fresh(c)
    /\ stage = "work" => \A o \in Objects \ disturbed : Finished(o) => Sound(o)

\* A record that was taken or published lists what its object was made from.
Truthful ==
    /\ stage = "publish" => \A o \in todo \ disturbed : record[o].deps = record[o].object
    /\ \A o \in Objects \ disturbed : state[o].deps = state[o].object

RecordsInv == Functions /\ AllMade /\ OneEach /\ Cleared /\ Undisturbed /\ Truthful

\* The invariant gives the property.
LEMMA InvHonest == RecordsInv => RecordsHonest
<1> SUFFICES ASSUME RecordsInv, NEW o \in Objects \ disturbed,
                    state[o] # NoRecord, state[o] = Fingerprint(o)
             PROVE  object[o] = Current(o)
    BY DEF RecordsHonest
<1>1. deps[o] # {} /\ object[o] # Missing
    BY DEF Fingerprint
<1>2. state[o] = [deps |-> [f \in deps[o] |-> content[f]], object |-> object[o]]
    BY <1>1 DEF Fingerprint
<1>3. object[o] = [f \in deps[o] |-> content[f]]
    BY <1>2 DEF RecordsInv, Truthful
<1>4. Made(o, object[o])
    BY DEF RecordsInv, AllMade
<1>5. o \in deps[o] /\ object[o][o] = content[o] /\ DOMAIN object[o] = deps[o]
    BY <1>1, <1>3, <1>4 DEF Made
<1>6. deps[o] = {o} \cup Includes[o][content[o]]
    BY <1>1, <1>4, <1>5 DEF Made
<1> QED BY <1>3, <1>6 DEF Current

LEMMA InitInv == Init => RecordsInv
<1> SUFFICES ASSUME Init PROVE RecordsInv OBVIOUS
<1>1. Functions
    BY DEF Init, Functions
<1>2. AllMade
    BY DEF Init, AllMade, Made
<1>3. OneEach /\ Cleared /\ Undisturbed
    BY DEF Init, OneEach, Cleared, Undisturbed, Owned, Finished
<1>4. Truthful
    BY DEF Init, Truthful, NoRecord
<1> QED BY <1>1, <1>2, <1>3, <1>4 DEF RecordsInv

\* The steps of the build outside its loop and its publication.
LEMMA Aside ==
    ASSUME RecordsInv, Owned = {}, waiting' \subseteq jobs', jobs' \subseteq jobs,
           stage' \notin {"work", "reap", "publish"}, stage' = "clear" => jobs' = {},
           UNCHANGED <<content, object, deps, state, compilers, disturbed>>
    PROVE  RecordsInv'
<1>1. Owned' = {}
    BY DEF Owned
<1>2. Functions' /\ AllMade'
    BY DEF RecordsInv, Functions, AllMade, Made
<1>3. OneEach' /\ Cleared' /\ Undisturbed'
    BY <1>1 DEF RecordsInv, OneEach, Cleared, Undisturbed
<1>4. Truthful'
    BY DEF RecordsInv, Truthful
<1> QED BY <1>2, <1>3, <1>4 DEF RecordsInv

LEMMA NoneOwned == RecordsInv /\ stage \notin {"work", "reap"} => Owned = {}
BY DEF RecordsInv, OneEach

LEMMA OutsideLoop ==
    ASSUME RecordsInv, Begin \/ Validate \/ Throw \/ NextRound \/ Open \/ Link \/ LinkFails \/ RecordProduct
    PROVE  RecordsInv'
<1>1. CASE Begin
    <2>1. Owned = {}
        BY <1>1, NoneOwned DEF Begin, Ended
    <2> QED BY <1>1, <2>1, Aside DEF Begin, disk, RecordsInv, OneEach
<1>2. CASE Validate
    <2>1. Owned = {}
        BY <1>2, NoneOwned DEF Validate
    <2> QED BY <1>2, <2>1, Aside DEF Validate, disk, history
<1>3. CASE Throw
    BY <1>3, Aside DEF Throw, disk, history, Forgotten
<1>4. CASE NextRound
    <2>1. Owned = {}
        BY <1>4, NoneOwned DEF NextRound
    <2> QED BY <1>4, <2>1, Aside DEF NextRound, disk, history, RecordsInv, Cleared
<1>5. CASE Open
    <2>1. Owned = {}
        BY <1>5, NoneOwned DEF Open
    <2>2. waiting' \subseteq jobs' /\ jobs' \subseteq jobs
        BY <1>5 DEF Open, Forgotten, memory, RecordsInv, OneEach
    <2>3. stage' \in {"built", "link"} /\ UNCHANGED <<content, object, deps, state, compilers, disturbed>>
        BY <1>5 DEF Open, history
    <2> QED BY <2>1, <2>2, <2>3, Aside
<1>6. CASE Link
    <2>1. Owned = {}
        BY <1>6, NoneOwned DEF Link
    <2> QED BY <1>6, <2>1, Aside DEF Link, memory, RecordsInv, OneEach
<1>7. CASE LinkFails
    <2>1. Owned = {}
        BY <1>7, NoneOwned DEF LinkFails
    <2> QED BY <1>7, <2>1, Aside DEF LinkFails, Forgotten, history
<1>8. CASE RecordProduct
    <2>1. Owned = {}
        BY <1>8, NoneOwned DEF RecordProduct
    <2> QED BY <1>8, <2>1, Aside DEF RecordProduct, Forgotten, history
<1> QED BY <1>1, <1>2, <1>3, <1>4, <1>5, <1>6, <1>7, <1>8

LEMMA ClearStep == ASSUME RecordsInv, NEW o \in Objects, Clear(o) PROVE RecordsInv'
<1>0. Owned = {} /\ Owned' = {}
    BY NoneOwned DEF Clear, Owned
<1>1. Functions' /\ AllMade'
    BY DEF Clear, RecordsInv, Functions, AllMade, Made
<1>2. jobs = waiting /\ jobs' = waiting' /\ stage' \in {"clear", "work"}
    BY DEF Clear, RecordsInv, Cleared
<1>3. jobs' \subseteq Objects /\ \A p \in jobs' : state'[p] = NoRecord
    <2>1. jobs \subseteq Objects /\ \A p \in jobs : state[p] = NoRecord
        BY DEF Clear, RecordsInv, Cleared, OneEach
    <2> QED BY <2>1 DEF Clear, RecordsInv, Functions
<1>4. OneEach' /\ Cleared'
    BY <1>0, <1>2, <1>3 DEF OneEach, Cleared
<1>5. Undisturbed'
    BY <1>0, <1>2 DEF Undisturbed, Finished
<1>6. Truthful'
    <2>1. \A p \in Objects : state'[p] = state[p] \/ state'[p] = NoRecord
        BY DEF Clear, RecordsInv, Functions
    <2> QED BY <1>2, <2>1 DEF RecordsInv, Truthful, Clear, history, NoRecord
<1> QED BY <1>1, <1>4, <1>5, <1>6 DEF RecordsInv

LEMMA SpawnStep == ASSUME RecordsInv, NEW o \in Objects, Spawn(o) PROVE RecordsInv'
<1> DEFINE c == Compiler(o, TRUE, "started", Missing)
<1>0. Owned' = Owned \cup {c} /\ compilers' = compilers \cup {c}
    BY DEF Spawn, Owned, Compiler
<1>a. c.of = o /\ c.at = "started"
    BY DEF Compiler
<1>b. UNCHANGED <<content, object, deps, state, disturbed, stage, jobs>> /\ stage = "work"
      /\ o \in waiting /\ waiting' = waiting \ {o}
    BY DEF Spawn, disk, history
<1>1. Functions'
    <2>1. c = [of |-> c.of, owned |-> c.owned, at |-> c.at, seen |-> c.seen]
        BY DEF Compiler
    <2> QED BY <1>0, <1>a, <1>b, <2>1 DEF RecordsInv, Functions
<1> HIDE DEF c
<1>2. AllMade'
    BY <1>0, <1>a, <1>b DEF RecordsInv, AllMade, Made
<1>3. OneEach' /\ Cleared'
    <2>1. \A d \in Owned : d.of # o /\ d.of \in jobs' \ waiting'
        BY <1>b DEF RecordsInv, OneEach
    <2>2. o \in jobs' \ waiting' /\ waiting' \subseteq jobs'
        BY <1>b DEF RecordsInv, OneEach
    <2>3. OneEach'
        BY <1>0, <1>a, <1>b, <2>1, <2>2 DEF RecordsInv, OneEach
    <2> QED BY <1>b, <2>3 DEF RecordsInv, Cleared
<1>4. Undisturbed'
    <2>1. stage' = "work" => \A d \in Owned' : d.of \notin disturbed' => Fresh(d)'
        BY <1>0, <1>a, <1>b DEF RecordsInv, Undisturbed, Fresh
    <2>2. \A p \in Objects : Finished(p)' => Finished(p)
        BY <1>0, <1>a, <1>b DEF Finished
    <2> QED BY <1>b, <2>1, <2>2 DEF RecordsInv, Undisturbed, Sound
<1>5. Truthful'
    BY <1>b DEF RecordsInv, Truthful
<1> QED BY <1>1, <1>2, <1>3, <1>4, <1>5 DEF RecordsInv

LEMMA SpawnFailsStep == ASSUME RecordsInv, NEW o \in Objects, SpawnFails(o) PROVE RecordsInv'
<1>1. stage = "work" /\ stage' = "reap"
      /\ UNCHANGED <<content, object, deps, state, compilers, record, todo, jobs, waiting, disturbed>>
    BY DEF SpawnFails, disk, memory, history
<1>2. Owned' = Owned
    BY <1>1 DEF Owned
<1>3. Functions' /\ AllMade' /\ Truthful'
    BY <1>1 DEF RecordsInv, Functions, AllMade, Made, Truthful
<1>4. OneEach' /\ Cleared'
    BY <1>1, <1>2 DEF RecordsInv, OneEach, Cleared
<1>5. Undisturbed'
    BY <1>1, <1>2 DEF RecordsInv, Undisturbed, Fresh
<1> QED BY <1>3, <1>4, <1>5 DEF RecordsInv

\* A child that ended is taken out of the group, in the loop or after a failure.
LEMMA EndedStep ==
    ASSUME RecordsInv, NEW c \in compilers, Wait(c) \/ Reap(c)
    PROVE  RecordsInv'
<1>1. /\ c \in Owned /\ stage \in {"work", "reap"} /\ compilers' = compilers \ {c}
      /\ stage' = "reap" \/ (stage = "work" /\ stage' = "work" /\ c.at = "ok")
      /\ UNCHANGED <<content, object, deps, state, record, todo, jobs, waiting, disturbed>>
    <2>1. CASE Wait(c)
        <3>1. c.at = "failed" => stage' = "reap"
            BY <2>1 DEF Wait
        <3>2. c.at # "failed" => stage' = "work"
            BY <2>1 DEF Wait
        <3> QED BY <2>1, <3>1, <3>2 DEF Wait, disk, memory, history
    <2>2. CASE Reap(c)
        BY <2>2 DEF Reap, disk, memory, history
    <2> QED BY <2>1, <2>2
<1>2. Owned' = Owned \ {c}
    BY <1>1 DEF Owned
<1>3. Functions' /\ AllMade' /\ Truthful'
    BY <1>1 DEF RecordsInv, Functions, AllMade, Made, Truthful
<1>4. OneEach' /\ Cleared'
    BY <1>1, <1>2 DEF RecordsInv, OneEach, Cleared
<1>5. Undisturbed'
    <2>1. stage' = "work" => \A d \in Owned' : d.of \notin disturbed' => Fresh(d)'
        BY <1>1, <1>2 DEF RecordsInv, Undisturbed, Fresh
    <2>2. ASSUME stage' = "work", NEW o \in Objects \ disturbed', Finished(o)' PROVE Sound(o)'
        <3>1. CASE o = c.of
            <4>1. Fresh(c) /\ c.at = "ok"
                BY <1>1, <2>2, <3>1 DEF RecordsInv, Undisturbed
            <4> QED BY <1>1, <3>1, <4>1 DEF Fresh, Sound
        <3>2. CASE o # c.of
            <4>1. Finished(o) /\ stage = "work"
                BY <1>1, <1>2, <2>2, <3>2 DEF Finished
            <4>2. Sound(o)
                BY <1>1, <2>2, <4>1 DEF RecordsInv, Undisturbed
            <4> QED BY <1>1, <4>2 DEF Sound
        <3> QED BY <3>1, <3>2
    <2> QED BY <2>1, <2>2 DEF Undisturbed
<1> QED BY <1>3, <1>4, <1>5 DEF RecordsInv

LEMMA CollectStep == ASSUME RecordsInv, Collect PROVE RecordsInv'
<1>1. /\ stage = "work" /\ Owned = {} /\ waiting = {} /\ stage' \in {"reap", "publish"}
      /\ UNCHANGED <<content, object, deps, state, compilers, jobs, waiting, disturbed>>
      /\ todo' \subseteq jobs
      /\ \A o \in jobs : record'[o] = Fingerprint(o)
    BY DEF Collect, disk, history, RecordsInv, OneEach
<1>2. Owned' = {}
    BY <1>1 DEF Owned
<1>3. Functions' /\ AllMade'
    BY <1>1 DEF RecordsInv, Functions, AllMade, Made
<1>4. OneEach' /\ Cleared'
    BY <1>1, <1>2 DEF RecordsInv, OneEach, Cleared
<1>5. Undisturbed'
    BY <1>1, <1>2 DEF Undisturbed
<1>6. Truthful'
    <2>1. ASSUME NEW o \in todo' \ disturbed PROVE record'[o].deps = record'[o].object
        <3>1. o \in jobs /\ o \in Objects /\ Sound(o)
            BY <1>1 DEF RecordsInv, Undisturbed, Finished, OneEach
        <3>2. CASE deps[o] = {} \/ object[o] = Missing
            <4>1. record'[o] = NoRecord
                BY <1>1, <3>1, <3>2 DEF Fingerprint
            <4> QED BY <4>1 DEF NoRecord
        <3>3. CASE ~(deps[o] = {} \/ object[o] = Missing)
            <4>1. record'[o] = [deps |-> [f \in deps[o] |-> content[f]], object |-> object[o]]
                BY <1>1, <3>1, <3>3 DEF Fingerprint
            <4>2. object[o] = [f \in DOMAIN object[o] |-> object[o][f]]
                BY <3>1, <3>3 DEF RecordsInv, AllMade, Made
            <4>3. object[o] = [f \in deps[o] |-> content[f]]
                BY <3>1, <3>3, <4>2 DEF Sound
            <4> QED BY <4>1, <4>3
        <3> QED BY <3>2, <3>3
    <2> QED BY <1>1, <2>1 DEF RecordsInv, Truthful
<1> QED BY <1>3, <1>4, <1>5, <1>6 DEF RecordsInv

LEMMA PublishStep == ASSUME RecordsInv, NEW o \in Objects, Publish(o) PROVE RecordsInv'
<1>1. /\ stage = "publish" /\ stage' = "publish" /\ o \in todo /\ todo' = todo \ {o}
      /\ state' = [state EXCEPT ![o] = record[o]]
      /\ UNCHANGED <<content, object, deps, compilers, record, jobs, waiting, disturbed>>
    BY DEF Publish, history
<1>2. Owned = {} /\ Owned' = {}
    BY <1>1, NoneOwned DEF Owned
<1>3. Functions' /\ AllMade'
    BY <1>1 DEF RecordsInv, Functions, AllMade, Made
<1>4. OneEach' /\ Cleared' /\ Undisturbed'
    BY <1>1, <1>2 DEF RecordsInv, OneEach, Cleared, Undisturbed
<1>5. Truthful'
    <2>1. \A p \in Objects : state'[p] = IF p = o THEN record[o] ELSE state[p]
        BY <1>1 DEF RecordsInv, Functions
    <2> QED BY <1>1, <2>1 DEF RecordsInv, Truthful
<1> QED BY <1>3, <1>4, <1>5 DEF RecordsInv

\* A killed build leaves its compilers to nobody; nothing that is in memory is left.
LEMMA CrashStep == ASSUME RecordsInv, Crash PROVE RecordsInv'
<1>1. /\ stage' = "idle" /\ jobs' = {} /\ waiting' = {}
      /\ UNCHANGED <<content, object, deps, state, disturbed>>
    BY DEF Crash, Forgotten
<1>2. PICK kept \in SUBSET {c \in Owned : c.at \notin {"ok", "failed"}} :
          compilers' = (compilers \ Owned) \cup {Compiler(c.of, FALSE, c.at, c.seen) : c \in kept}
    BY DEF Crash
<1>3. \A d \in compilers' :
          /\ ~d.owned
          /\ \E c \in compilers : /\ d.of = c.of /\ d.at = c.at /\ d.seen = c.seen
                                  /\ d = [of |-> d.of, owned |-> d.owned, at |-> d.at, seen |-> d.seen]
    <2>2. ASSUME NEW d \in compilers \ Owned
          PROVE  ~d.owned /\ d = [of |-> d.of, owned |-> d.owned, at |-> d.at, seen |-> d.seen]
        BY DEF Owned, RecordsInv, Functions
    <2>3. kept \subseteq compilers
        BY <1>2 DEF Owned
    <2>4. ASSUME NEW d \in compilers', d \notin compilers \ Owned
          PROVE  \E c \in compilers : d = [of |-> c.of, owned |-> FALSE, at |-> c.at, seen |-> c.seen]
        <3>1. PICK c \in kept : d = Compiler(c.of, FALSE, c.at, c.seen)
            BY <1>2, <2>4
        <3> QED BY <2>3, <3>1 DEF Compiler
    <2>5. ASSUME NEW c \in compilers, NEW d, d = [of |-> c.of, owned |-> FALSE, at |-> c.at, seen |-> c.seen]
          PROVE  /\ ~d.owned /\ d.of = c.of /\ d.at = c.at /\ d.seen = c.seen
                 /\ d = [of |-> d.of, owned |-> d.owned, at |-> d.at, seen |-> d.seen]
        BY <2>5
    <2> QED BY <2>2, <2>4, <2>5
<1>4. Owned' = {}
    BY <1>3 DEF Owned
<1>5. Functions' /\ AllMade'
    BY <1>1, <1>3 DEF RecordsInv, Functions, AllMade, Made
<1>6. OneEach' /\ Cleared' /\ Undisturbed' /\ Truthful'
    BY <1>1, <1>4 DEF RecordsInv, OneEach, Cleared, Undisturbed, Truthful
<1> QED BY <1>5, <1>6 DEF RecordsInv

\* A compiler that goes on stays the one compiler of its object.
LEMMA Replaced ==
    ASSUME RecordsInv, NEW c \in compilers, NEW at, NEW seen,
           compilers' = (compilers \ {c}) \cup {Compiler(c.of, c.owned, at, seen)},
           UNCHANGED <<stage, state, jobs, waiting>>
    PROVE  /\ OneEach' /\ Cleared'
           /\ \A d \in compilers' : /\ d.of \in Objects
                                    /\ d = [of |-> d.of, owned |-> d.owned, at |-> d.at, seen |-> d.seen]
           /\ \A d \in Owned' : \/ d \in Owned /\ d # c
                                \/ c \in Owned /\ d = Compiler(c.of, c.owned, at, seen)
           /\ \A o \in Objects : Finished(o)' <=> Finished(o)
<1> DEFINE e == Compiler(c.of, c.owned, at, seen)
<1>1. e.of = c.of /\ e.owned = c.owned /\ e = [of |-> e.of, owned |-> e.owned, at |-> e.at, seen |-> e.seen]
    BY DEF Compiler
<1>2. compilers' = (compilers \ {c}) \cup {e}
    OBVIOUS
<1> HIDE DEF e
<1>3. \A d \in compilers' : /\ d.of \in Objects
                            /\ d = [of |-> d.of, owned |-> d.owned, at |-> d.at, seen |-> d.seen]
    BY <1>1, <1>2 DEF RecordsInv, Functions
<1>4. \A d \in Owned' : (d \in Owned /\ d # c) \/ (c \in Owned /\ d = e)
    BY <1>1, <1>2 DEF Owned
<1>5. \A o \in Objects : Finished(o)' <=> Finished(o)
    <2>1. \A d \in Owned' : \E b \in Owned : b.of = d.of
        BY <1>1, <1>4
    <2>2. \A b \in Owned : \E d \in Owned' : b.of = d.of
        BY <1>1, <1>2 DEF Owned
    <2> QED BY <2>1, <2>2 DEF Finished
<1>6. OneEach'
    <2>1. \A d \in Owned' : stage' \in {"work", "reap"} /\ d.of \in jobs' \ waiting'
        BY <1>1, <1>4 DEF RecordsInv, OneEach
    <2>2. \A d, b \in Owned' : d.of = b.of => d = b
        BY <1>1, <1>4 DEF RecordsInv, OneEach
    <2> QED BY <2>1, <2>2 DEF RecordsInv, OneEach
<1>7. Cleared'
    BY DEF RecordsInv, Cleared
<1> QED BY <1>3, <1>4, <1>5, <1>6, <1>7 DEF e

LEMMA CurrentMade == \A o \in Objects : Made(o, Current(o))
<1> SUFFICES ASSUME NEW o \in Objects PROVE Made(o, Current(o)) OBVIOUS
<1>1. Current(o) = [f \in {o} \cup Includes[o][content[o]] |-> content[f]]
    BY DEF Current
<1>2. Current(o)[o] = content[o] /\ DOMAIN Current(o) = {o} \cup Includes[o][content[o]]
    BY <1>1
<1> QED BY <1>1, <1>2 DEF Made

CompileFrame == UNCHANGED <<content, state, product, pstate, roots, stage, memory, bounds>>

LEMMA ReadStep ==
    ASSUME RecordsInv, NEW c \in compilers, ReadSources(c), CompileFrame
    PROVE  RecordsInv'
<1> DEFINE e == Compiler(c.of, c.owned, "read", Current(c.of))
<1>1. /\ c.at = "started" /\ compilers' = (compilers \ {c}) \cup {e}
      /\ UNCHANGED <<content, object, deps, state, stage, record, todo, jobs, waiting>>
    BY DEF ReadSources, Replace, CompileFrame, memory
<1>2. e.of = c.of /\ e.owned = c.owned /\ e.at = "read" /\ e.seen = Current(c.of) /\ c.of \in Objects
    BY DEF Compiler, RecordsInv, Functions
<1>3. /\ OneEach' /\ Cleared'
      /\ \A d \in compilers' : /\ d.of \in Objects
                               /\ d = [of |-> d.of, owned |-> d.owned, at |-> d.at, seen |-> d.seen]
      /\ \A d \in Owned' : (d \in Owned /\ d # c) \/ (c \in Owned /\ d = e)
      /\ \A o \in Objects : Finished(o)' <=> Finished(o)
    BY <1>1, Replaced
<1> HIDE DEF e
<1>4. Functions'
    BY <1>1, <1>3 DEF RecordsInv, Functions
<1>5. AllMade'
    <2>1. Made(e.of, e.seen)
        BY <1>2, CurrentMade
    <2>2. \A d \in compilers' : d.at # "started" => Made(d.of, d.seen)
        BY <1>1, <2>1 DEF RecordsInv, AllMade
    <2>3. \A o \in Objects : Made(o, object[o])
        BY DEF RecordsInv, AllMade
    <2> QED BY <1>1, <2>2, <2>3 DEF AllMade, Made
<1>6. disturbed' = disturbed \/ (c \in Owned /\ disturbed' = disturbed \ {c.of})
    <2>1. CASE c.owned
        <3>1. c \in Owned
            BY <2>1 DEF Owned
        <3> QED BY <2>1, <3>1 DEF ReadSources
    <2>2. CASE ~c.owned
        BY <2>2 DEF ReadSources
    <2> QED BY <2>1, <2>2
<1>7. Undisturbed'
    <2>1. ASSUME stage' = "work", NEW d \in Owned', d.of \notin disturbed' PROVE Fresh(d)'
        <3>1. CASE d = e
            BY <1>1, <1>2, <3>1 DEF Fresh, Current
        <3>2. CASE d \in Owned /\ d # c
            <4>1. d.of \notin disturbed
                BY <1>6, <2>1, <3>2 DEF RecordsInv, OneEach
            <4>2. Fresh(d)
                BY <1>1, <2>1, <3>2, <4>1 DEF RecordsInv, Undisturbed
            <4> QED BY <1>1, <4>2 DEF Fresh
        <3> QED BY <1>3, <3>1, <3>2
    <2>2. ASSUME stage' = "work", NEW o \in Objects \ disturbed', Finished(o)' PROVE Sound(o)'
        <3>1. Finished(o) /\ o \notin disturbed
            BY <1>3, <1>6, <2>2 DEF Finished
        <3>2. Sound(o)
            BY <1>1, <2>2, <3>1 DEF RecordsInv, Undisturbed
        <3> QED BY <1>1, <3>2 DEF Sound
    <2> QED BY <2>1, <2>2 DEF Undisturbed
<1>8. Truthful'
    <2>1. CASE disturbed' = disturbed
        BY <1>1, <2>1 DEF RecordsInv, Truthful
    <2>2. CASE c \in Owned /\ disturbed' = disturbed \ {c.of}
        <3>1. stage \in {"work", "reap"} /\ state[c.of] = NoRecord
            BY <2>2 DEF RecordsInv, OneEach, Cleared
        <3>2. state[c.of].deps = state[c.of].object
            BY <3>1 DEF NoRecord
        <3> QED BY <1>1, <2>2, <3>1, <3>2 DEF RecordsInv, Truthful
    <2> QED BY <1>6, <2>1, <2>2
<1> QED BY <1>3, <1>4, <1>5, <1>7, <1>8 DEF RecordsInv

\* What a write by an orphan or by the build's own compiler does to the history.
LEMMA DisturbsBy ==
    ASSUME NEW c \in compilers, Disturbs(c), RecordsInv
    PROVE  /\ disturbed \subseteq disturbed'
           /\ c \notin Owned /\ stage = "work" /\ Finished(c.of) => c.of \in disturbed'
           /\ c \notin Owned =>
                \A d \in Owned : (d.of = c.of /\ d.at \in {"listed", "ok"} /\ stage = "work") => d.of \in disturbed'
<1>1. disturbed \subseteq disturbed'
    BY DEF Disturbs
<1>2. ASSUME c \notin Owned, stage = "work", c.of \in jobs \ waiting,
             \A d \in Owned : d.of = c.of => d.at \in {"listed", "ok"}
      PROVE  c.of \in disturbed'
    <2>1. ~c.owned
        BY <1>2 DEF Owned
    <2> QED BY <1>2, <2>1 DEF Disturbs
<1>3. ASSUME c \notin Owned, stage = "work", Finished(c.of) PROVE c.of \in disturbed'
    BY <1>2, <1>3 DEF Finished
<1>4. ASSUME c \notin Owned, NEW d \in Owned, d.of = c.of, d.at \in {"listed", "ok"}, stage = "work"
      PROVE  d.of \in disturbed'
    <2>1. \A b \in Owned : b.of = c.of => b = d
        BY <1>4 DEF RecordsInv, OneEach
    <2>2. c.of \in jobs \ waiting
        BY <1>4 DEF RecordsInv, OneEach
    <2> QED BY <1>2, <1>4, <2>1, <2>2
<1> QED BY <1>1, <1>3, <1>4

LEMMA WriteDepsStep ==
    ASSUME RecordsInv, NEW c \in compilers, WriteDeps(c), CompileFrame
    PROVE  RecordsInv'
<1> DEFINE e == Compiler(c.of, c.owned, "listed", c.seen)
<1>1. /\ c.at = "read" /\ compilers' = (compilers \ {c}) \cup {e}
      /\ deps' = [deps EXCEPT ![c.of] = DOMAIN c.seen] /\ Disturbs(c)
      /\ UNCHANGED <<content, object, state, stage, record, todo, jobs, waiting>>
    BY DEF WriteDeps, Replace, CompileFrame, memory
<1>2. e.of = c.of /\ e.at = "listed" /\ e.seen = c.seen /\ c.of \in Objects
    BY DEF Compiler, RecordsInv, Functions
<1>3. /\ OneEach' /\ Cleared'
      /\ \A d \in compilers' : /\ d.of \in Objects
                               /\ d = [of |-> d.of, owned |-> d.owned, at |-> d.at, seen |-> d.seen]
      /\ \A d \in Owned' : (d \in Owned /\ d # c) \/ (c \in Owned /\ d = e)
      /\ \A o \in Objects : Finished(o)' <=> Finished(o)
    BY <1>1, Replaced
<1> HIDE DEF e
<1>4. Functions' /\ \A o \in Objects : deps'[o] = IF o = c.of THEN DOMAIN c.seen ELSE deps[o]
    BY <1>1, <1>2, <1>3 DEF RecordsInv, Functions
<1>5. AllMade'
    <2>1. Made(e.of, e.seen)
        BY <1>1, <1>2 DEF RecordsInv, AllMade
    <2>2. \A d \in compilers' : d.at # "started" => Made(d.of, d.seen)
        BY <1>1, <2>1 DEF RecordsInv, AllMade
    <2> QED BY <1>1, <2>2 DEF RecordsInv, AllMade, Made
<1>6. Undisturbed'
    <2>1. ASSUME stage' = "work", NEW d \in Owned', d.of \notin disturbed' PROVE Fresh(d)'
        <3>1. CASE c \in Owned /\ d = e
            <4>1. Fresh(c)
                BY <1>1, <1>2, <2>1, <3>1, DisturbsBy DEF RecordsInv, Undisturbed
            <4> QED BY <1>1, <1>2, <1>4, <3>1, <4>1 DEF Fresh
        <3>2. CASE d \in Owned /\ d # c
            <4>1. Fresh(d)
                BY <1>1, <2>1, <3>2, DisturbsBy DEF RecordsInv, Undisturbed
            <4>2. d.of = c.of => d.at \notin {"listed", "ok"}
                BY <1>1, <2>1, <3>2, DisturbsBy DEF RecordsInv, OneEach
            <4>3. d.of \in Objects
                BY <3>2 DEF Owned, RecordsInv, Functions
            <4> QED BY <1>1, <1>4, <4>1, <4>2, <4>3 DEF Fresh
        <3> QED BY <1>3, <3>1, <3>2
    <2>2. ASSUME stage' = "work", NEW o \in Objects \ disturbed', Finished(o)' PROVE Sound(o)'
        <3>1. Finished(o) /\ o \notin disturbed
            BY <1>1, <1>3, <2>2, DisturbsBy
        <3>2. Sound(o)
            BY <1>1, <2>2, <3>1 DEF RecordsInv, Undisturbed
        <3>3. o # c.of
            BY <1>1, <2>2, <3>1, DisturbsBy DEF Finished
        <3> QED BY <1>1, <1>4, <3>2, <3>3 DEF Sound
    <2> QED BY <2>1, <2>2 DEF Undisturbed
<1>7. Truthful'
    BY <1>1, DisturbsBy DEF RecordsInv, Truthful
<1> QED BY <1>3, <1>4, <1>5, <1>6, <1>7 DEF RecordsInv

LEMMA WriteObjectStep ==
    ASSUME RecordsInv, NEW c \in compilers, WriteObject(c), CompileFrame
    PROVE  RecordsInv'
<1> DEFINE e == Compiler(c.of, c.owned, "ok", c.seen)
<1>1. /\ c.at = "listed" /\ object' = [object EXCEPT ![c.of] = c.seen] /\ Disturbs(c) /\ c.of \in Objects
      /\ UNCHANGED <<content, deps, state, stage, record, todo, jobs, waiting>>
    BY DEF WriteObject, CompileFrame, memory, RecordsInv, Functions
<1>2. \A o \in Objects : object'[o] = IF o = c.of THEN c.seen ELSE object[o]
    BY <1>1 DEF RecordsInv, Functions
<1>3. Made(c.of, c.seen)
    BY <1>1 DEF RecordsInv, AllMade
<1>4. \A o \in Objects : Made(o, object[o])'
    BY <1>1, <1>2, <1>3 DEF RecordsInv, AllMade, Made
<1>5. Truthful'
    BY <1>1, DisturbsBy DEF RecordsInv, Truthful
<1>6. CASE c.owned
    <2>1. compilers' = (compilers \ {c}) \cup {e} /\ c \in Owned
        BY <1>6 DEF WriteObject, Replace, Owned
    <2>2. e.of = c.of /\ e.at = "ok" /\ e.seen = c.seen
        BY DEF Compiler
    <2>3. /\ OneEach' /\ Cleared'
          /\ \A d \in compilers' : /\ d.of \in Objects
                                   /\ d = [of |-> d.of, owned |-> d.owned, at |-> d.at, seen |-> d.seen]
          /\ \A d \in Owned' : (d \in Owned /\ d # c) \/ d = e
          /\ \A o \in Objects : Finished(o)' <=> Finished(o)
        <3>1. UNCHANGED <<stage, state, jobs, waiting>>
            BY <1>1
        <3> QED BY <2>1, <3>1, Replaced
    <2> HIDE DEF e
    <2>4. Functions'
        BY <1>1, <2>3 DEF RecordsInv, Functions
    <2>5. AllMade'
        <3>1. \A d \in compilers' : d.at # "started" => Made(d.of, d.seen)
            BY <1>3, <2>1, <2>2 DEF RecordsInv, AllMade
        <3> QED BY <1>4, <3>1 DEF AllMade, Made
    <2>6. Undisturbed'
        <3>1. ASSUME stage' = "work", NEW d \in Owned', d.of \notin disturbed' PROVE Fresh(d)'
            <4>1. CASE d = e
                <5>1. Fresh(c)
                    BY <1>1, <2>1, <2>2, <3>1, <4>1, DisturbsBy DEF RecordsInv, Undisturbed
                <5> QED BY <1>1, <1>2, <2>2, <4>1, <5>1 DEF Fresh
            <4>2. CASE d \in Owned /\ d # c
                <5>1. Fresh(d) /\ d.of # c.of /\ d.of \in Objects
                    BY <1>1, <2>1, <2>3, <3>1, <4>2, DisturbsBy DEF RecordsInv, Undisturbed, OneEach
                <5> QED BY <1>1, <1>2, <5>1 DEF Fresh
            <4> QED BY <2>3, <4>1, <4>2
        <3>2. ASSUME stage' = "work", NEW o \in Objects \ disturbed', Finished(o)' PROVE Sound(o)'
            <4>1. Finished(o) /\ o \notin disturbed
                BY <1>1, <2>3, <3>2, DisturbsBy
            <4>2. Sound(o) /\ o # c.of
                BY <1>1, <2>1, <3>2, <4>1 DEF RecordsInv, Undisturbed, Finished
            <4> QED BY <1>1, <1>2, <4>2 DEF Sound
        <3> QED BY <3>1, <3>2 DEF Undisturbed
    <2> QED BY <1>5, <2>3, <2>4, <2>5, <2>6 DEF RecordsInv
<1>7. CASE ~c.owned
    <2>1. compilers' = compilers \ {c} /\ c \notin Owned /\ Owned' = Owned
        BY <1>7 DEF WriteObject, Owned
    <2>2. Functions' /\ OneEach' /\ Cleared'
        BY <1>1, <2>1 DEF RecordsInv, Functions, OneEach, Cleared
    <2>3. AllMade'
        <3>1. \A d \in compilers' : d.at # "started" => Made(d.of, d.seen)
            BY <2>1 DEF RecordsInv, AllMade
        <3> QED BY <1>4, <3>1 DEF AllMade, Made
    <2>4. Undisturbed'
        <3>1. ASSUME stage' = "work", NEW d \in Owned', d.of \notin disturbed' PROVE Fresh(d)'
            <4>1. Fresh(d) /\ d.of \in Objects
                BY <1>1, <2>1, <3>1, DisturbsBy DEF RecordsInv, Undisturbed, Functions, Owned
            <4>2. d.of = c.of => d.at # "ok"
                BY <1>1, <2>1, <3>1, DisturbsBy
            <4> QED BY <1>1, <1>2, <4>1, <4>2 DEF Fresh
        <3>2. ASSUME stage' = "work", NEW o \in Objects \ disturbed', Finished(o)' PROVE Sound(o)'
            <4>1. Finished(o) /\ o \notin disturbed /\ o # c.of
                BY <1>1, <2>1, <3>2, DisturbsBy DEF Finished
            <4>2. Sound(o)
                BY <1>1, <3>2, <4>1 DEF RecordsInv, Undisturbed
            <4> QED BY <1>1, <1>2, <4>1, <4>2 DEF Sound
        <3> QED BY <3>1, <3>2 DEF Undisturbed
    <2> QED BY <1>5, <2>2, <2>3, <2>4 DEF RecordsInv
<1> QED BY <1>6, <1>7

LEMMA FailsStep ==
    ASSUME RecordsInv, NEW c \in compilers, Fails(c), CompileFrame
    PROVE  RecordsInv'
<1> DEFINE e == Compiler(c.of, c.owned, "failed", Missing)
<1>1. /\ c \in Owned /\ compilers' = (compilers \ {c}) \cup {e}
      /\ object' = object \/ object' = [object EXCEPT ![c.of] = Missing]
      /\ UNCHANGED <<content, deps, state, stage, record, todo, jobs, waiting, disturbed>>
    BY DEF Fails, Replace, CompileFrame, memory, Owned
<1>2. e.of = c.of /\ e.at = "failed" /\ e.seen = Missing /\ c.of \in Objects
    BY DEF Compiler, RecordsInv, Functions
<1>3. /\ OneEach' /\ Cleared'
      /\ \A d \in compilers' : /\ d.of \in Objects
                               /\ d = [of |-> d.of, owned |-> d.owned, at |-> d.at, seen |-> d.seen]
      /\ \A d \in Owned' : (d \in Owned /\ d # c) \/ d = e
      /\ \A o \in Objects : Finished(o)' <=> Finished(o)
    BY <1>1, Replaced
<1> HIDE DEF e
<1>4. \A o \in Objects : object'[o] = object[o] \/ (o = c.of /\ object'[o] = Missing)
    BY <1>1, <1>2 DEF RecordsInv, Functions
<1>5. Functions'
    BY <1>1, <1>3 DEF RecordsInv, Functions
<1>6. AllMade'
    <2>1. \A d \in compilers' : d.at # "started" => Made(d.of, d.seen)
        BY <1>1, <1>2 DEF RecordsInv, AllMade, Made
    <2>2. \A o \in Objects : Made(o, object[o])'
        BY <1>1, <1>4 DEF RecordsInv, AllMade, Made
    <2> QED BY <1>1, <2>1, <2>2 DEF AllMade, Made
<1>7. Undisturbed'
    <2>1. ASSUME stage' = "work", NEW d \in Owned', d.of \notin disturbed' PROVE Fresh(d)'
        <3>1. CASE d = e
            BY <1>2, <3>1 DEF Fresh
        <3>2. CASE d \in Owned /\ d # c
            <4>1. Fresh(d) /\ d.of # c.of /\ d.of \in Objects
                BY <1>1, <1>3, <2>1, <3>2 DEF RecordsInv, Undisturbed, OneEach
            <4> QED BY <1>1, <1>4, <4>1 DEF Fresh
        <3> QED BY <1>3, <3>1, <3>2
    <2>2. ASSUME stage' = "work", NEW o \in Objects \ disturbed', Finished(o)' PROVE Sound(o)'
        <3>1. Sound(o)
            BY <1>1, <1>3, <2>2 DEF RecordsInv, Undisturbed
        <3> QED BY <1>1, <1>4, <3>1 DEF Sound
    <2> QED BY <2>1, <2>2 DEF Undisturbed
<1>8. Truthful'
    BY <1>1 DEF RecordsInv, Truthful
<1> QED BY <1>3, <1>5, <1>6, <1>7, <1>8 DEF RecordsInv

\* An edit disturbs exactly the objects whose versions it changes.
LEMMA EditStep == ASSUME RecordsInv, NEW g \in Files, Edit(g) PROVE RecordsInv'
<1>1. PICK v \in Versions \ {content[g]} : content' = [content EXCEPT ![g] = v]
    BY DEF Edit
<1>2. UNCHANGED <<object, deps, state, compilers, stage, record, todo, jobs, waiting>>
      /\ disturbed' = disturbed \cup Unrecorded(g) /\ Owned' = Owned
    BY DEF Edit, disk, memory, Owned
<1>3. \A f : f # g => content'[f] = content[f]
    BY <1>1 DEF RecordsInv, Functions
<1>4. Functions' /\ AllMade'
    BY <1>1, <1>2 DEF RecordsInv, Functions, AllMade, Made
<1>5. OneEach' /\ Cleared' /\ Truthful'
    BY <1>2 DEF RecordsInv, OneEach, Cleared, Truthful
<1>6. Undisturbed'
    <2>1. ASSUME stage' = "work", NEW d \in Owned', d.of \notin disturbed' PROVE Fresh(d)'
        <3>1. Fresh(d) /\ g \notin DOMAIN d.seen
            BY <1>2, <2>1 DEF RecordsInv, Undisturbed, Unrecorded
        <3> QED BY <1>2, <1>3, <3>1 DEF Fresh
    <2>2. ASSUME stage' = "work", NEW o \in Objects \ disturbed', Finished(o)' PROVE Sound(o)'
        <3>1. Finished(o)
            BY <1>2, <2>2 DEF Finished
        <3>2. Sound(o) /\ g \notin DOMAIN object[o]
            BY <1>2, <2>2, <3>1 DEF RecordsInv, Undisturbed, Unrecorded, Finished
        <3> QED BY <1>2, <1>3, <3>2 DEF Sound
    <2> QED BY <2>1, <2>2 DEF Undisturbed
<1> QED BY <1>4, <1>5, <1>6 DEF RecordsInv

LEMMA DeleteStep == ASSUME RecordsInv, NEW o \in Objects, Delete(o) PROVE RecordsInv'
<1>1. UNCHANGED <<content, deps, state, compilers, stage, record, todo, jobs, waiting, disturbed>>
      /\ Owned' = Owned /\ (object' = object \/ object' = [object EXCEPT ![o] = Missing])
    BY DEF Delete, memory, Owned
<1>2. \A p \in Objects : object'[p] = object[p] \/ object'[p] = Missing
    BY <1>1 DEF RecordsInv, Functions
<1>3. Functions'
    BY <1>1 DEF RecordsInv, Functions
<1>4. AllMade'
    BY <1>1, <1>2 DEF RecordsInv, AllMade, Made
<1>5. OneEach' /\ Cleared' /\ Truthful'
    BY <1>1 DEF RecordsInv, OneEach, Cleared, Truthful
<1>6. Undisturbed'
    <2>1. ASSUME stage' = "work", NEW d \in Owned', d.of \notin disturbed' PROVE Fresh(d)'
        <3>1. Fresh(d) /\ d.of \in Objects
            BY <1>1, <2>1 DEF RecordsInv, Undisturbed, Functions, Owned
        <3> QED BY <1>1, <1>2, <3>1 DEF Fresh
    <2>2. ASSUME stage' = "work", NEW p \in Objects \ disturbed', Finished(p)' PROVE Sound(p)'
        <3>1. Sound(p)
            BY <1>1, <2>2 DEF RecordsInv, Undisturbed, Finished
        <3> QED BY <1>1, <1>2, <3>1 DEF Sound
    <2> QED BY <2>1, <2>2 DEF Undisturbed
<1> QED BY <1>3, <1>4, <1>5, <1>6 DEF RecordsInv

LEMMA NextInv == RecordsInv /\ [Next]_vars => RecordsInv'
<1> SUFFICES ASSUME RecordsInv, [Next]_vars PROVE RecordsInv' OBVIOUS
<1>1. CASE UNCHANGED vars
    <2>1. UNCHANGED <<content, object, deps, state, compilers, stage, record, todo, jobs, waiting, disturbed>>
        BY <1>1 DEF vars, disk, memory, history
    <2>2. Owned' = Owned
        BY <2>1 DEF Owned
    <2>3. Functions' /\ AllMade' /\ OneEach'
        BY <2>1, <2>2 DEF RecordsInv, Functions, AllMade, Made, OneEach
    <2>4. Cleared' /\ Truthful'
        BY <2>1 DEF RecordsInv, Cleared, Truthful
    <2>5. Undisturbed'
        BY <2>1, <2>2 DEF RecordsInv, Undisturbed, Fresh, Finished, Sound
    <2> QED BY <2>3, <2>4, <2>5 DEF RecordsInv
<1>2. CASE Begin \/ Validate \/ Throw \/ NextRound \/ Open \/ Link \/ LinkFails \/ RecordProduct
    BY <1>2, OutsideLoop
<1>3. CASE Collect
    BY <1>3, CollectStep
<1>4. CASE \E o \in Objects : Clear(o) \/ Spawn(o) \/ SpawnFails(o) \/ Publish(o)
    BY <1>4, ClearStep, SpawnStep, SpawnFailsStep, PublishStep
<1>5. CASE \E c \in compilers : Wait(c) \/ Reap(c)
    BY <1>5, EndedStep
<1>6. CASE Crash
    BY <1>6, CrashStep
<1>7. CASE \E f \in Files : Edit(f)
    BY <1>7, EditStep
<1>8. CASE \E o \in Objects : Delete(o)
    BY <1>8, DeleteStep
<1>9. CASE \E c \in compilers : Compile(c)
    <2>1. PICK c \in compilers : Compile(c)
        BY <1>9
    <2>2. CompileFrame
        BY <2>1 DEF Compile, CompileFrame
    <2>3. ReadSources(c) \/ WriteDeps(c) \/ WriteObject(c) \/ Fails(c)
        BY <2>1 DEF Compile
    <2> QED BY <2>2, <2>3, ReadStep, WriteDepsStep, WriteObjectStep, FailsStep
<1> QED BY <1>1, <1>2, <1>3, <1>4, <1>5, <1>6, <1>7, <1>8, <1>9 DEF Next, Build, Outside

\* In every reachable state of every instance, a record that would be believed belongs
\* to an object that was compiled from the sources as they are, unless the object was
\* disturbed while it was compiled (objects.cv:184).
THEOREM RecordsAreHonest == Spec => []RecordsHonest
<1>1. Spec => []RecordsInv
    BY InitInv, NextInv, PTL DEF Spec
<1> QED BY <1>1, InvHonest, PTL

\* A build that ended has no compiler left that it started and did not wait for
\* (objects.cv's reap_processes; docs/language/build.md:307).
THEOREM FailuresWait == Spec => []FailureWaits
<1>1. Spec => []RecordsInv
    BY InitInv, NextInv, PTL DEF Spec
<1>2. RecordsInv => FailureWaits
    BY NoneOwned DEF FailureWaits, Ended
<1> QED BY <1>1, <1>2, PTL
-----------------------------------------------------------------------------
(* A build that was left in peace leaves what a build from nothing would.   *)
(*                                                                          *)
(* The rounds of compile_objects compute the closure of the roots: what is  *)
(* complete is up to date, and what it asks for is complete or pending.     *)
(* An object is up to date because it was compiled in this build or because *)
(* its record is honest.  The product is up to date because it was linked   *)
(* from these objects, now or when its record was written.                  *)

Busy == {"round", "clear", "work", "publish", "link", "record"}
InRound == {"clear", "work", "publish"}

Shape ==
    /\ roots \subseteq Objects /\ pending \subseteq Objects
    /\ completed \subseteq Objects /\ files \subseteq Objects
    /\ \A f \in Files : content[f] \in Versions
    /\ stage \in InRound => files = pending \ completed /\ jobs \subseteq files
    /\ stage = "clear" => todo \subseteq files
    /\ stage = "publish" => todo \subseteq jobs
    /\ stage \in {"link", "record"} => pending \subseteq completed /\ pstate = NoProduct

\* What the rounds have achieved.
Complete ==
    quiet /\ stage \in Busy /\ completed \cap disturbed = {} =>
        /\ \A o \in completed : object[o] = Current(o)
        /\ roots \subseteq completed \cup pending
        /\ \A o \in completed : \A g \in Includes[o][content[o]] :
             Selects[g] \subseteq completed \cup pending
        /\ completed \cup pending \subseteq Closure

\* An object is kept for its record, which a refresh of this round has confirmed.
Kept ==
    quiet /\ stage \in InRound => \A o \in files \ jobs :
        /\ record[o] \in {NoRecord, Fingerprint(o)}
        /\ \/ stage = "clear" /\ o \in todo
           \/ record[o] = state[o] /\ state[o] # NoRecord

\* A job has compiled what is there.
Fetched ==
    quiet /\ stage = "publish" => \A o \in jobs \ disturbed :
        object[o] = Current(o) /\ record[o].deps = Current(o)

\* The product and its record belong together.
Linked ==
    /\ ~spoiled /\ pstate # NoProduct => pstate.objects = pstate.output
    /\ stage = "record" /\ ~spoiled /\ product # Missing /\ (\A o \in completed : object[o] # Missing)
         => product = [o \in completed |-> object[o]]
    /\ stage = "record" /\ quiet => product = [o \in completed |-> object[o]]

BuildInv == RecordsInv /\ Shape /\ Complete /\ Kept /\ Fetched /\ Linked /\ BuildTruthful

\* What a compiler changes for the others: nothing, in a quiet build, but the files of
\* its own job, and no object behind the back of a linker that ended.
LEMMA CompilerStep ==
    ASSUME RecordsInv, NEW c \in compilers, Compile(c)
    PROVE  /\ UNCHANGED <<content, state, product, pstate, roots, stage, memory>>
           /\ quiet' => quiet
           /\ ~spoiled' => ~spoiled
           /\ \A o \in Objects :
                quiet' /\ ~(stage \in {"work", "reap"} /\ o \in jobs \ waiting)
                  => /\ object'[o] = object[o] /\ deps'[o] = deps[o]
                     /\ o \in disturbed => o \in disturbed'
           /\ stage = "record" /\ ~spoiled' => \A o \in Objects : object'[o] = object[o]
<1>0. object = [o \in Objects |-> object[o]] /\ deps = [o \in Objects |-> deps[o]]
  BY DEF RecordsInv, Functions
<1>1. c.owned => stage \in {"work", "reap"} /\ c.of \in jobs \ waiting
  BY DEF RecordsInv, OneEach, Owned
<1>2. UNCHANGED <<content, state, product, pstate, roots, stage, memory>>
  BY DEF Compile
<1>3. CASE ReadSources(c)
  BY <1>1, <1>2, <1>3 DEF ReadSources
<1>4. CASE WriteDeps(c)
  <2>1. \A o \in Objects : o # c.of => deps'[o] = deps[o]
    BY <1>0, <1>4 DEF WriteDeps
  <2>2. disturbed \subseteq disturbed' /\ quiet' = (quiet /\ c.owned)
    BY <1>4 DEF WriteDeps, Disturbs
  <2> QED
    BY <1>1, <1>2, <1>4, <2>1, <2>2 DEF WriteDeps
<1>5. CASE WriteObject(c)
  <2>1. \A o \in Objects : o # c.of => object'[o] = object[o]
    BY <1>0, <1>5 DEF WriteObject
  <2>2. disturbed \subseteq disturbed' /\ quiet' = (quiet /\ c.owned)
    BY <1>5 DEF WriteObject, Disturbs
  <2>3. spoiled' = (spoiled \/ stage = "record") /\ deps' = deps
    BY <1>5 DEF WriteObject
  <2> QED
    BY <1>1, <1>2, <2>1, <2>2, <2>3
<1>6. CASE Fails(c)
  <2>1. \A o \in Objects : o # c.of => object'[o] = object[o]
    BY <1>0, <1>6 DEF Fails
  <2>2. c.owned /\ UNCHANGED <<deps, disturbed, spoiled, quiet>>
    BY <1>6 DEF Fails
  <2> QED
    BY <1>1, <1>2, <2>1, <2>2
<1> QED
  BY <1>3, <1>4, <1>5, <1>6 DEF Compile

\* The sets of the rounds are what they say.
LEMMA ShapeStep == ASSUME RecordsInv, Shape, [Next]_vars PROVE Shape'
<1> USE DEF Shape
<1>1. ASSUME NEW c \in compilers, Compile(c) PROVE Shape'
  <2>1. UNCHANGED <<content, pstate, roots, stage, pending, completed, files, todo, jobs>>
    BY <1>1, CompilerStep DEF memory
  <2> QED
    BY <2>1
<1>2. CASE Begin \/ Validate \/ Throw \/ Collect
  BY <1>2 DEF Begin, Validate, Throw, Collect, Forgotten, InRound, Ended, disk
<1>3. CASE NextRound
  <2>1. pending' \subseteq Objects
    BY <1>3, ShapeAssumption DEF NextRound
  <2>2. /\ stage' = "round" /\ files' = {} /\ completed' = completed \cup files
        /\ UNCHANGED <<content, roots>>
    BY <1>3 DEF NextRound
  <2> QED
    BY <2>1, <2>2 DEF InRound
<1>4. CASE Open \/ Link \/ LinkFails \/ RecordProduct
  BY <1>4 DEF Open, Link, LinkFails, RecordProduct, Forgotten, InRound, memory
<1>5. ASSUME NEW o \in Objects, Clear(o) PROVE Shape'
  BY <1>5 DEF Clear, InRound
<1>6. ASSUME NEW o \in Objects, Spawn(o) \/ SpawnFails(o) \/ Publish(o) PROVE Shape'
  BY <1>6 DEF Spawn, SpawnFails, Publish, InRound, memory, disk
<1>7. ASSUME NEW c \in compilers, Wait(c) \/ Reap(c) PROVE Shape'
  BY <1>7 DEF Wait, Reap, InRound, memory, disk
<1>8. CASE Crash
  BY <1>8 DEF Crash, Forgotten, InRound
<1>9. ASSUME NEW f \in Files, Edit(f) PROVE Shape'
  <2>1. \A g \in Files : content'[g] \in Versions
    BY <1>9 DEF Edit, RecordsInv, Functions
  <2> QED
    BY <1>9, <2>1 DEF Edit, memory, disk
<1>10. ASSUME NEW o \in Objects, Delete(o) PROVE Shape'
  BY <1>10 DEF Delete, memory
<1>11. CASE UNCHANGED vars
  BY <1>11 DEF vars, memory, disk
<1> QED
  BY <1>1, <1>2, <1>3, <1>4, <1>5, <1>6, <1>7, <1>8, <1>9, <1>10, <1>11 DEF Next, Build, Outside

\* What the current sources ask for depends on the sources and the roots only.
LEMMA ClosureStays ==
    ASSUME content' = content, roots' = roots
    PROVE  Closure' = Closure /\ \A o : Current(o)' = Current(o)
BY DEF Closure, Current

\* The closure has what its members ask for.
LEMMA ClosureClosed ==
    ASSUME NEW o \in Closure, NEW g \in Includes[o][content[o]], Selects[g] \subseteq Objects
    PROVE  Selects[g] \subseteq Closure
<1> SUFFICES ASSUME NEW p \in Selects[g], NEW S \in SUBSET Objects, roots \subseteq S,
                    \A q \in S : \A h \in Includes[q][content[q]] : Selects[h] \subseteq S
             PROVE  p \in S
  BY DEF Closure
<1>1. o \in S
  BY DEF Closure
<1> QED
  BY <1>1

\* Steps that leave the completed objects, and what is pending, as they are.
LEMMA CompleteStays ==
    ASSUME Complete, UNCHANGED <<content, roots, completed, pending>>, quiet' => quiet,
           stage' \in Busy => stage \in Busy,
           stage' \in Busy /\ quiet' =>
             \A o \in completed : object'[o] = object[o] /\ (o \in disturbed => o \in disturbed')
    PROVE  Complete'
<1> SUFFICES ASSUME quiet', stage' \in Busy, completed' \cap disturbed' = {}
             PROVE  /\ \A o \in completed' : object'[o] = Current(o)'
                    /\ roots' \subseteq completed' \cup pending'
                    /\ \A o \in completed' : \A g \in Includes[o][content'[o]] :
                         Selects[g] \subseteq completed' \cup pending'
                    /\ completed' \cup pending' \subseteq Closure'
  BY DEF Complete
<1>1. completed \cap disturbed = {}
  OBVIOUS
<1>2. Closure' = Closure /\ \A o : Current(o)' = Current(o)
  BY ClosureStays
<1> QED
  BY <1>1, <1>2 DEF Complete

\* In a quiet round that comes to its end every object is known to be up to date.
LEMMA Known ==
    ASSUME RecordsInv, Kept, Fetched, quiet, stage = "publish", NEW o \in files, o \in Objects,
           o \notin disturbed
    PROVE  object[o] = Current(o) /\ record[o].deps = Current(o)
<1>1. CASE o \in jobs
  BY <1>1 DEF Fetched
<1>2. CASE o \notin jobs
  <2>1. record[o] = state[o] /\ state[o] # NoRecord /\ state[o] = Fingerprint(o)
    BY <1>2 DEF Kept, InRound
  <2>2. object[o] = Current(o)
    BY <2>1, InvHonest DEF RecordsHonest
  <2>3. state[o].deps = state[o].object
    BY DEF RecordsInv, Truthful
  <2>4. state[o].object = object[o]
    BY <2>1 DEF Fingerprint
  <2> QED
    BY <2>1, <2>2, <2>3, <2>4
<1> QED
  BY <1>1, <1>2

\* The end of a round completes its objects and asks for what they include.
LEMMA RoundCompletes == ASSUME RecordsInv, Shape, Complete, Kept, Fetched, NextRound PROVE Complete'
<1> SUFFICES ASSUME quiet', completed' \cap disturbed' = {}
             PROVE  /\ \A o \in completed' : object'[o] = Current(o)'
                    /\ roots' \subseteq completed' \cup pending'
                    /\ \A o \in completed' : \A g \in Includes[o][content'[o]] :
                         Selects[g] \subseteq completed' \cup pending'
                    /\ completed' \cup pending' \subseteq Closure'
  BY DEF Complete
<1>1. /\ stage = "publish" /\ completed' = completed \cup files
      /\ pending' = UNION {Selects[h] : h \in Headers \cap UNION {DOMAIN record[o].deps : o \in files}}
      /\ UNCHANGED <<content, object, roots, quiet, disturbed>>
  BY DEF NextRound, disk, history
<1>2. files = pending \ completed /\ completed' = completed \cup pending /\ files \subseteq Objects
  BY <1>1 DEF Shape, InRound
<1>3. /\ \A o \in completed : object[o] = Current(o)
      /\ roots \subseteq completed \cup pending
      /\ \A o \in completed : \A g \in Includes[o][content[o]] :
           Selects[g] \subseteq completed \cup pending
      /\ completed \cup pending \subseteq Closure
  BY <1>1 DEF Complete, Busy
<1>4. ASSUME NEW o \in files PROVE object[o] = Current(o) /\ record[o].deps = Current(o)
  BY <1>1, <1>2, Known
<1>5. ASSUME NEW o \in Objects
      PROVE  Includes[o][content[o]] \subseteq Headers /\ o \notin Headers
  <2>1. content[o] \in Versions
    BY DEF Shape, Files
  <2> QED
    BY <2>1, ShapeAssumption
<1>6. ASSUME NEW o \in files PROVE Headers \cap DOMAIN record[o].deps = Includes[o][content[o]]
  <2>1. DOMAIN record[o].deps = {o} \cup Includes[o][content[o]]
    BY <1>4 DEF Current
  <2> QED
    BY <1>2, <1>5, <2>1
<1>7. Closure' = Closure /\ \A o : Current(o)' = Current(o)
  BY <1>1, ClosureStays
<1>8. ASSUME NEW o \in files, NEW g \in Includes[o][content[o]] PROVE Selects[g] \subseteq pending'
  BY <1>1, <1>6
<1>9. pending' \subseteq Closure
  <2> SUFFICES ASSUME NEW o \in files, NEW h \in Headers \cap DOMAIN record[o].deps
               PROVE  Selects[h] \subseteq Closure
    BY <1>1
  <2>1. h \in Includes[o][content[o]] /\ o \in Closure /\ Selects[h] \subseteq Objects
    BY <1>2, <1>3, <1>6, ShapeAssumption
  <2> QED
    BY <2>1, ClosureClosed
<1> QED
  BY <1>1, <1>2, <1>3, <1>4, <1>7, <1>8, <1>9

\* Every step keeps what the rounds have achieved.
LEMMA CompleteStep ==
    ASSUME RecordsInv, Shape, Complete, Kept, Fetched, [Next]_vars PROVE Complete'
<1>1. ASSUME NEW c \in compilers, Compile(c) PROVE Complete'
  <2>1. /\ UNCHANGED <<content, roots, stage, completed, pending>>
        /\ quiet' => quiet
        /\ \A o \in Objects :
             quiet' /\ ~(stage \in {"work", "reap"} /\ o \in jobs \ waiting)
               => object'[o] = object[o] /\ (o \in disturbed => o \in disturbed')
    BY <1>1, CompilerStep DEF memory
  <2>2. stage \in Busy /\ stage \in {"work", "reap"} => \A o \in completed : o \notin jobs
    BY DEF Busy, Shape, InRound
  <2>3. stage' \in Busy /\ quiet' =>
          \A o \in completed : object'[o] = object[o] /\ (o \in disturbed => o \in disturbed')
    BY <2>1, <2>2 DEF Shape
  <2> QED
    BY <2>1, <2>3, CompleteStays
<1>2. CASE Begin
  <2>1. /\ completed' = {} /\ pending' = roots /\ UNCHANGED <<roots, content>>
    BY <1>2 DEF Begin
  <2>2. roots \subseteq Closure'
    BY <2>1 DEF Shape, Closure
  <2> QED
    BY <2>1, <2>2 DEF Complete
<1>3. CASE NextRound
  BY <1>3, RoundCompletes
<1>4. CASE Validate \/ Collect \/ Link
  BY <1>4, CompleteStays DEF Validate, Collect, Link, disk, history, memory, Busy
<1>5. CASE Open
  <2>1. CASE stage' = "built"
    BY <2>1 DEF Complete, Busy
  <2>2. CASE stage' = "link"
    BY <1>5, <2>2, CompleteStays DEF Open, history, memory, Busy
  <2> QED
    BY <1>5, <2>1, <2>2 DEF Open
<1>6. ASSUME NEW o \in Objects, Clear(o) \/ Spawn(o) \/ Publish(o) PROVE Complete'
  <2>1. CASE Clear(o)
    BY <2>1, CompleteStays DEF Clear, history, Busy
  <2>2. CASE Spawn(o)
    BY <2>2, CompleteStays DEF Spawn, disk, history, Busy
  <2>3. CASE Publish(o)
    BY <2>3, CompleteStays DEF Publish, history, Busy
  <2> QED
    BY <1>6, <2>1, <2>2, <2>3
<1>7. ASSUME NEW o \in Objects, SpawnFails(o) PROVE Complete'
  BY <1>7 DEF SpawnFails, Complete, Busy
<1>8. ASSUME NEW c \in compilers, Wait(c) \/ Reap(c) PROVE Complete'
  BY <1>8, CompleteStays DEF Wait, Reap, disk, history, memory, Busy
<1>9. CASE Throw \/ LinkFails \/ RecordProduct \/ Crash
  BY <1>9 DEF Throw, LinkFails, RecordProduct, Crash, Complete, Busy
<1>10. ASSUME (\E f \in Files : Edit(f)) \/ \E o \in Objects : Delete(o) PROVE Complete'
  BY <1>10 DEF Edit, Delete, Complete
<1>11. CASE UNCHANGED vars
  BY <1>11, CompleteStays DEF vars, disk, history, memory
<1> QED
  BY <1>1, <1>2, <1>3, <1>4, <1>5, <1>6, <1>7, <1>8, <1>9, <1>10, <1>11 DEF Next, Build, Outside

\* Nothing but the compilers of its jobs touches the objects of a quiet round.
LEMMA KeptStep == ASSUME RecordsInv, Shape, Kept, [Next]_vars PROVE Kept'
<1> DEFINE Holds(o) == /\ record[o] \in {NoRecord, Fingerprint(o)}
                       /\ \/ stage = "clear" /\ o \in todo
                          \/ record[o] = state[o] /\ state[o] # NoRecord
<1>0. ASSUME NEW o, UNCHANGED <<content, object[o], deps[o]>>
      PROVE  Fingerprint(o)' = Fingerprint(o)
  BY <1>0 DEF Fingerprint
<1>i. ASSUME quiet, stage \in InRound, NEW o \in files \ jobs PROVE Holds(o) /\ o \in Objects
  BY <1>i DEF Kept, Shape
<1>1. ASSUME NEW c \in compilers, Compile(c) PROVE Kept'
  <2>1. /\ UNCHANGED <<content, state, stage, files, jobs, record, todo>>
        /\ quiet' => quiet
        /\ \A o \in Objects :
             quiet' /\ ~(stage \in {"work", "reap"} /\ o \in jobs \ waiting)
               => object'[o] = object[o] /\ deps'[o] = deps[o]
    BY <1>1, CompilerStep DEF memory
  <2>2. ASSUME quiet', stage' \in InRound, NEW o \in files' \ jobs' PROVE Holds(o)'
    <3>1. quiet /\ stage \in InRound /\ o \in files \ jobs
      BY <2>1, <2>2
    <3>2. Holds(o) /\ o \in Objects
      BY <1>i, <3>1
    <3>3. object'[o] = object[o] /\ deps'[o] = deps[o]
      BY <2>1, <2>2, <3>1, <3>2
    <3>4. Fingerprint(o)' = Fingerprint(o)
      BY <1>0, <2>1, <3>3
    <3> QED
      BY <2>1, <3>2, <3>4
  <2> QED
    BY <2>2 DEF Kept
<1>2. CASE Validate
  <2>1. /\ record' = [o \in Objects |->
                        IF reusable /\ o \in files' /\ state[o] # NoRecord
                        THEN Fingerprint(o) ELSE NoRecord]
        /\ todo' = files' /\ stage' = "clear" /\ UNCHANGED <<content, object, deps>>
    BY <1>2 DEF Validate, disk
  <2>2. \A o : Fingerprint(o)' = Fingerprint(o)
    BY <2>1, <1>0
  <2>3. files' \subseteq Objects
    BY <1>2 DEF Validate, Shape
  <2> QED
    BY <2>1, <2>2, <2>3 DEF Kept
<1>3. ASSUME NEW p \in Objects, Clear(p) PROVE Kept'
  <2>1. /\ stage = "clear" /\ p \in todo /\ todo' = todo \ {p} /\ jobs \subseteq jobs'
        /\ stage' = (IF todo' = {} THEN "work" ELSE "clear")
        /\ UNCHANGED <<content, object, deps, files, record, quiet>>
    BY <1>3 DEF Clear, history
  <2>2. p \notin jobs' => state' = state /\ record[p] = state[p] /\ state[p] # NoRecord
    BY <1>3 DEF Clear
  <2>3. \A o \in Objects : o # p => state'[o] = state[o]
    BY <1>3 DEF Clear, RecordsInv, Functions
  <2>4. ASSUME quiet', stage' \in InRound, NEW o \in files' \ jobs' PROVE Holds(o)'
    <3>1. Holds(o) /\ o \in Objects /\ Fingerprint(o)' = Fingerprint(o)
      BY <1>0, <1>i, <2>1, <2>4 DEF InRound
    <3>2. CASE o = p
      BY <2>1, <2>2, <2>4, <3>1, <3>2
    <3>3. CASE o # p
      <4>1. (stage' = "clear" /\ o \in todo') \/ o \notin todo
        BY <2>1, <3>3
      <4> QED
        BY <2>1, <2>3, <3>1, <3>3, <4>1
    <3> QED
      BY <3>2, <3>3
  <2> QED
    BY <2>4 DEF Kept
<1> DEFINE Same(o) == /\ Fingerprint(o)' = Fingerprint(o) /\ record'[o] = record[o]
                      /\ state'[o] = state[o]
<1>s. ASSUME quiet' => quiet, UNCHANGED <<files, jobs>>,
             stage \in {"work", "publish"} \/ (stage' = stage /\ todo' = todo),
             stage' \in InRound => stage \in InRound,
             \A o \in files \ jobs : Same(o)
      PROVE  Kept'
  <2>1. ASSUME quiet', stage' \in InRound, NEW o \in files' \ jobs' PROVE Holds(o)'
    <3>1. quiet /\ stage \in InRound /\ o \in files \ jobs
      BY <1>s, <2>1
    <3>2. Holds(o) /\ Same(o)
      BY <1>i, <1>s, <3>1
    <3> QED
      BY <1>s, <3>2
  <2> QED
    BY <2>1 DEF Kept
<1> HIDE DEF Holds
<1>4. CASE Collect
  <2>1. \A o \in files \ jobs : Same(o)
    BY <1>0, <1>4 DEF Collect, disk, Shape
  <2>2. /\ quiet' = quiet /\ UNCHANGED <<files, jobs>>
        /\ stage = "work" /\ stage \in InRound
    BY <1>4 DEF Collect, history, InRound
  <2> HIDE DEF Same
  <2> QED
    BY <1>s, <2>1, <2>2
<1>5. ASSUME NEW p \in Objects, Publish(p) PROVE Kept'
  <2>1. p \in jobs /\ stage = "publish"
    BY <1>5 DEF Publish, Shape
  <2>2. \A o \in files \ jobs : Same(o)
    BY <1>0, <1>5, <2>1 DEF Publish, Shape, RecordsInv, Functions
  <2>3. quiet' = quiet /\ UNCHANGED <<files, jobs, stage>>
    BY <1>5 DEF Publish, history
  <2> HIDE DEF Same
  <2> QED
    BY <1>s, <2>1, <2>2, <2>3
<1>6. ASSUME NEW p \in Objects, Spawn(p) PROVE Kept'
  <2>1. \A o \in files \ jobs : Same(o)
    BY <1>0, <1>6 DEF Spawn, disk
  <2> QED
    BY <1>6, <1>s, <2>1 DEF Spawn, history
<1>7. ASSUME NEW c \in compilers, Wait(c) \/ Reap(c) PROVE Kept'
  <2>1. \A o \in files \ jobs : Same(o)
    BY <1>0, <1>7 DEF Wait, Reap, disk, memory
  <2>2. stage' \in InRound => stage = "work"
    BY <1>7 DEF Wait, Reap, InRound
  <2>3. CASE stage' \in InRound
    BY <1>7, <1>s, <2>1, <2>2, <2>3 DEF Wait, Reap, history, memory, InRound
  <2> QED
    BY <2>3 DEF Kept
<1>8. CASE UNCHANGED vars
  <2>1. \A o \in files \ jobs : Same(o)
    BY <1>0, <1>8 DEF vars, disk, memory
  <2> QED
    BY <1>8, <1>s, <2>1 DEF vars, history, memory
<1>9. CASE Begin \/ Throw \/ NextRound \/ Open \/ Link \/ LinkFails \/ RecordProduct \/ Crash
  BY <1>9 DEF Begin, Throw, NextRound, Open, Link, LinkFails, RecordProduct, Crash, Kept, InRound
<1>10. ASSUME NEW o \in Objects, SpawnFails(o) PROVE Kept'
  BY <1>10 DEF SpawnFails, Kept, InRound
<1>11. ASSUME (\E f \in Files : Edit(f)) \/ \E o \in Objects : Delete(o) PROVE Kept'
  BY <1>11 DEF Edit, Delete, Kept
<1> QED
  BY <1>1, <1>2, <1>3, <1>4, <1>5, <1>6, <1>7, <1>8, <1>9, <1>10, <1>11 DEF Next, Build, Outside

\* What the second refresh finds of a job is what its compiler made of the sources.
LEMMA FetchedStep == ASSUME RecordsInv, Shape, Fetched, [Next]_vars PROVE Fetched'
<1>1. ASSUME NEW c \in compilers, Compile(c) PROVE Fetched'
  <2>1. /\ UNCHANGED <<content, stage, jobs, record>>
        /\ quiet' => quiet
        /\ \A o \in Objects :
             quiet' /\ stage = "publish" => object'[o] = object[o] /\ (o \in disturbed => o \in disturbed')
    BY <1>1, CompilerStep DEF memory
  <2>2. \A o : Current(o)' = Current(o)
    BY <2>1 DEF Current
  <2>3. jobs \subseteq Objects
    BY DEF RecordsInv, OneEach
  <2> QED
    BY <2>1, <2>2, <2>3 DEF Fetched
<1>2. CASE Collect
  <2> SUFFICES ASSUME stage' = "publish", NEW o \in jobs, o \notin disturbed
               PROVE  object[o] = Current(o) /\ record'[o].deps = Current(o)
    <3>1. /\ UNCHANGED <<jobs, disturbed, object>>
          /\ \A o : Current(o)' = Current(o)
        BY <1>2 DEF Collect, Current, history, disk
    <3> QED BY <3>1 DEF Fetched
  <2>1. /\ stage = "work" /\ waiting = {} /\ Owned = {} /\ o \in Objects
        /\ record'[o] = Fingerprint(o) /\ record'[o] # NoRecord
    BY <1>2 DEF Collect, RecordsInv, OneEach
  <2>2. Finished(o)
    BY <2>1 DEF Finished
  <2>3. object[o] # Missing /\ record'[o].deps = [f \in deps[o] |-> content[f]]
    BY <2>1 DEF Fingerprint
  <2>4. deps[o] = DOMAIN object[o] /\ \A f \in DOMAIN object[o] : object[o][f] = content[f]
    BY <2>1, <2>2, <2>3 DEF RecordsInv, Undisturbed, Sound
  <2>5. /\ object[o] = [f \in DOMAIN object[o] |-> object[o][f]] /\ o \in DOMAIN object[o]
        /\ DOMAIN object[o] = {o} \cup Includes[o][object[o][o]]
    BY <2>1, <2>3 DEF RecordsInv, AllMade, Made
  <2>6. object[o] = Current(o)
    BY <2>4, <2>5 DEF Current
  <2> QED
    BY <2>3, <2>4, <2>5, <2>6
<1>3. ASSUME NEW p \in Objects, Publish(p) PROVE Fetched'
  BY <1>3 DEF Publish, Fetched, Current, history
<1>4. ASSUME NEW o \in Objects, Clear(o) \/ Spawn(o) \/ SpawnFails(o) PROVE Fetched'
  BY <1>4 DEF Clear, Spawn, SpawnFails, Fetched
<1>5. ASSUME NEW c \in compilers, Wait(c) \/ Reap(c) PROVE Fetched'
  BY <1>5 DEF Wait, Reap, Fetched
<1>6. CASE Begin \/ Validate \/ Throw \/ NextRound \/ Open \/ Link \/ LinkFails \/ RecordProduct \/ Crash
  BY <1>6
  DEF Begin, Validate, Throw, NextRound, Open, Link, LinkFails, RecordProduct, Crash, Fetched
<1>7. ASSUME (\E f \in Files : Edit(f)) \/ \E o \in Objects : Delete(o) PROVE Fetched'
  BY <1>7 DEF Edit, Delete, Fetched
<1>8. CASE UNCHANGED vars
  BY <1>8 DEF vars, disk, memory, history, Fetched, Current
<1> QED
  BY <1>1, <1>2, <1>3, <1>4, <1>5, <1>6, <1>7, <1>8 DEF Next, Build, Outside
\* When nothing is pending any more, the rounds have reached all that the sources ask for.
LEMMA ClosureReached ==
    ASSUME Shape, Complete, quiet, stage \in Busy, completed \cap disturbed = {}, pending \subseteq completed
    PROVE  completed = Closure /\ \A o \in completed : object[o] = Current(o)
<1>1. /\ \A o \in completed : object[o] = Current(o)
      /\ roots \subseteq completed \cup pending
      /\ \A o \in completed : \A g \in Includes[o][content[o]] :
           Selects[g] \subseteq completed \cup pending
      /\ completed \cup pending \subseteq Closure
  BY DEF Complete
<1>2. completed \cup pending = completed
  OBVIOUS
<1>3. /\ completed \in SUBSET Objects /\ roots \subseteq completed
      /\ \A p \in completed : \A g \in Includes[p][content[p]] : Selects[g] \subseteq completed
  BY <1>1, <1>2 DEF Shape
<1>4. Closure \subseteq completed
  BY <1>3 DEF Closure
<1> QED
  BY <1>1, <1>2, <1>4

\* Only a compiler of the build takes an object off the disturbed ones.
LEMMA DisturbedStays ==
    ASSUME RecordsInv, NEW c \in compilers, Compile(c), stage \notin {"work", "reap"}
    PROVE  disturbed \subseteq disturbed'
<1>1. ~c.owned
  BY DEF RecordsInv, OneEach, Owned
<1>2. CASE ReadSources(c) \/ Fails(c)
  BY <1>1, <1>2 DEF ReadSources, Fails
<1>3. CASE WriteDeps(c) \/ WriteObject(c)
  BY <1>3 DEF WriteDeps, WriteObject, Disturbs
<1> QED
  BY <1>2, <1>3 DEF Compile

\* The record of a product is written for what the linker was given.
LEMMA LinkedStep == ASSUME RecordsInv, Shape, Linked, [Next]_vars PROVE Linked'
<1> DEFINE Objs == [o \in completed |-> object[o]]
<1>a. ASSUME stage' # "record", pstate' \in {pstate, NoProduct}, spoiled' = spoiled PROVE Linked'
  BY <1>a DEF Linked
<1>1. ASSUME NEW c \in compilers, Compile(c) PROVE Linked'
  <2>1. /\ UNCHANGED <<product, pstate, stage, completed>> /\ (quiet' => quiet) /\ (~spoiled' => ~spoiled)
        /\ stage = "record" /\ (quiet' \/ ~spoiled') => \A o \in Objects : object'[o] = object[o]
    BY <1>1, CompilerStep DEF memory
  <2>2. stage = "record" /\ (quiet' \/ ~spoiled') =>
          Objs' = Objs /\ \A o \in completed : object'[o] = object[o]
    BY <2>1 DEF Shape
  <2> QED
    BY <2>1, <2>2 DEF Linked
<1>2. CASE Link
  <2>1. /\ pstate = NoProduct /\ pstate' = pstate /\ product' = Objs /\ UNCHANGED <<completed, object>>
    BY <1>2 DEF Link, Shape, memory
  <2>2. Objs' = Objs
    BY <2>1
  <2> QED
    BY <2>1, <2>2 DEF Linked
<1>3. CASE RecordProduct
  <2>1. /\ stage = "record" /\ stage' = "built" /\ spoiled' = spoiled
        /\ pstate' \in {ProductFingerprint, pstate}
    BY <1>3 DEF RecordProduct, history
  <2>2. ASSUME ProductFingerprint # NoProduct, ~spoiled
        PROVE  ProductFingerprint.objects = ProductFingerprint.output
    <3>1. /\ product # Missing /\ \A o \in completed : object[o] # Missing
          /\ ProductFingerprint = [objects |-> Objs, output |-> product]
      BY <2>2 DEF ProductFingerprint
    <3>2. product = Objs
      BY <2>1, <2>2, <3>1 DEF Linked
    <3> QED
      BY <3>1, <3>2
  <2> QED
    BY <2>1, <2>2 DEF Linked
<1>4. ASSUME NEW o \in Objects, Delete(o) PROVE Linked'
  <2>1. UNCHANGED <<pstate, stage, completed, spoiled>> /\ quiet' = FALSE
    BY <1>4 DEF Delete, memory
  <2>2. CASE object' = [object EXCEPT ![o] = Missing] /\ UNCHANGED product
    <3>1. \A p \in Objects : object'[p] = IF p = o THEN Missing ELSE object[p]
      BY <2>2 DEF RecordsInv, Functions
    <3>2. CASE o \in completed
      BY <2>1, <2>2, <3>1, <3>2 DEF Linked
    <3>3. CASE o \notin completed
      <4>1. Objs' = Objs /\ \A p \in completed : object'[p] = object[p]
        BY <2>1, <3>1, <3>3 DEF Shape
      <4> QED
        BY <2>1, <2>2, <4>1 DEF Linked
    <3> QED
      BY <3>2, <3>3
  <2>3. CASE product' = Missing
    BY <2>1, <2>3 DEF Linked
  <2> QED
    BY <1>4, <2>2, <2>3 DEF Delete
<1>5. ASSUME NEW f \in Files, Edit(f) PROVE Linked'
  BY <1>5 DEF Edit, Linked, disk, memory
<1>6. CASE Begin \/ Validate \/ Throw \/ Collect \/ NextRound
  BY <1>6, <1>a DEF Begin, Validate, Throw, Collect, NextRound, disk, history
<1>7. CASE Open \/ LinkFails \/ Crash
  BY <1>7, <1>a DEF Open, LinkFails, Crash, history
<1>8. ASSUME NEW o \in Objects, Clear(o) \/ Publish(o) PROVE Linked'
  BY <1>8, <1>a DEF Clear, Publish, history
<1>9. ASSUME NEW o \in Objects, Spawn(o) \/ SpawnFails(o) PROVE Linked'
  BY <1>9, <1>a DEF Spawn, SpawnFails, history, disk
<1>10. ASSUME NEW c \in compilers, Wait(c) \/ Reap(c) PROVE Linked'
  BY <1>10, <1>a DEF Wait, Reap, disk, history
<1>11. CASE UNCHANGED vars
  BY <1>11 DEF vars, disk, memory, history, Linked
<1> QED
  BY <1>1, <1>2, <1>3, <1>4, <1>5, <1>6, <1>7, <1>8, <1>9, <1>10, <1>11 DEF Next, Build, Outside

\* A build is reported as built by Open, for the record of the product, and by RecordProduct.
LEMMA TruthfulStep ==
    ASSUME RecordsInv, Shape, Complete, Linked, BuildTruthful, [Next]_vars PROVE BuildTruthful'
<1> SUFFICES ASSUME stage' = "built", quiet', disturbed' = {}, ~spoiled'
             PROVE  product' = [o \in Closure' |-> Current(o)']
  BY DEF BuildTruthful
<1>a. ASSUME UNCHANGED <<content, roots, product>>,
             product = [o \in Closure |-> Current(o)]
      PROVE  product' = [o \in Closure' |-> Current(o)']
  <2>1. Closure' = Closure /\ \A o : Current(o)' = Current(o)
    BY <1>a, ClosureStays
  <2> QED
    BY <1>a, <2>1
<1>b. ASSUME quiet, stage \in Busy, disturbed = {}, pending \subseteq completed,
             UNCHANGED <<content, roots, product>>,
             product = [o \in completed |-> object[o]]
      PROVE  product' = [o \in Closure' |-> Current(o)']
  <2>1. completed = Closure /\ \A o \in completed : object[o] = Current(o)
    BY <1>b, ClosureReached
  <2>2. product = [o \in Closure |-> Current(o)]
    BY <1>b, <2>1
  <2> QED
    BY <1>a, <1>b, <2>2
<1>1. ASSUME NEW c \in compilers, Compile(c) PROVE product' = [o \in Closure' |-> Current(o)']
  <2>1. /\ UNCHANGED <<content, roots, product, stage>> /\ quiet /\ ~spoiled
    BY <1>1, CompilerStep
  <2>2. disturbed = {}
    BY <1>1, <2>1, DisturbedStays
  <2> QED
    BY <1>a, <2>1, <2>2 DEF BuildTruthful
<1>2. CASE Open
  <2>1. /\ stage = "round" /\ pending \subseteq completed /\ quiet /\ disturbed = {} /\ ~spoiled
        /\ ProductFingerprint # NoProduct /\ ProductFingerprint = pstate
        /\ UNCHANGED <<content, roots, product>>
    BY <1>2 DEF Open, history
  <2>2. ProductFingerprint = [objects |-> [o \in completed |-> object[o]], output |-> product]
    BY <2>1 DEF ProductFingerprint
  <2>3. pstate.objects = pstate.output
    BY <2>1 DEF Linked
  <2>4. product = [o \in completed |-> object[o]]
    BY <2>1, <2>2, <2>3
  <2> QED
    BY <1>b, <2>1, <2>4 DEF Busy
<1>3. CASE RecordProduct
  <2>1. /\ stage = "record" /\ quiet /\ disturbed = {} /\ UNCHANGED <<content, roots, product>>
    BY <1>3 DEF RecordProduct, history
  <2> QED
    BY <1>b, <2>1 DEF Busy, Shape, Linked
<1>4. CASE UNCHANGED vars
  <2>1. /\ UNCHANGED <<content, roots, product>> /\ stage = "built" /\ quiet /\ disturbed = {} /\ ~spoiled
    BY <1>4 DEF vars, disk, history
  <2> QED
    BY <1>a, <2>1 DEF BuildTruthful
<1>5. CASE \/ Begin \/ Validate \/ Throw \/ Collect \/ NextRound \/ Link \/ LinkFails \/ Crash
  BY <1>5 DEF Begin, Validate, Throw, Collect, NextRound, Link, LinkFails, Crash
<1>6. ASSUME NEW o \in Objects, Clear(o) \/ Spawn(o) \/ SpawnFails(o) \/ Publish(o) PROVE FALSE
  BY <1>6 DEF Clear, Spawn, SpawnFails, Publish
<1>7. ASSUME NEW c \in compilers, Wait(c) \/ Reap(c) PROVE FALSE
  BY <1>7 DEF Wait, Reap
<1>8. ASSUME (\E f \in Files : Edit(f)) \/ \E o \in Objects : Delete(o) PROVE FALSE
  BY <1>8 DEF Edit, Delete
<1> QED
  BY <1>1, <1>2, <1>3, <1>4, <1>5, <1>6, <1>7, <1>8 DEF Next, Build, Outside

LEMMA InitBuild == Init => BuildInv
<1> SUFFICES ASSUME Init PROVE BuildInv
  OBVIOUS
<1>1. Shape
  <2>1. roots \subseteq Objects
    BY ShapeAssumption DEF Init
  <2>2. \A f \in Files : content[f] \in Versions
    BY DEF Init, Versions
  <2> QED
    BY <2>1, <2>2 DEF Init, Shape, InRound
<1>2. Complete /\ Kept /\ Fetched /\ Linked /\ BuildTruthful
  BY DEF Init, Complete, Kept, Fetched, Linked, BuildTruthful, Busy, InRound
<1> QED
  BY <1>1, <1>2, InitInv DEF BuildInv

\* A build that returns without an error, and was left in peace, leaves the product of a
\* build from nothing (build_product, execute.cv:128).
THEOREM BuildsAreTruthful == Spec => []BuildTruthful
<1>1. BuildInv /\ [Next]_vars => BuildInv'
  <2> SUFFICES ASSUME BuildInv, [Next]_vars PROVE BuildInv'
    OBVIOUS
  <2>1. RecordsInv /\ Shape /\ Complete /\ Kept /\ Fetched /\ Linked /\ BuildTruthful
    BY DEF BuildInv
  <2>2. RecordsInv' /\ Shape' /\ Complete'
    BY <2>1, NextInv, ShapeStep, CompleteStep
  <2>3. Kept' /\ Fetched' /\ Linked' /\ BuildTruthful'
    BY <2>1, KeptStep, FetchedStep, LinkedStep, TruthfulStep
  <2> QED
    BY <2>2, <2>3 DEF BuildInv
<1>2. BuildInv => BuildTruthful
  BY DEF BuildInv
<1> QED
  BY <1>1, <1>2, InitBuild, PTL DEF Spec

-----------------------------------------------------------------------------
(* The inductive invariant.                                                *)

DocVersions == Nat \ {0}
Entries == [version : DocVersions, text : Nat]
Updates == [method : {"update"}, uri : Uris, version : DocVersions, open : BOOLEAN,
            text : Nat, generation : Nat]
Closes == [method : {"close"}, uri : Uris, generation : Nat]
Workspaces == [method : {"workspace"}, generation : Nat]
Queries == [method : {"query"}, id : Requests, kind : Kinds, uri : Uris, text : Nat,
            generation : Nat, cancelled : BOOLEAN]
Jobs == Updates \cup Closes \cup Workspaces \cup Queries

Maps == UNION {[D -> Entries] : D \in SUBSET Uris}

Documented(m) ==
    /\ m.is \in {"open", "change", "close", "query"} => m.uri \in Uris
    /\ m.is \in {"open", "change"} => m.version \in DocVersions
    /\ m.is \in {"query", "cancel"} => m.id \in Requests
    /\ m.is = "query" => m.kind \in Kinds

Sequence(e) == Len(e) \in Nat /\ e = [i \in 1..Len(e) |-> e[i]]
Answers == {"nothing", "refused", "cancelled", "closing", "modified", "result"}

ServerTyped ==
    /\ documents \in Maps /\ buffers \in Maps /\ sources \subseteq Uris
    /\ editor = [u \in DOMAIN editor |-> editor[u]]
    /\ \A u \in DOMAIN editor : editor[u] \in DocVersions
    /\ serverPending \in Seq(Jobs) /\ active \in Seq(Jobs) /\ Len(active) <= 1
    /\ generation \in Nat /\ current \in Nat
    /\ DOMAIN shown = Uris /\ shown = [u \in Uris |-> shown[u]]
    /\ answers \in [Requests -> Seq(Answers)]
    /\ Sequence(events)
    /\ \A i \in 1..Len(events) : Documented(events[i])

\* Where the active job is: with the worker, in its reply, or in the events.
ReplyRight(x) == x.is = "reply" /\ x.revision = current /\ x.view = View(buffers, sources)
Sent == jobChannel = <<>> /\ reply = <<>>
NoReply == \A i \in 1..Len(events) : events[i].is # "reply"
OneReply ==
    \E i \in 1..Len(events) :
        /\ ReplyRight(events[i])
        /\ \A k \in 1..Len(events) : events[k].is = "reply" => k = i
Sending == \E job \in Jobs :
    /\ jobChannel = <<[job |-> job, revision |-> current]>>
    /\ job.method = active[1].method /\ revision = current
    /\ job.method = "query" => job.kind = active[1].kind /\ job.uri = active[1].uri
    /\ job.method = "query" /\ job.kind \in Positional =>
          job.uri \in DOMAIN buffers /\ buffers[job.uri].text = job.text
Flight ==
    \/ active = <<>> /\ Sent /\ NoReply /\ revision = current
    \/ active # <<>> /\ reply = <<>> /\ NoReply /\ Sending
    \/ active # <<>> /\ jobChannel = <<>> /\ NoReply /\ \E x : reply = <<x>> /\ ReplyRight(x)
    \/ active # <<>> /\ Sent /\ OneReply

\* The document u as a state: of version 0 when it is not held.
States == [version : Nat, text : Nat]
Gone == [version |-> 0, text |-> 0]
At(held, u) == IF u \in DOMAIN held THEN held[u] ELSE Gone

\* What a job makes of the document u: an update that fits opens or changes it.
Move(s, t, job, u) ==
    IF job.method \in {"update", "close"} /\ job.uri = u
    THEN IF job.method = "close" THEN t = Gone
         ELSE /\ job.open = (s = Gone) /\ job.version > s.version
              /\ t = [version |-> job.version, text |-> job.text]
    ELSE /\ t = s
         /\ job.method = "query" /\ job.kind \in Positional /\ job.uri = u =>
              s # Gone /\ s.text = job.text

Trace(t, queue, u, a, b) ==
    /\ t \in [0..Len(queue) -> States] /\ t[0] = a /\ t[Len(queue)] = b
    /\ \A n \in 1..Len(queue) : Move(t[n - 1], t[n], queue[n], u)
Leads(queue, u, a, b) == \E t : Trace(t, queue, u, a, b)

\* The analyzer when it will have run the job it was sent.
Base == IF jobChannel = <<>> THEN buffers ELSE Apply(buffers, jobChannel[1].job)
Chained == ~shutdown => \A u \in Uris : Leads(serverPending, u, At(Base, u), At(documents, u))

\* Jobs are queued in the order of their generations.
Before(a, b) ==
    /\ a.generation <= b.generation
    /\ b.method # "query" => a.generation < b.generation
    /\ a.method = "query" /\ b.method = "query" => a.id # b.id
Orderly(queue) ==
    /\ \A i, j \in 1..Len(queue) : i < j => Before(queue[i], queue[j])
    /\ \A i \in 1..Len(queue) : queue[i].method = "query" => queue[i].cancelled = FALSE
Newest(job) == job.method # "query" /\ job.generation = generation
Ordered ==
    /\ Orderly(serverPending)
    /\ \A i \in 1..Len(serverPending) : serverPending[i].generation <= generation
    /\ active # <<>> =>
         /\ active[1].generation <= generation
         /\ \A i \in 1..Len(serverPending) : Before(active[1], serverPending[i])

\* What is not yet analysed ends with the newest state.
Analysing ==
    \/ \E i \in 1..Len(serverPending) : Newest(serverPending[i])
    \/ active # <<>> /\ Newest(active[1])
Idle ==
    /\ \A i \in 1..Len(serverPending) : serverPending[i].method = "query"
    /\ active # <<>> => active[1].method = "query"
Showing ==
    /\ \A u \in Uris \ published : shown[u] = NoView
    /\ ~shutdown => \/ Analysing
                    \/ /\ Idle
                       /\ shown = [u \in Uris |-> IF u \in DOMAIN View(documents, sources)
                                                  THEN View(documents, sources) ELSE NoView]

\* The one place of a query the server has taken in.
Queued(r) == \E i \in 1..Len(serverPending) :
    serverPending[i].method = "query" /\ serverPending[i].id = r
Running(r) == active # <<>> /\ active[1].method = "query" /\ active[1].id = r
Live(r) == Running(r) /\ active[1].cancelled # TRUE
Taken(r) == r \in asked /\ ~InTransit(r)
OncePerQuery(r) ==
    \/ Taken(r) /\ Len(answers[r]) = 1 /\ ~Queued(r) /\ ~Live(r)
    \/ Taken(r) /\ Len(answers[r]) = 0 /\ (Queued(r) \/ Live(r))
    \/ ~Taken(r) /\ Len(answers[r]) = 0 /\ ~Queued(r) /\ ~Running(r)
SentOnce ==
    /\ \A i, j \in 1..Len(events) : events[i].is = "query" /\ events[j].is = "query"
         /\ events[i].id = events[j].id => i = j
    /\ \A i \in 1..Len(events) : events[i].is = "query" => events[i].id \in asked
AsksOnce == SentOnce /\ \A r \in Requests : OncePerQuery(r)

\* After a shutdown every query has been answered.
Closed == shutdown =>
    /\ serverPending = <<>>
    /\ active # <<>> /\ active[1].method = "query" => active[1].cancelled = TRUE

ServerInv ==
    ServerTyped /\ Flight /\ Chained /\ Ordered /\ Showing /\ AsksOnce /\ Closed

-----------------------------------------------------------------------------
(* Indices and sequences.                                                  *)

Below == OpToRel(<, Nat)

\* A set of indices that is not empty has a smallest one.
LEMMA SmallestIndex ==
    ASSUME NEW T \in SUBSET Nat, T # {}
    PROVE  \E x \in T : \A y \in T : x <= y
<1>1. IsWellFoundedOn(Below, Nat)
    BY NatLessThanWellFounded DEF Below
<1>2. PICK x \in T : \A y \in T : <<y, x>> \notin Below
    BY <1>1, WFMin
<1>3. \A y \in Nat : y < x => <<y, x>> \in Below
    BY DEF Below, OpToRel
<1>4. ASSUME NEW y \in T PROVE x <= y
    <2>1. x \in Nat /\ y \in Nat /\ ~(y < x)
        BY <1>2, <1>3
    <2> QED BY <2>1
<1> QED BY <1>4

\* Induction over the first numbers, with a set of them for the predicate.
LEMMA Upwards ==
    ASSUME NEW N \in Nat, NEW G, 0 \in G, \A n \in 1..N : n - 1 \in G => n \in G
    PROVE  \A n \in 0..N : n \in G
<1> DEFINE T == {n \in 0..N : n \notin G}
<1> SUFFICES ASSUME T # {} PROVE FALSE
    OBVIOUS
<1>1. T \in SUBSET Nat
    OBVIOUS
<1>2. PICK x \in T : \A y \in T : x <= y
    BY <1>1, SmallestIndex
<1>3. x \in 1..N /\ x - 1 \in 0..N /\ ~(x <= x - 1) /\ x \notin G
    BY <1>2
<1>4. x - 1 \in G
    BY <1>2, <1>3
<1> QED BY <1>3, <1>4

\* A function that takes one step after the other from a start.
Stepping(step, N, X) == \A n \in 1..N : \A x \in X : step[n][x] \in X
Iterates(f, step, N, X, start) ==
    f \in [0..N -> X] /\ f[0] = start /\ \A n \in 1..N : f[n] = step[n][f[n - 1]]
\* There is a function that steps from start, one application of step at a time.
LEMMA Iterated ==
    ASSUME NEW X, NEW N \in Nat, NEW start \in X, NEW step, Stepping(step, N, X)
    PROVE  \E f : Iterates(f, step, N, X, start)
<1> DEFINE Runs(f, n) == /\ f \in [0..n -> X] /\ f[0] = start
                         /\ \A m \in 1..n : f[m] = step[m][f[m - 1]]
           G == {n \in 0..N : \E f : Runs(f, n)}
<1>1. 0 \in G
    <2> DEFINE f == [n \in 0..0 |-> start]
    <2>1. f \in [0..0 -> X] /\ f[0] = start /\ \A m \in 1..0 : FALSE
        OBVIOUS
    <2>2. Runs(f, 0)
        BY <2>1
    <2> HIDE DEF f, Runs
    <2> QED BY <2>2
<1>2. ASSUME NEW n \in 1..N, n - 1 \in G PROVE n \in G
    <2>1. PICK f : Runs(f, n - 1)
        BY <1>2
    <2> DEFINE g == [m \in 0..n |-> IF m = n THEN step[n][f[n - 1]] ELSE f[m]]
    <2>2. n - 1 \in 0..n - 1 /\ f[n - 1] \in X /\ \A m \in 0..n : m # n => m \in 0..n - 1
        BY <2>1
    <2>3. step[n][f[n - 1]] \in X
        BY <2>2 DEF Stepping
    <2>4. g \in [0..n -> X] /\ g[0] = start
        BY <2>1, <2>2, <2>3
    <2>5. ASSUME NEW m \in 1..n PROVE g[m] = step[m][g[m - 1]]
        <3>1. m - 1 \in 0..n /\ m - 1 # n /\ g[m - 1] = f[m - 1] /\ m \in 0..n
            OBVIOUS
        <3>2. CASE m = n
            BY <3>1, <3>2
        <3>3. CASE m # n
            <4>1. m \in 1..n - 1 /\ g[m] = f[m]
                BY <3>3
            <4> QED BY <2>1, <3>1, <4>1
        <3> QED BY <3>2, <3>3
    <2>6. Runs(g, n)
        BY <2>4, <2>5
    <2> HIDE DEF Runs, g
    <2> QED BY <2>6
<1> HIDE DEF G, Runs
<1>3. \A n \in 0..N : n \in G
    BY <1>1, <1>2, Upwards
<1>4. N \in G
    BY <1>3
<1>5. PICK f : Runs(f, N)
    BY <1>4 DEF G
<1> QED BY <1>5 DEF Runs, Iterates

\* A sequence without one entry.
LEMMA RemoveAtProperties ==
    ASSUME NEW S, NEW s \in Seq(S), NEW i \in DOMAIN s
    PROVE  /\ RemoveAt(s, i) \in Seq(S)
           /\ Len(RemoveAt(s, i)) = Len(s) - 1
           /\ \A j \in 1..(Len(s) - 1) :
                RemoveAt(s, i)[j] = IF j < i THEN s[j] ELSE s[j + 1]
<1>1. i \in 1..Len(s) /\ Len(s) \in Nat
  OBVIOUS
<1> DEFINE a == SubSeq(s, 1, i - 1)
           b == SubSeq(s, i + 1, Len(s))
<1>2. /\ a \in Seq(S) /\ Len(a) = i - 1
      /\ \A j \in 1..(i - 1) : a[j] = s[j]
  BY <1>1
<1>3. /\ b \in Seq(S) /\ Len(b) = Len(s) - i
      /\ \A j \in 1..(Len(s) - i) : b[j] = s[i + j]
  BY <1>1
<1> HIDE DEF a, b
<1>4. /\ a \o b \in Seq(S)
      /\ Len(a \o b) = Len(s) - 1
      /\ \A j \in 1..(Len(s) - 1) : (a \o b)[j] = IF j <= i - 1 THEN a[j] ELSE b[j - (i - 1)]
  <2>1. /\ a \o b \in Seq(S) /\ Len(a \o b) = Len(a) + Len(b)
        /\ \A j \in 1..(Len(a) + Len(b)) :
             (a \o b)[j] = IF j <= Len(a) THEN a[j] ELSE b[j - Len(a)]
    BY <1>2, <1>3, ConcatProperties
  <2>2. Len(a) = i - 1 /\ Len(a) + Len(b) = Len(s) - 1
    BY <1>1, <1>2, <1>3
  <2> QED BY <2>1, <2>2
<1>5. ASSUME NEW j \in 1..(Len(s) - 1)
      PROVE  (a \o b)[j] = IF j < i THEN s[j] ELSE s[j + 1]
  <2>1. CASE j < i
    <3>1. j <= i - 1 /\ j \in 1..(i - 1)
      BY <1>1, <2>1
    <3> QED
      BY <1>2, <1>4, <2>1, <3>1
  <2>2. CASE ~(j < i)
    <3>1. ~(j <= i - 1) /\ j - (i - 1) \in 1..(Len(s) - i) /\ i + (j - (i - 1)) = j + 1
      BY <1>1, <2>2
    <3> QED
      BY <1>3, <1>4, <2>2, <3>1
  <2> QED
    BY <2>1, <2>2
<1>6. RemoveAt(s, i) = a \o b
  BY DEF RemoveAt, a, b
<1> QED
  BY <1>4, <1>5, <1>6

\* A sequence with one entry more.
LEMMA AppendIs ==
    ASSUME NEW S, NEW s \in Seq(S), NEW e \in S
    PROVE  /\ Append(s, e) \in Seq(S) /\ Len(Append(s, e)) = Len(s) + 1 /\ Append(s, e)[Len(s) + 1] = e
           /\ \A n \in 1..Len(s) : Append(s, e)[n] = s[n]
  BY AppendProperties
-----------------------------------------------------------------------------
(* The queue.                                                               *)

\* Q is the queue q with job at its end.
Added(Q, q, job) ==
    /\ Q \in Seq(Jobs) /\ Len(Q) = Len(q) + 1 /\ Q[Len(q) + 1] = job
    /\ \A n \in 1..Len(q) : Q[n] = q[n]

\* Q is the queue q where job has taken the place of entry d, an update of its
\* document with nothing but updates of other documents after it.
Merged(Q, q, job, d) ==
    /\ Q \in Seq(Jobs) /\ Len(Q) = Len(q) /\ d \in 1..Len(q)
    /\ \A n \in 1..Len(q) : n < d => Q[n] = q[n]
    /\ \A n \in 1..Len(q) : d <= n /\ n < Len(q) => Q[n] = q[n + 1]
    /\ Q[Len(q)] = [job EXCEPT !.open = @ \/ q[d].open]
    /\ job \in Updates /\ q[d] \in Updates /\ q[d].uri = job.uri
    /\ \A n \in 1..Len(q) : d < n => q[n].method = "update" /\ q[n].uri # job.uri

\* What the fields of a job are.
LEMMA JobKinds ==
    ASSUME NEW job \in Jobs
    PROVE  /\ job.method \in {"update", "close", "workspace", "query"} /\ job.generation \in Nat
           /\ job.method = "update" => job \in Updates
           /\ job.method = "close" => job \in Closes
           /\ job.method = "query" => job \in Queries
  BY DEF Jobs, Updates, Closes, Workspaces, Queries

\* A merged update is one.
LEMMA MergedJob ==
    ASSUME NEW job \in Updates, NEW e \in Updates
    PROVE  [job EXCEPT !.open = @ \/ e.open] \in Updates
<1>1. (job.open \/ e.open) \in BOOLEAN
    BY DEF Updates
<1> DEFINE o == job.open \/ e.open
<1>2. o \in BOOLEAN
    BY <1>1
<1>3. [job EXCEPT !.open = @ \/ e.open] = [job EXCEPT !.open = o]
    BY Zenon DEF o
<1> HIDE DEF o
<1>4. [job EXCEPT !.open = o] \in Updates
    BY <1>2 DEF Updates
<1> QED BY <1>3, <1>4

\* An update is added at the end, or takes the place of an earlier one.
LEMMA QueueJobEither ==
    ASSUME NEW q \in Seq(Jobs), NEW job \in Jobs
    PROVE  Added(QueueJob(q, job), q, job) \/ \E d \in 1..Len(q) : Merged(QueueJob(q, job), q, job, d)
<1> DEFINE earlier == {i \in UpdateRun(q) : q[i].uri = job.uri}
           i == Max(earlier)
           j == [job EXCEPT !.open = @ \/ q[i].open]
           t == RemoveAt(q, i)
<1>0. Len(q) \in Nat /\ DOMAIN q = 1..Len(q)
    OBVIOUS
<1>1. CASE job.method # "update" \/ earlier = {}
    <2>1. QueueJob(q, job) = Append(q, job)
        BY <1>1 DEF QueueJob
    <2> QED BY <2>1 DEF Added
<1>2. CASE job.method = "update" /\ earlier # {}
    <2>1. QueueJob(q, job) = Append(t, j)
        BY <1>2 DEF QueueJob
    <2>2. \A n : n \in earlier <=> /\ n \in DOMAIN q /\ q[n].uri = job.uri
                                   /\ \A k \in n..Len(q) : q[k].method = "update"
        BY DEF UpdateRun
    <2> HIDE DEF earlier
    <2>3. \E n \in earlier : \A m \in earlier : n >= m
        <3> DEFINE T == {m \in 0..Len(q) : Len(q) - m \in earlier}
        <3>1. T \in SUBSET Nat
            OBVIOUS
        <3>2. T # {}
            <4>1. PICK n \in earlier : TRUE
                BY <1>2
            <4>2. Len(q) - n \in 0..Len(q) /\ Len(q) - (Len(q) - n) = n
                BY <1>0, <2>2, <4>1
            <4> QED BY <4>1, <4>2
        <3>3. PICK m \in T : \A k \in T : m <= k
            BY <3>1, <3>2, SmallestIndex
        <3>4. Len(q) - m \in earlier
            BY <3>3
        <3>5. ASSUME NEW k \in earlier PROVE Len(q) - m >= k
            <4>1. Len(q) - k \in 0..Len(q) /\ Len(q) - (Len(q) - k) = k
                BY <1>0, <2>2
            <4>2. m <= Len(q) - k /\ m \in Nat /\ k \in Nat
                BY <1>0, <2>2, <3>3, <4>1
            <4> QED BY <1>0, <4>2
        <3> QED BY <3>4, <3>5
    <2>4. i \in earlier /\ \A m \in earlier : i >= m
        BY <2>3 DEF Max
    <2>5. /\ i \in 1..Len(q) /\ q[i].uri = job.uri
          /\ \A k \in i..Len(q) : q[k].method = "update"
        BY <1>0, <2>2, <2>4
    <2> HIDE DEF i
    <2>6. ASSUME NEW n \in 1..Len(q), i < n PROVE q[n].method = "update" /\ q[n].uri # job.uri
        <3>1. n \in i..Len(q) /\ \A k \in n..Len(q) : k \in i..Len(q)
            BY <1>0, <2>5, <2>6
        <3>2. ~(i >= n)
            BY <1>0, <2>5, <2>6
        <3>3. n \notin earlier
            BY <2>4, <3>2
        <3>4. q[n].method = "update" /\ \A k \in n..Len(q) : q[k].method = "update"
            BY <2>5, <3>1
        <3> QED BY <1>0, <2>2, <3>3, <3>4
    <2>7. q[i] \in Jobs /\ q[i].method = "update"
        BY <1>0, <2>5
    <2>8. job \in Updates /\ q[i] \in Updates
        BY <1>2, <2>7, JobKinds
    <2>9. j \in Jobs
        BY <2>8, MergedJob DEF Jobs
    <2>10. /\ t \in Seq(Jobs) /\ Len(t) = Len(q) - 1
           /\ \A n \in 1..(Len(q) - 1) : t[n] = IF n < i THEN q[n] ELSE q[n + 1]
        BY <1>0, <2>5, RemoveAtProperties
    <2>11. [job EXCEPT !.open = @ \/ q[i].open] = j
        OBVIOUS
    <2> HIDE DEF j, t
    <2>12. Append(t, j) \in Seq(Jobs) /\ Len(Append(t, j)) = Len(q) /\ Append(t, j)[Len(q)] = j
           /\ \A n \in 1..(Len(q) - 1) : Append(t, j)[n] = t[n]
        <3>1. /\ Append(t, j) \in Seq(Jobs) /\ Len(Append(t, j)) = Len(t) + 1
              /\ Append(t, j)[Len(t) + 1] = j /\ \A n \in 1..Len(t) : Append(t, j)[n] = t[n]
            BY <2>9, <2>10, AppendIs
        <3>2. Len(t) = Len(q) - 1 /\ Len(t) + 1 = Len(q)
            BY <1>0, <2>10
        <3> QED BY <3>1, <3>2
    <2> DEFINE Q == Append(t, j)
    <2>13. Q \in Seq(Jobs) /\ Len(Q) = Len(q) /\ Q[Len(q)] = j
           /\ \A n \in 1..(Len(q) - 1) : Q[n] = IF n < i THEN q[n] ELSE q[n + 1]
        BY <2>10, <2>12
    <2> HIDE DEF Q
    <2>14. /\ \A n \in 1..Len(q) : n < i => Q[n] = q[n]
           /\ \A n \in 1..Len(q) : i <= n /\ n < Len(q) => Q[n] = q[n + 1]
        BY <1>0, <2>5, <2>13
    <2>15. Merged(Q, q, job, i)
        BY <2>5, <2>6, <2>8, <2>11, <2>13, <2>14 DEF Merged
    <2> QED BY <2>1, <2>5, <2>15 DEF Q
<1> QED BY <1>1, <1>2

\* The queue remains one.
LEMMA QueueJobTyped ==
    ASSUME NEW q \in Seq(Jobs), NEW job \in Jobs
    PROVE  QueueJob(q, job) \in Seq(Jobs)
  BY QueueJobEither DEF Added, Merged

\* The queues on the way of a withdrawal.
Withdrawn(job, r) == job.method = "query" /\ job.id = r
\* Withdraw is the last of the queues that the jobs, queued one by one, lead to.
LEMMA WithdrawSteps ==
    ASSUME NEW q \in Seq(Jobs), NEW r
    PROVE  \E f \in [0..Len(q) -> Seq(Jobs)] :
              /\ f[0] = <<>> /\ Withdraw(q, r) = f[Len(q)]
              /\ \A n \in 1..Len(q) : f[n] = IF Withdrawn(q[n], r) THEN f[n - 1]
                                             ELSE QueueJob(f[n - 1], q[n])
<1> DEFINE N == Len(q)
           X == Seq(Jobs)
           Rec(f) == f = [n \in 0..N |-> IF n = 0 THEN <<>>
                                         ELSE IF IsQuery(q[n]) /\ q[n].id = r THEN f[n - 1]
                                         ELSE QueueJob(f[n - 1], q[n])]
           step == [n \in 1..N |-> [s \in X |-> IF Withdrawn(q[n], r) THEN s
                                                ELSE QueueJob(s, q[n])]]
<1>0. N \in Nat /\ <<>> \in X
    OBVIOUS
<1>1. \A n \in 1..N : \A s \in X : step[n][s] = IF Withdrawn(q[n], r) THEN s ELSE QueueJob(s, q[n])
    OBVIOUS
<1> HIDE DEF step
<1>2. Stepping(step, N, X)
    <2>1. ASSUME NEW n \in 1..N, NEW s \in X PROVE step[n][s] \in X
        <3>1. q[n] \in Jobs
            OBVIOUS
        <3>2. QueueJob(s, q[n]) \in X
            BY <3>1, QueueJobTyped
        <3> QED BY <1>1, <3>2
    <2> QED BY <2>1 DEF Stepping
<1>3. PICK f : f \in [0..N -> X] /\ f[0] = <<>> /\ \A n \in 1..N : f[n] = step[n][f[n - 1]]
    <2>1. \E f : Iterates(f, step, N, X, <<>>)
        BY <1>0, <1>2, Iterated
    <2> QED BY <2>1 DEF Iterates
<1>4. \A n \in 1..N : f[n] = IF Withdrawn(q[n], r) THEN f[n - 1] ELSE QueueJob(f[n - 1], q[n])
    <2>1. \A n \in 1..N : n - 1 \in 0..N
        BY <1>0
    <2> QED BY <1>1, <1>3, <2>1
<1>5. Rec(f)
    BY <1>3, <1>4 DEF Withdrawn, IsQuery
<1> DEFINE g == CHOOSE g : Rec(g)
<1>6. Rec(g)
    BY <1>5
<1>7. Withdraw(q, r) = g[N]
    BY DEF Withdraw
<1> HIDE DEF g
<1>8. /\ g[0] = <<>> /\ N \in 0..N
      /\ \A n \in 1..N : g[n] = IF Withdrawn(q[n], r) THEN g[n - 1] ELSE QueueJob(g[n - 1], q[n])
    <2>1. \A n \in 0..N : g[n] = IF n = 0 THEN <<>>
                                ELSE IF IsQuery(q[n]) /\ q[n].id = r THEN g[n - 1]
                                ELSE QueueJob(g[n - 1], q[n])
        BY <1>6
    <2>2. N \in 0..N /\ 0 \in 0..N /\ \A n \in 1..N : n \in 0..N /\ n # 0
        BY <1>0
    <2> QED BY <2>1, <2>2 DEF Withdrawn, IsQuery
<1> DEFINE G == {n \in 0..N : g[n] = f[n]}
<1>9. \A n \in 0..N : n \in G
    <2>1. 0 \in G
        BY <1>0, <1>3, <1>8
    <2>2. \A n \in 1..N : n - 1 \in G => n \in G
        BY <1>4, <1>8
    <2> HIDE DEF G, N
    <2> QED BY <1>0, <2>1, <2>2, Upwards
<1>10. Withdraw(q, r) = f[N]
    BY <1>7, <1>8, <1>9
<1> QED BY <1>3, <1>4, <1>10

\* Replay is the last of the states that the requests lead through.
LEMMA ReplaySteps ==
    ASSUME NEW q, Len(q) \in Nat, NEW h, h = [n \in 0..Len(q) |-> h[n]],
           \A n \in 1..Len(q) : h[n] = Apply(h[n - 1], q[n])
    PROVE  Replay(h[0], q) = h[Len(q)]
<1> DEFINE N == Len(q)
           Rec(f) == f = [n \in 0..N |-> IF n = 0 THEN h[0] ELSE Apply(f[n - 1], q[n])]
<1>1. Rec(h)
    OBVIOUS
<1> DEFINE g == CHOOSE g : Rec(g)
<1>2. Rec(g)
    BY <1>1
<1>3. Replay(h[0], q) = g[N]
    BY DEF Replay
<1> HIDE DEF g
<1>4. g[0] = h[0] /\ N \in 0..N /\ \A n \in 1..N : g[n] = Apply(g[n - 1], q[n])
    BY <1>2
<1> DEFINE G == {n \in 0..N : g[n] = h[n]}
<1>5. \A n \in 0..N : n \in G
    <2>1. 0 \in G
        BY <1>4
    <2>2. \A n \in 1..N : n - 1 \in G => n \in G
        BY <1>4
    <2>3. N \in Nat
        OBVIOUS
    <2> HIDE DEF G, N
    <2> QED BY <2>1, <2>2, <2>3, Upwards
<1> QED BY <1>3, <1>4, <1>5

\* x stands for the job y: merging may have changed what it opens.
Same(x, y) ==
    /\ x.method = y.method /\ x.generation = y.generation
    /\ y.method = "query" => x = y

\* The entries of the queue Q come from q, with job at the end.
EndsWith(Q, q, job) ==
    /\ Q \in Seq(Jobs)
    /\ Len(Q) \in Nat \ {0} /\ Same(Q[Len(Q)], job)
    /\ \A i \in 1..(Len(Q) - 1) : \E k \in 1..Len(q) : Q[i] = q[k]
    /\ \A k \in 1..Len(q) :
          q[k].method = "query" \/ job.method = "query" => \E i \in 1..(Len(Q) - 1) : Q[i] = q[k]

\* The entries of a queue after a job was queued.
LEMMA QueueJobEntries ==
    ASSUME NEW q \in Seq(Jobs), NEW job \in Jobs
    PROVE  EndsWith(QueueJob(q, job), q, job)
<1> DEFINE Q == QueueJob(q, job)
<1>0. Len(q) \in Nat
    OBVIOUS
<1>1. CASE Added(Q, q, job)
    <2>1. /\ Q \in Seq(Jobs) /\ Len(Q) = Len(q) + 1 /\ Q[Len(q) + 1] = job
          /\ \A n \in 1..Len(q) : Q[n] = q[n]
        BY <1>1 DEF Added
    <2>2. Same(Q[Len(Q)], job)
        BY <2>1 DEF Same
    <2>3. Len(Q) \in Nat \ {0} /\ Len(Q) - 1 = Len(q)
        BY <1>0, <2>1
    <2> HIDE DEF Q
    <2>4. \A n \in 1..(Len(Q) - 1) : n \in 1..Len(q) /\ Q[n] = q[n]
        BY <2>1, <2>3
    <2>5. \A n \in 1..Len(q) : n \in 1..(Len(Q) - 1) /\ q[n] = Q[n]
        BY <2>1, <2>3
    <2>6. EndsWith(Q, q, job)
        BY <2>1, <2>2, <2>3, <2>4, <2>5 DEF EndsWith
    <2> QED BY <2>6 DEF Q
<1>2. ASSUME NEW d \in 1..Len(q), Merged(Q, q, job, d) PROVE EndsWith(Q, q, job)
    <2> HIDE DEF Q
    <2>1. /\ Q \in Seq(Jobs) /\ Len(Q) = Len(q) /\ d \in 1..Len(q)
          /\ \A n \in 1..Len(q) : n < d => Q[n] = q[n]
          /\ \A n \in 1..Len(q) : d <= n /\ n < Len(q) => Q[n] = q[n + 1]
          /\ Q[Len(q)] = [job EXCEPT !.open = @ \/ q[d].open]
          /\ job \in Updates /\ q[d] \in Updates
        BY <1>2 DEF Merged
    <2>2. job.method = "update" /\ q[d].method = "update"
        BY <2>1 DEF Updates
    <2>3. Same(Q[Len(Q)], job)
        BY <2>1, <2>2 DEF Same, Updates
    <2>4. ASSUME NEW i \in 1..(Len(Q) - 1) PROVE \E k \in 1..Len(q) : Q[i] = q[k]
        <3>1. i \in 1..Len(q) /\ i + 1 \in 1..Len(q) /\ i < Len(q)
            BY <1>0, <2>1
        <3>2. Q[i] = q[i] \/ Q[i] = q[i + 1]
            BY <1>0, <2>1, <3>1
        <3> QED BY <3>1, <3>2
    <2>5. ASSUME NEW k \in 1..Len(q), q[k].method = "query" \/ job.method = "query"
          PROVE  \E i \in 1..(Len(Q) - 1) : Q[i] = q[k]
        <3>1. k # d
            BY <2>2, <2>5
        <3>2. CASE k < d
            <4>1. k \in 1..(Len(Q) - 1) /\ Q[k] = q[k]
                BY <1>0, <2>1, <3>2
            <4> QED BY <4>1
        <3>3. CASE d < k
            <4>1. /\ k - 1 \in 1..Len(q) /\ d <= k - 1 /\ k - 1 < Len(q) /\ (k - 1) + 1 = k
                  /\ k - 1 \in 1..(Len(Q) - 1)
                BY <1>0, <2>1, <3>3
            <4>2. Q[k - 1] = q[k]
                BY <2>1, <4>1
            <4> QED BY <4>1, <4>2
        <3> QED BY <1>0, <2>1, <3>1, <3>2, <3>3
    <2>6. Len(Q) \in Nat \ {0}
        BY <1>0, <2>1
    <2> QED BY <2>1, <2>3, <2>4, <2>5, <2>6 DEF EndsWith
<1> QED BY <1>1, <1>2, QueueJobEither

\* Queueing a job that comes after all others keeps the order.
LEMMA QueueJobOrderly ==
    ASSUME NEW q \in Seq(Jobs), NEW job \in Jobs, Orderly(q),
           \A k \in 1..Len(q) : Before(q[k], job),
           job.method = "query" => job.cancelled = FALSE
    PROVE  Orderly(QueueJob(q, job))
<1> DEFINE Q == QueueJob(q, job)
<1>0. Len(q) \in Nat
    OBVIOUS
<1>1. /\ Len(Q) \in Nat \ {0} /\ Same(Q[Len(Q)], job)
      /\ \A i \in 1..(Len(Q) - 1) : \E k \in 1..Len(q) : Q[i] = q[k]
    <2>1. EndsWith(Q, q, job)
        BY QueueJobEntries
    <2> HIDE DEF Q
    <2> QED BY <2>1 DEF EndsWith
<1>2. \A i, j \in 1..(Len(Q) - 1) : i < j => Before(Q[i], Q[j])
    <2>1. CASE Added(Q, q, job)
        BY <1>0, <2>1 DEF Added, Orderly
    <2>2. ASSUME NEW d \in 1..Len(q), Merged(Q, q, job, d), NEW i \in 1..(Len(Q) - 1),
                 NEW j \in 1..(Len(Q) - 1), i < j
          PROVE  Before(Q[i], Q[j])
        <3>1. /\ Len(Q) = Len(q)
              /\ \A n \in 1..Len(q) : n < d => Q[n] = q[n]
              /\ \A n \in 1..Len(q) : d <= n /\ n < Len(q) => Q[n] = q[n + 1]
            BY <2>2 DEF Merged
        <3>2. /\ i \in 1..Len(q) /\ j \in 1..Len(q) /\ i + 1 \in 1..Len(q) /\ j + 1 \in 1..Len(q)
              /\ i < Len(q) /\ j < Len(q) /\ i < j + 1 /\ i + 1 < j + 1
            BY <1>0, <2>2, <3>1
        <3>3. i < d \/ d <= i
            BY <1>0, <3>2
        <3>4. j < d \/ d <= j
            BY <1>0, <3>2
        <3>5. \/ Q[i] = q[i] /\ Q[j] = q[j]
              \/ Q[i] = q[i] /\ Q[j] = q[j + 1]
              \/ Q[i] = q[i + 1] /\ Q[j] = q[j + 1]
            <4>1. ~(d <= i /\ j < d)
                BY <1>0, <2>2, <3>2
            <4>2. (i < d => Q[i] = q[i]) /\ (d <= i => Q[i] = q[i + 1])
                BY <3>1, <3>2
            <4>3. (j < d => Q[j] = q[j]) /\ (d <= j => Q[j] = q[j + 1])
                BY <3>1, <3>2
            <4> HIDE DEF Q
            <4> QED BY <3>3, <3>4, <4>1, <4>2, <4>3
        <3>6. \A m, n \in 1..Len(q) : m < n => Before(q[m], q[n])
            BY DEF Orderly
        <3> QED BY <2>2, <3>2, <3>5, <3>6
    <2> HIDE DEF Q
    <2> QED BY <2>1, <2>2, QueueJobEither DEF Q
<1>3. \A i \in 1..(Len(Q) - 1) : Before(Q[i], Q[Len(Q)])
    <2>1. ASSUME NEW i \in 1..(Len(Q) - 1) PROVE Before(Q[i], Q[Len(Q)])
        <3>1. PICK k \in 1..Len(q) : Q[i] = q[k]
            BY <1>1
        <3>2. Before(Q[i], job)
            BY <3>1
        <3> HIDE DEF Q
        <3> QED BY <1>1, <3>2 DEF Before, Same
    <2> QED BY <2>1
<1>4. \A i \in 1..Len(Q) : Q[i].method = "query" => Q[i].cancelled = FALSE
    <2>1. ASSUME NEW i \in 1..(Len(Q) - 1), Q[i].method = "query" PROVE Q[i].cancelled = FALSE
        <3>1. PICK k \in 1..Len(q) : Q[i] = q[k]
            BY <1>1
        <3> QED BY <2>1, <3>1 DEF Orderly
    <2>2. Q[Len(Q)].method = "query" => Q[Len(Q)].cancelled = FALSE
        <3> HIDE DEF Q
        <3> QED BY <1>1 DEF Same
    <2> HIDE DEF Q
    <2>3. \A i \in 1..Len(Q) : i \in 1..(Len(Q) - 1) \/ i = Len(Q)
        BY <1>1
    <2> QED BY <2>1, <2>2, <2>3
<1> HIDE DEF Q
<1>5. ASSUME NEW i \in 1..Len(Q), NEW j \in 1..Len(Q), i < j PROVE Before(Q[i], Q[j])
    <2>1. i \in 1..(Len(Q) - 1) /\ (j \in 1..(Len(Q) - 1) \/ j = Len(Q))
        BY <1>1, <1>5
    <2> QED BY <1>2, <1>3, <1>5, <2>1
<1> QED BY <1>4, <1>5 DEF Orderly, Q

\* A query that is withdrawn leaves the other queries, the order, and what is
\* newest in the queue.
LEMMA WithdrawEntries ==
    ASSUME NEW q \in Seq(Jobs), NEW r, Orderly(q), NEW Q, Q = Withdraw(q, r)
    PROVE  /\ Q \in Seq(Jobs) /\ Orderly(Q)
           /\ \A i \in 1..Len(Q) : \E k \in 1..Len(q) : Same(Q[i], q[k]) /\ ~Withdrawn(q[k], r)
           /\ \A k \in 1..Len(q) : q[k].method = "query" /\ ~Withdrawn(q[k], r) =>
                 \E i \in 1..Len(Q) : Same(Q[i], q[k])
           /\ \A k \in 1..Len(q) :
                 q[k].method # "query" /\ (\A j \in 1..Len(q) : q[j].generation <= q[k].generation) =>
                 \E i \in 1..Len(Q) : Same(Q[i], q[k])
<1> DEFINE N == Len(q)
           Stays(k) == \/ q[k].method = "query" /\ ~Withdrawn(q[k], r)
                       \/ /\ q[k].method # "query"
                          /\ \A j \in 1..N : q[j].generation <= q[k].generation
           From(s, n) == \A i \in 1..Len(s) :
                            \E k \in 1..n : Same(s[i], q[k]) /\ ~Withdrawn(q[k], r)
           Keeps(s, n) == \A k \in 1..n : Stays(k) => \E i \in 1..Len(s) : Same(s[i], q[k])
<1>0. N \in Nat /\ \A n \in 1..N : q[n] \in Jobs
    OBVIOUS
<1>1. PICK f \in [0..N -> Seq(Jobs)] :
              /\ f[0] = <<>> /\ Withdraw(q, r) = f[N]
              /\ \A n \in 1..N : f[n] = IF Withdrawn(q[n], r) THEN f[n - 1]
                                        ELSE QueueJob(f[n - 1], q[n])
    BY WithdrawSteps
<1>2. \A n \in 0..N : f[n] \in Seq(Jobs)
    OBVIOUS
<1> DEFINE G == {n \in 0..N : Orderly(f[n]) /\ From(f[n], n) /\ Keeps(f[n], n)}
<1>3. 0 \in G
    <2>1. Len(f[0]) = 0 /\ 0 \in 0..N
        BY <1>0, <1>1
    <2>2. Orderly(f[0]) /\ From(f[0], 0) /\ Keeps(f[0], 0)
        BY <2>1 DEF Orderly
    <2> QED BY <2>1, <2>2
<1>4. ASSUME NEW n \in 1..N, n - 1 \in G PROVE n \in G
    <2> DEFINE s == f[n - 1]
               S == f[n]
    <2>1. /\ n \in 0..N /\ n - 1 \in 0..N /\ Orderly(s) /\ From(s, n - 1) /\ Keeps(s, n - 1)
          /\ \A k \in 1..n : k \in 1..N /\ (k # n => k \in 1..(n - 1))
          /\ \A k \in 1..(n - 1) : k \in 1..n /\ k \in 1..N /\ k < n
        <3>1. /\ n \in 0..N /\ n - 1 \in 0..N
              /\ \A k \in 1..n : k \in 1..N /\ (k # n => k \in 1..(n - 1))
              /\ \A k \in 1..(n - 1) : k \in 1..n /\ k \in 1..N /\ k < n
            BY <1>0
        <3> HIDE DEF From, Keeps
        <3>2. Orderly(s) /\ From(s, n - 1) /\ Keeps(s, n - 1)
            BY <1>4
        <3> QED BY <3>1, <3>2
    <2>2. s \in Seq(Jobs) /\ q[n] \in Jobs
        BY <1>0, <1>2, <2>1
    <2>3. CASE Withdrawn(q[n], r)
        <3>1. S = s
            BY <1>1, <2>3
        <3>2. From(S, n)
            BY <2>1, <3>1
        <3>3. ~Stays(n)
            BY <2>3 DEF Withdrawn
        <3> HIDE DEF Stays
        <3>4. Keeps(S, n)
            BY <2>1, <3>1, <3>3
        <3> QED BY <2>1, <3>1, <3>2, <3>4
    <2>4. CASE ~Withdrawn(q[n], r)
        <3>1. S = QueueJob(s, q[n])
            BY <1>1, <2>4
        <3> HIDE DEF s, S
        <3>2. /\ Len(S) \in Nat \ {0} /\ Same(S[Len(S)], q[n])
              /\ \A i \in 1..(Len(S) - 1) : \E k \in 1..Len(s) : S[i] = s[k]
              /\ \A k \in 1..Len(s) :
                    s[k].method = "query" \/ q[n].method = "query" =>
                       \E i \in 1..(Len(S) - 1) : S[i] = s[k]
            <4>1. EndsWith(S, s, q[n])
                BY <2>2, <3>1, QueueJobEntries
            <4> QED BY <4>1 DEF EndsWith
        <3>3. \A i \in 1..Len(S) : i \in 1..(Len(S) - 1) \/ i = Len(S)
            BY <3>2
        <3>4. From(S, n)
            <4>1. ASSUME NEW i \in 1..(Len(S) - 1)
                  PROVE  \E k \in 1..n : Same(S[i], q[k]) /\ ~Withdrawn(q[k], r)
                <5>1. PICK m \in 1..Len(s) : S[i] = s[m]
                    BY <3>2
                <5>2. PICK k \in 1..(n - 1) : Same(s[m], q[k]) /\ ~Withdrawn(q[k], r)
                    BY <2>1
                <5> QED BY <2>1, <5>1, <5>2
            <4>2. n \in 1..n
                OBVIOUS
            <4> QED BY <2>4, <3>2, <3>3, <4>1, <4>2
        <3>5. \A m \in 1..Len(s) : Before(s[m], q[n])
            <4>1. ASSUME NEW m \in 1..Len(s) PROVE Before(s[m], q[n])
                <5>1. PICK k \in 1..(n - 1) : Same(s[m], q[k])
                    BY <2>1
                <5>2. Before(q[k], q[n])
                    BY <2>1 DEF Orderly
                <5> QED BY <5>1, <5>2 DEF Same, Before
            <4> QED BY <4>1
        <3>6. Orderly(S)
            <4>1. q[n].method = "query" => q[n].cancelled = FALSE
                BY DEF Orderly
            <4> QED BY <2>1, <2>2, <3>1, <3>5, <4>1, QueueJobOrderly
        <3>7. Keeps(S, n)
            <4>1. ASSUME NEW k \in 1..(n - 1), Stays(k) PROVE \E i \in 1..Len(S) : Same(S[i], q[k])
                <5>1. PICK m \in 1..Len(s) : Same(s[m], q[k])
                    BY <2>1, <4>1
                <5>2. s[m].method = "query" \/ q[n].method = "query"
                    <6>1. CASE q[k].method = "query"
                        BY <5>1, <6>1 DEF Same
                    <6>2. CASE q[k].method # "query"
                        <7>1. q[n].generation <= q[k].generation
                            BY <2>1, <4>1, <6>2
                        <7>2. Before(q[k], q[n])
                            BY <2>1 DEF Orderly
                        <7>3. q[k].generation \in Nat /\ q[n].generation \in Nat
                            BY <1>0, <2>1, JobKinds
                        <7> QED BY <7>1, <7>2, <7>3 DEF Before
                    <6> QED BY <6>1, <6>2
                <5>3. PICK i \in 1..(Len(S) - 1) : S[i] = s[m]
                    BY <3>2, <5>2
                <5>4. i \in 1..Len(S)
                    BY <3>2
                <5> QED BY <5>1, <5>3, <5>4
            <4>2. Len(S) \in 1..Len(S)
                BY <3>2
            <4> HIDE DEF Stays
            <4> QED BY <2>1, <3>2, <4>1, <4>2
        <3> QED BY <2>1, <3>4, <3>6, <3>7 DEF S
    <2> QED BY <2>3, <2>4
<1> HIDE DEF G
<1>5. N \in G
    <2>1. \A n \in 0..N : n \in G
        BY <1>0, <1>3, <1>4, Upwards
    <2> QED BY <1>0, <2>1
<1>6. Orderly(Q) /\ From(Q, N) /\ Keeps(Q, N) /\ Q \in Seq(Jobs)
    BY <1>0, <1>1, <1>2, <1>5 DEF G
<1> QED BY <1>6

-----------------------------------------------------------------------------
(* The traces of one document.                                             *)

\* A document ends as a state.
LEMMA LeadsTyped ==
    ASSUME NEW q \in Seq(Jobs), NEW u, NEW a, NEW b, Leads(q, u, a, b)
    PROVE  a \in States /\ b \in States
<1>1. PICK t : Trace(t, q, u, a, b)
    BY DEF Leads
<1>2. 0 \in 0..Len(q) /\ Len(q) \in 0..Len(q)
    OBVIOUS
<1> QED BY <1>1, <1>2 DEF Trace

\* An empty queue leads nowhere.
LEMMA LeadsEmpty ==
    ASSUME NEW u, NEW a \in States
    PROVE  Leads(<<>>, u, a, a) /\ \A b : Leads(<<>>, u, a, b) => a = b
<1> DEFINE t == [n \in 0..0 |-> a]
<1>1. t \in [0..0 -> States] /\ t[0] = a /\ \A n \in 1..0 : FALSE
    OBVIOUS
<1>2. Len(<<>>) = 0
    OBVIOUS
<1> HIDE DEF t
<1>3. Trace(t, <<>>, u, a, a)
    BY <1>1, <1>2 DEF Trace
<1>4. ASSUME NEW b, Leads(<<>>, u, a, b) PROVE a = b
    BY <1>2, <1>4 DEF Leads, Trace
<1> QED BY <1>3, <1>4 DEF Leads

\* A job at the end takes the trace one step further.
LEMMA LeadsAdded ==
    ASSUME NEW q \in Seq(Jobs), NEW Q, NEW job, NEW u, NEW a, NEW b, NEW c \in States,
           Added(Q, q, job), Leads(q, u, a, b), Move(b, c, job, u)
    PROVE  Leads(Q, u, a, c)
<1>0. Len(q) \in Nat
    OBVIOUS
<1>1. PICK t : Trace(t, q, u, a, b)
    BY DEF Leads
<1> DEFINE s == [n \in 0..Len(Q) |-> IF n = Len(Q) THEN c ELSE t[n]]
<1>2. Len(Q) = Len(q) + 1 /\ Q[Len(q) + 1] = job /\ \A n \in 1..Len(q) : Q[n] = q[n]
    BY DEF Added
<1>3. /\ \A n \in 0..Len(q) : t[n] \in States
      /\ t[0] = a /\ t[Len(q)] = b
      /\ \A n \in 1..Len(q) : Move(t[n - 1], t[n], q[n], u)
    BY <1>1 DEF Trace
<1>4. /\ \A n \in 0..Len(q) : s[n] = t[n]
      /\ s[Len(Q)] = c /\ s[0] = a /\ s \in [0..Len(Q) -> States]
    BY <1>0, <1>2, <1>3
<1> HIDE DEF s
<1>5. ASSUME NEW n \in 1..Len(Q) PROVE Move(s[n - 1], s[n], Q[n], u)
    <2>1. CASE n \in 1..Len(q)
        <3>1. n - 1 \in 0..Len(q) /\ n \in 0..Len(q)
            BY <1>0, <2>1
        <3>2. s[n] = t[n] /\ s[n - 1] = t[n - 1] /\ Q[n] = q[n]
            BY <1>2, <1>4, <2>1, <3>1
        <3> QED BY <1>3, <2>1, <3>2
    <2>2. CASE n = Len(q) + 1
        <3>1. n - 1 = Len(q) /\ n - 1 \in 0..Len(q)
            BY <1>0, <2>2
        <3>2. s[n] = c /\ s[n - 1] = b /\ Q[n] = job
            BY <1>2, <1>3, <1>4, <2>2, <3>1
        <3> QED BY <3>2
    <2> QED BY <1>0, <1>2, <2>1, <2>2
<1>6. Trace(s, Q, u, a, c)
    BY <1>4, <1>5 DEF Trace
<1> QED BY <1>6 DEF Leads

\* Updates of other documents lead nowhere.
LEMMA Elsewhere ==
    ASSUME NEW q \in Seq(Jobs), NEW u, NEW t, NEW a, NEW b, Trace(t, q, u, a, b),
           NEW d \in 1..Len(q),
           \A n \in 1..Len(q) : d < n => q[n].method = "update" /\ q[n].uri # u
    PROVE  \A n \in d..Len(q) : t[n] = t[d]
<1> DEFINE G == {m \in 0..(Len(q) - d) : t[d + m] = t[d]}
<1>0. Len(q) \in Nat /\ Len(q) - d \in Nat /\ d \in Nat
    OBVIOUS
<1>1. 0 \in G
    BY <1>0
<1>2. ASSUME NEW m \in 1..(Len(q) - d), m - 1 \in G PROVE m \in G
    <2>1. d + m \in 1..Len(q) /\ d < d + m /\ (d + m) - 1 = d + (m - 1)
        BY <1>0
    <2>2. Move(t[(d + m) - 1], t[d + m], q[d + m], u)
        BY <2>1 DEF Trace
    <2>3. t[d + m] = t[(d + m) - 1]
        BY <2>1, <2>2 DEF Move
    <2> QED BY <1>2, <2>1, <2>3
<1> HIDE DEF G
<1>3. \A m \in 0..(Len(q) - d) : m \in G
    BY <1>0, <1>1, <1>2, Upwards
<1>4. ASSUME NEW n \in d..Len(q) PROVE t[n] = t[d]
    <2>1. n - d \in 0..(Len(q) - d) /\ d + (n - d) = n
        BY <1>0
    <2> QED BY <1>3, <2>1 DEF G
<1> QED BY <1>4

\* An update that takes the place of an earlier one of its document leads where
\* the two would have led.
LEMMA LeadsMerged ==
    ASSUME NEW q \in Seq(Jobs), NEW Q, NEW job, NEW u, NEW a, NEW b, NEW c \in States,
           NEW d \in 1..Len(q), Merged(Q, q, job, d), Leads(q, u, a, b), Move(b, c, job, u)
    PROVE  Leads(Q, u, a, c)
<1> DEFINE N == Len(q)
           new == [job EXCEPT !.open = @ \/ q[d].open]
<1>0. N \in Nat /\ d \in 1..N
    OBVIOUS
<1>1. PICK t : Trace(t, q, u, a, b)
    BY DEF Leads
<1>2. /\ Len(Q) = N
      /\ \A n \in 1..N : n < d => Q[n] = q[n]
      /\ \A n \in 1..N : d <= n /\ n < N => Q[n] = q[n + 1]
      /\ Q[N] = new
      /\ job \in Updates /\ q[d] \in Updates /\ q[d].uri = job.uri
      /\ \A n \in 1..N : d < n => q[n].method = "update" /\ q[n].uri # job.uri
    BY DEF Merged
<1>3. /\ \A n \in 0..N : t[n] \in States
      /\ t[0] = a /\ t[N] = b
      /\ \A n \in 1..N : Move(t[n - 1], t[n], q[n], u)
    BY <1>1 DEF Trace
<1>4. /\ new.method = "update" /\ new.uri = job.uri /\ new.version = job.version
      /\ new.text = job.text /\ new.open = (job.open \/ q[d].open)
      /\ job.method = "update" /\ q[d].method = "update" /\ q[d].uri = job.uri
      /\ job.version \in DocVersions /\ q[d].version \in DocVersions
      /\ job.open \in BOOLEAN /\ q[d].open \in BOOLEAN
    BY <1>2 DEF Updates
<1>5. Move(t[d - 1], t[d], q[d], u)
    BY <1>0, <1>3
<1> HIDE DEF new
<1>6. CASE u = job.uri
    <2> DEFINE s == [n \in 0..N |-> IF n = N THEN c ELSE IF n < d THEN t[n] ELSE t[d - 1]]
    <2>1. t[N] = t[d]
        <3>1. \A n \in 1..N : d < n => q[n].method = "update" /\ q[n].uri # u
            BY <1>2, <1>6
        <3>2. \A n \in d..N : t[n] = t[d]
            BY <1>1, <3>1, Elsewhere
        <3> QED BY <1>0, <3>2
    <2>2. /\ s \in [0..N -> States] /\ s[N] = c /\ s[0] = a
          /\ \A n \in 0..N : n < d => s[n] = t[n]
          /\ \A n \in 0..N : d <= n /\ n < N => s[n] = t[d - 1]
        BY <1>0, <1>3
    <2> HIDE DEF s
    <2>3. Move(t[d - 1], c, new, u)
        <3>1. t[d - 1] \in States /\ t[d] \in States
            BY <1>0, <1>3
        <3>2. /\ q[d].open = (t[d - 1] = Gone) /\ q[d].version > t[d - 1].version
              /\ t[d] = [version |-> q[d].version, text |-> q[d].text]
            BY <1>4, <1>5, <1>6 DEF Move
        <3>3. /\ job.open = (t[d] = Gone) /\ job.version > t[d].version
              /\ c = [version |-> job.version, text |-> job.text]
            BY <1>3, <1>4, <1>6, <2>1 DEF Move
        <3>4. t[d].version = q[d].version /\ Gone.version = 0
            BY <3>2 DEF Gone
        <3>5. t[d] # Gone
            BY <1>4, <3>4 DEF DocVersions
        <3>6. job.version > t[d - 1].version
            <4>1. t[d - 1].version \in Nat /\ job.version \in Nat /\ q[d].version \in Nat
                BY <1>4, <3>1 DEF States, DocVersions
            <4> QED BY <3>2, <3>3, <3>4, <4>1
        <3>7. new.open = (t[d - 1] = Gone)
            BY <1>4, <3>2, <3>3, <3>5
        <3> QED BY <1>4, <1>6, <3>3, <3>6, <3>7 DEF Move
    <2>4. ASSUME NEW n \in 1..N PROVE Move(s[n - 1], s[n], Q[n], u)
        <3>0. n - 1 \in 0..N /\ n \in 0..N
            BY <1>0
        <3>1. CASE n < d
            <4>1. s[n - 1] = t[n - 1] /\ s[n] = t[n] /\ Q[n] = q[n]
                BY <1>0, <1>2, <2>2, <3>0, <3>1
            <4> QED BY <1>3, <4>1
        <3>2. CASE d <= n /\ n < N
            <4>1. s[n] = t[d - 1] /\ Q[n] = q[n + 1] /\ n + 1 \in 1..N /\ d < n + 1
                BY <1>0, <1>2, <2>2, <3>0, <3>2
            <4>2. s[n - 1] = t[d - 1]
                <5>1. CASE n = d
                    BY <1>0, <2>2, <3>0, <5>1
                <5>2. CASE d <= n - 1 /\ n - 1 < N
                    BY <2>2, <3>0, <5>2
                <5> QED BY <1>0, <3>0, <3>2, <5>1, <5>2
            <4>3. q[n + 1].method = "update" /\ q[n + 1].uri # u
                BY <1>2, <1>6, <4>1
            <4> QED BY <4>1, <4>2, <4>3 DEF Move
        <3>3. CASE n = N
            <4>1. s[n] = c /\ Q[n] = new
                BY <1>2, <2>2, <3>3
            <4>2. s[n - 1] = t[d - 1]
                <5>1. CASE d = N
                    BY <1>0, <2>2, <3>0, <3>3, <5>1
                <5>2. CASE d <= n - 1 /\ n - 1 < N
                    BY <2>2, <3>0, <5>2
                <5> QED BY <1>0, <3>0, <3>3, <5>1, <5>2
            <4> QED BY <2>3, <4>1, <4>2
        <3> QED BY <1>0, <3>1, <3>2, <3>3
    <2>5. Trace(s, Q, u, a, c)
        BY <1>2, <2>2, <2>4 DEF Trace
    <2> QED BY <2>5 DEF Leads
<1>7. CASE u # job.uri
    <2> DEFINE s == [n \in 0..N |-> IF n < d \/ n = N THEN t[n] ELSE t[n + 1]]
    <2>1. b = c /\ t[d] = t[d - 1]
        BY <1>4, <1>5, <1>7 DEF Move
    <2>2. /\ s \in [0..N -> States] /\ s[N] = b /\ s[0] = a
          /\ \A n \in 0..N : n < d => s[n] = t[n]
          /\ \A n \in 0..N : d <= n /\ n < N => s[n] = t[n + 1]
        <3>1. \A n \in 0..N : n # N => n + 1 \in 0..N
            BY <1>0
        <3> QED BY <1>0, <1>3, <3>1
    <2> HIDE DEF s
    <2>3. \A n \in 0..N : d <= n + 1 /\ n < N => s[n] = t[n + 1]
        <3>1. ASSUME NEW n \in 0..N, d <= n + 1, n < N PROVE s[n] = t[n + 1]
            <4>1. CASE d = n + 1
                BY <1>0, <2>1, <2>2, <4>1
            <4>2. CASE d <= n
                BY <2>2, <3>1, <4>2
            <4> QED BY <1>0, <3>1, <4>1, <4>2
        <3> QED BY <3>1
    <2>4. ASSUME NEW n \in 1..N PROVE Move(s[n - 1], s[n], Q[n], u)
        <3>0. n - 1 \in 0..N /\ n \in 0..N /\ n - 1 < N /\ (n - 1) + 1 = n
            BY <1>0
        <3>1. CASE n < d
            <4>1. s[n - 1] = t[n - 1] /\ s[n] = t[n] /\ Q[n] = q[n]
                BY <1>0, <1>2, <2>2, <3>0, <3>1
            <4> QED BY <1>3, <4>1
        <3>2. CASE d <= n /\ n < N
            <4>1. s[n] = t[n + 1] /\ Q[n] = q[n + 1] /\ n + 1 \in 1..N /\ (n + 1) - 1 = n
                BY <1>0, <1>2, <2>2, <3>0, <3>2
            <4>2. s[n - 1] = t[n]
                BY <2>3, <3>0, <3>2
            <4>3. Move(t[(n + 1) - 1], t[n + 1], q[n + 1], u)
                BY <1>3, <4>1
            <4> QED BY <4>1, <4>2, <4>3
        <3>3. CASE n = N
            <4>1. s[n] = b /\ Q[n] = new /\ s[n - 1] = b
                BY <1>0, <1>2, <1>3, <2>2, <2>3, <3>0, <3>3
            <4> QED BY <1>4, <1>7, <4>1 DEF Move
        <3> QED BY <1>0, <3>1, <3>2, <3>3
    <2>5. Trace(s, Q, u, a, c)
        BY <1>2, <2>1, <2>2, <2>4 DEF Trace
    <2> QED BY <2>5 DEF Leads
<1> QED BY <1>6, <1>7

\* A job that is queued leads one step further, merged or not.
LEMMA LeadsQueueJob ==
    ASSUME NEW q \in Seq(Jobs), NEW job \in Jobs, NEW u, NEW a, NEW b, NEW c \in States,
           Leads(q, u, a, b), Move(b, c, job, u)
    PROVE  Leads(QueueJob(q, job), u, a, c)
  BY QueueJobEither, LeadsAdded, LeadsMerged

\* Without a query the queue leads to the same state.
LEMMA LeadsWithdraw ==
    ASSUME NEW q \in Seq(Jobs), NEW r, NEW u, NEW a, NEW b, Leads(q, u, a, b)
    PROVE  Leads(Withdraw(q, r), u, a, b)
<1> DEFINE N == Len(q)
<1>0. N \in Nat /\ \A n \in 1..N : q[n] \in Jobs
    OBVIOUS
<1>1. PICK t : Trace(t, q, u, a, b)
    BY DEF Leads
<1>2. /\ \A n \in 0..N : t[n] \in States
      /\ t[0] = a /\ t[N] = b
      /\ \A n \in 1..N : Move(t[n - 1], t[n], q[n], u)
    BY <1>1 DEF Trace
<1>3. PICK f \in [0..N -> Seq(Jobs)] :
              /\ f[0] = <<>> /\ Withdraw(q, r) = f[N]
              /\ \A n \in 1..N : f[n] = IF Withdrawn(q[n], r) THEN f[n - 1]
                                        ELSE QueueJob(f[n - 1], q[n])
    BY WithdrawSteps
<1>4. \A n \in 0..N : f[n] \in Seq(Jobs)
    OBVIOUS
<1> DEFINE G == {n \in 0..N : Leads(f[n], u, a, t[n])}
<1>5. 0 \in G
    <2>1. 0 \in 0..N /\ a \in States
        BY <1>0, <1>2
    <2> QED BY <1>2, <1>3, <2>1, LeadsEmpty
<1>6. ASSUME NEW n \in 1..N, n - 1 \in G PROVE n \in G
    <2>1. n - 1 \in 0..N /\ n \in 0..N
        BY <1>0
    <2>2. Leads(f[n - 1], u, a, t[n - 1])
        BY <1>6
    <2>3. Move(t[n - 1], t[n], q[n], u) /\ f[n - 1] \in Seq(Jobs) /\ t[n] \in States /\ q[n] \in Jobs
        BY <1>0, <1>2, <1>4, <2>1
    <2>4. CASE Withdrawn(q[n], r)
        <3>1. f[n] = f[n - 1] /\ t[n] = t[n - 1]
            BY <1>3, <2>3, <2>4 DEF Move, Withdrawn
        <3> QED BY <2>1, <2>2, <3>1
    <2>5. CASE ~Withdrawn(q[n], r)
        <3>1. f[n] = QueueJob(f[n - 1], q[n])
            BY <1>3, <2>5
        <3>2. Leads(QueueJob(f[n - 1], q[n]), u, a, t[n])
            BY <2>2, <2>3, LeadsQueueJob
        <3> QED BY <2>1, <3>1, <3>2
    <2> QED BY <2>4, <2>5
<1> HIDE DEF G
<1>7. N \in G
    <2>1. \A n \in 0..N : n \in G
        BY <1>0, <1>5, <1>6, Upwards
    <2> QED BY <1>0, <2>1
<1> QED BY <1>2, <1>3, <1>7 DEF G

\* The first job of the queue makes the first move.
LEMMA LeadsTail ==
    ASSUME NEW q \in Seq(Jobs), q # <<>>, NEW u, NEW a, NEW b, Leads(q, u, a, b)
    PROVE  \E c \in States : Move(a, c, Head(q), u) /\ Leads(Tail(q), u, c, b)
<1>1. PICK t : Trace(t, q, u, a, b)
    BY DEF Leads
<1>2. /\ Len(q) \in Nat \ {0} /\ Tail(q) \in Seq(Jobs) /\ Len(Tail(q)) = Len(q) - 1
      /\ Head(q) = q[1] /\ \A n \in 1..(Len(q) - 1) : Tail(q)[n] = q[n + 1]
    OBVIOUS
<1>3. /\ \A n \in 0..Len(q) : t[n] \in States
      /\ t[0] = a /\ t[Len(q)] = b
      /\ \A n \in 1..Len(q) : Move(t[n - 1], t[n], q[n], u)
    BY <1>1 DEF Trace
<1> DEFINE s == [n \in 0..(Len(q) - 1) |-> t[n + 1]]
<1>4. /\ s \in [0..Len(Tail(q)) -> States] /\ s[0] = t[1] /\ s[Len(Tail(q))] = b
      /\ \A n \in 0..(Len(q) - 1) : s[n] = t[n + 1]
    <2>1. \A n \in 0..(Len(q) - 1) : n + 1 \in 0..Len(q)
        BY <1>2
    <2> QED BY <1>2, <1>3, <2>1
<1> HIDE DEF s
<1>5. ASSUME NEW n \in 1..(Len(q) - 1) PROVE Move(s[n - 1], s[n], Tail(q)[n], u)
    <2>1. /\ n - 1 \in 0..(Len(q) - 1) /\ n \in 0..(Len(q) - 1) /\ n + 1 \in 1..Len(q)
          /\ (n - 1) + 1 = n /\ (n + 1) - 1 = n
        BY <1>2
    <2>2. Move(t[(n + 1) - 1], t[n + 1], q[n + 1], u)
        BY <1>3, <2>1
    <2>3. s[n - 1] = t[(n - 1) + 1] /\ s[n] = t[n + 1]
        BY <1>4, <2>1
    <2> QED BY <1>2, <2>1, <2>2, <2>3
<1>6. Trace(s, Tail(q), u, t[1], b)
    BY <1>2, <1>4, <1>5 DEF Trace
<1>7. t[1] \in States /\ Move(a, t[1], Head(q), u)
    <2>1. 1 \in 1..Len(q) /\ 1 \in 0..Len(q) /\ 1 - 1 = 0
        BY <1>2
    <2> QED BY <1>2, <1>3, <2>1
<1> QED BY <1>6, <1>7 DEF Leads

\* A queue without its last job.
LEMMA FrontIs ==
    ASSUME NEW q \in Seq(Jobs), q # <<>>
    PROVE  /\ Front(q) \in Seq(Jobs) /\ Len(Front(q)) = Len(q) - 1
           /\ \A n \in 1..(Len(q) - 1) : Front(q)[n] = q[n]
           /\ Last(q) = q[Len(q)]
<1>1. Len(q) \in Nat \ {0}
    OBVIOUS
<1> DEFINE N == Len(q) - 1
<1>2. N \in Nat /\ 1 \in Int /\ N \in Int /\ \A i \in 1..N : q[i] \in Jobs
    BY <1>1
<1>3. Front(q) = SubSeq(q, 1, N)
    BY DEF Front
<1>4. /\ SubSeq(q, 1, N) \in Seq(Jobs)
      /\ Len(SubSeq(q, 1, N)) = IF 1 <= N THEN N - 1 + 1 ELSE 0
      /\ \A i \in 1..(N - 1 + 1) : SubSeq(q, 1, N)[i] = q[1 + i - 1]
    <2> HIDE DEF N
    <2> QED BY <1>2, SubSeqProperties
<1>5. Front(q) \in Seq(Jobs) /\ Len(Front(q)) = N /\ \A i \in 1..N : Front(q)[i] = q[i]
    <2> HIDE DEF N
    <2>1. N - 1 + 1 = N /\ \A i \in 1..N : 1 + i - 1 = i
        BY <1>2
    <2> QED BY <1>2, <1>3, <1>4, <2>1
<1>6. Last(q) = q[Len(q)]
    BY DEF Last
<1> QED BY <1>5, <1>6

\* The workspace job that a new one replaces had moved nothing.
LEMMA LeadsWorkspace ==
    ASSUME NEW q \in Seq(Jobs), q # <<>>, Last(q).method = "workspace", NEW u, NEW a, NEW b,
           Leads(q, u, a, b)
    PROVE  Leads(Front(q), u, a, b)
<1>1. PICK t : Trace(t, q, u, a, b)
    BY DEF Leads
<1>2. Len(q) \in Nat \ {0}
    OBVIOUS
<1>3. /\ Front(q) \in Seq(Jobs) /\ Len(Front(q)) = Len(q) - 1
      /\ \A n \in 1..(Len(q) - 1) : Front(q)[n] = q[n]
      /\ Last(q) = q[Len(q)]
    BY FrontIs
<1>4. /\ \A n \in 0..Len(q) : t[n] \in States
      /\ t[0] = a /\ t[Len(q)] = b
      /\ \A n \in 1..Len(q) : Move(t[n - 1], t[n], q[n], u)
    BY <1>1 DEF Trace
<1>5. t[Len(q) - 1] = b
    <2>1. Len(q) \in 1..Len(q)
        BY <1>2
    <2>2. Move(t[Len(q) - 1], b, Last(q), u)
        BY <1>3, <1>4, <2>1
    <2> QED BY <2>2 DEF Move
<1> DEFINE s == [n \in 0..(Len(q) - 1) |-> t[n]]
<1>6. /\ s \in [0..(Len(q) - 1) -> States] /\ s[0] = a /\ s[Len(q) - 1] = b
      /\ \A n \in 0..(Len(q) - 1) : s[n] = t[n]
    BY <1>2, <1>4, <1>5
<1> HIDE DEF s
<1>7. ASSUME NEW n \in 1..(Len(q) - 1) PROVE Move(s[n - 1], s[n], Front(q)[n], u)
    <2>1. n - 1 \in 0..(Len(q) - 1) /\ n \in 0..(Len(q) - 1) /\ n \in 1..Len(q)
        BY <1>2
    <2> QED BY <1>3, <1>4, <1>6, <2>1
<1>8. Trace(s, Front(q), u, a, b)
    BY <1>3, <1>6, <1>7 DEF Trace
<1> QED BY <1>8 DEF Leads

-----------------------------------------------------------------------------
(* The documents as a whole.                                               *)

\* Maps, element by element.
LEMMA InMaps ==
    ASSUME NEW held
    PROVE  held \in Maps <=>
             /\ DOMAIN held \subseteq Uris /\ held = [u \in DOMAIN held |-> held[u]]
             /\ \A u \in DOMAIN held : held[u] \in Entries
  BY DEF Maps

\* A document that is held is not gone.
LEMMA HeldIs ==
    ASSUME NEW held \in Maps, NEW u
    PROVE  /\ At(held, u) \in States
           /\ At(held, u) = Gone <=> u \notin DOMAIN held
           /\ u \in DOMAIN held => At(held, u) = held[u] /\ held[u] \in Entries
<1>1. Gone \in States /\ Gone.version = 0
    BY DEF Gone, States
<1>2. CASE u \in DOMAIN held
    <2>1. At(held, u) = held[u] /\ held[u] \in Entries
        BY <1>2, InMaps DEF At
    <2>2. held[u] \in States /\ held[u].version # 0
        BY <2>1 DEF Entries, States, DocVersions
    <2> QED BY <1>1, <1>2, <2>1, <2>2
<1>3. CASE u \notin DOMAIN held
    BY <1>1, <1>3 DEF At
<1> QED BY <1>2, <1>3

\* Two maps that give every document the same state are the same.
LEMMA MapsEqual ==
    ASSUME NEW a \in Maps, NEW b \in Maps, \A u \in Uris : At(a, u) = At(b, u)
    PROVE  a = b
<1>1. DOMAIN a = DOMAIN b
    <2>1. \A u : u \in DOMAIN a => u \in Uris
        BY InMaps
    <2>2. \A u : u \in DOMAIN b => u \in Uris
        BY InMaps
    <2>3. ASSUME NEW u \in Uris PROVE u \in DOMAIN a <=> u \in DOMAIN b
        BY HeldIs
    <2> QED BY <2>1, <2>2, <2>3
<1>2. ASSUME NEW u \in DOMAIN a PROVE a[u] = b[u]
    <2>1. u \in Uris /\ At(a, u) = a[u] /\ At(b, u) = b[u]
        BY <1>1, InMaps DEF At
    <2> QED BY <2>1
<1>3. a = [u \in DOMAIN a |-> a[u]] /\ b = [u \in DOMAIN b |-> b[u]]
    BY InMaps
<1> QED BY <1>1, <1>2, <1>3

\* With and Restrict on the documents.
LEMMA WithIs ==
    ASSUME NEW held \in Maps, NEW u \in Uris, NEW e \in Entries
    PROVE  /\ With(held, u, e) \in Maps
           /\ \A v : At(With(held, u, e), v) = IF v = u THEN e ELSE At(held, v)
<1> DEFINE m == With(held, u, e)
<1>1. /\ DOMAIN m = DOMAIN held \cup {u} /\ m = [v \in DOMAIN m |-> m[v]]
      /\ \A v \in DOMAIN m : m[v] = IF v = u THEN e ELSE held[v]
    BY DEF With
<1>2. DOMAIN held \subseteq Uris /\ \A v \in DOMAIN held : held[v] \in Entries
    BY InMaps
<1> HIDE DEF m
<1>3. DOMAIN m \subseteq Uris /\ \A v \in DOMAIN m : m[v] \in Entries
    BY <1>1, <1>2
<1>4. m \in Maps
    BY <1>1, <1>3, InMaps
<1>5. \A v : At(m, v) = IF v = u THEN e ELSE At(held, v)
    BY <1>1 DEF At
<1> QED BY <1>4, <1>5 DEF m

\* A document that is closed is gone, and no other one.
LEMMA WithoutIs ==
    ASSUME NEW held \in Maps, NEW u
    PROVE  /\ Restrict(held, DOMAIN held \ {u}) \in Maps
           /\ \A v : At(Restrict(held, DOMAIN held \ {u}), v) = IF v = u THEN Gone ELSE At(held, v)
<1> DEFINE m == Restrict(held, DOMAIN held \ {u})
<1>1. /\ DOMAIN m = DOMAIN held \ {u} /\ m = [v \in DOMAIN m |-> m[v]]
      /\ \A v \in DOMAIN m : m[v] = held[v]
    BY DEF Restrict
<1>2. DOMAIN held \subseteq Uris /\ \A v \in DOMAIN held : held[v] \in Entries
    BY InMaps
<1> HIDE DEF m
<1>3. DOMAIN m \subseteq Uris /\ \A v \in DOMAIN m : m[v] \in Entries
    BY <1>1, <1>2
<1>4. m \in Maps
    BY <1>1, <1>3, InMaps
<1>5. \A v : At(m, v) = IF v = u THEN Gone ELSE At(held, v)
    BY <1>1 DEF At
<1> QED BY <1>4, <1>5 DEF m

\* The analyzer does with a job what its move says.
LEMMA ApplyIs ==
    ASSUME NEW held \in Maps, NEW job \in Jobs
    PROVE  /\ Apply(held, job) \in Maps
           /\ \A u \in Uris : \A c : Move(At(held, u), c, job, u) => At(Apply(held, job), u) = c
<1>1. CASE job.method = "update"
    <2> DEFINE e == [version |-> job.version, text |-> job.text]
               fits == Opens(held, job) \/ Changes(held, job)
    <2>1. job \in Updates
        BY <1>1, JobKinds
    <2>2. e \in Entries /\ job.uri \in Uris /\ job.version \in Nat /\ job.open \in BOOLEAN
        BY <2>1 DEF Updates, Entries, DocVersions
    <2>3. Apply(held, job) = IF fits THEN With(held, job.uri, e) ELSE held
        BY <1>1 DEF Apply
    <2> HIDE DEF e, fits
    <2>4. /\ Apply(held, job) \in Maps
          /\ \A u : u # job.uri => At(Apply(held, job), u) = At(held, u)
          /\ fits => At(Apply(held, job), job.uri) = e
        BY <2>2, <2>3, WithIs
    <2>5. ASSUME NEW c, Move(At(held, job.uri), c, job, job.uri)
          PROVE  At(Apply(held, job), job.uri) = c
        <3>1. /\ job.open = (At(held, job.uri) = Gone) /\ job.version > At(held, job.uri).version
              /\ c = e
            BY <1>1, <2>5 DEF Move, e
        <3>2. fits
            BY <2>2, <3>1, HeldIs DEF fits, Opens, Changes
        <3> QED BY <2>4, <3>1, <3>2
    <2>6. ASSUME NEW u \in Uris, NEW c, u # job.uri, Move(At(held, u), c, job, u)
          PROVE  At(Apply(held, job), u) = c
        BY <1>1, <2>4, <2>6 DEF Move
    <2> QED BY <2>4, <2>5, <2>6
<1>2. CASE job.method = "close"
    <2>1. Apply(held, job) = Restrict(held, DOMAIN held \ {job.uri})
        BY <1>2 DEF Apply
    <2>2. /\ Apply(held, job) \in Maps
          /\ \A u : At(Apply(held, job), u) = IF u = job.uri THEN Gone ELSE At(held, u)
        <3> DEFINE v == job.uri
        <3>1. /\ Restrict(held, DOMAIN held \ {v}) \in Maps
              /\ \A u : At(Restrict(held, DOMAIN held \ {v}), u) = IF u = v THEN Gone ELSE At(held, u)
            BY WithoutIs
        <3> QED BY <2>1, <3>1
    <2> QED BY <1>2, <2>2 DEF Move
<1>3. CASE job.method \in {"workspace", "query"}
    <2>1. Apply(held, job) = held
        BY <1>3 DEF Apply
    <2> QED BY <1>3, <2>1 DEF Move
<1> QED BY <1>1, <1>2, <1>3, JobKinds

\* The traces of all documents together are what Replay does.
LEMMA LeadsReplay ==
    ASSUME NEW q \in Seq(Jobs), NEW a \in Maps, NEW b \in Maps,
           \A u \in Uris : Leads(q, u, At(a, u), At(b, u))
    PROVE  Replay(a, q) = b
<1> DEFINE N == Len(q)
           step == [n \in 1..N |-> [m \in Maps |-> Apply(m, q[n])]]
<1>0. N \in Nat /\ \A n \in 1..N : q[n] \in Jobs
    OBVIOUS
<1>1. \A n \in 1..N : \A m \in Maps : step[n][m] = Apply(m, q[n])
    OBVIOUS
<1> HIDE DEF step
<1>2. Stepping(step, N, Maps)
    BY <1>0, <1>1, ApplyIs DEF Stepping
<1>3. PICK h : Iterates(h, step, N, Maps, a)
    BY <1>0, <1>2, Iterated
<1>4. /\ h \in [0..N -> Maps] /\ h[0] = a
      /\ \A n \in 1..N : n - 1 \in 0..N /\ h[n - 1] \in Maps /\ h[n] = Apply(h[n - 1], q[n])
    <2>1. h \in [0..N -> Maps] /\ h[0] = a /\ \A n \in 1..N : h[n] = step[n][h[n - 1]]
        BY <1>3 DEF Iterates
    <2>2. \A n \in 1..N : n - 1 \in 0..N
        BY <1>0
    <2> QED BY <1>1, <2>1, <2>2
<1>5. Replay(a, q) = h[N]
    <2>1. h = [n \in 0..N |-> h[n]] /\ \A n \in 1..N : h[n] = Apply(h[n - 1], q[n])
        BY <1>4
    <2>2. Replay(h[0], q) = h[N]
        BY <1>0, <2>1, ReplaySteps
    <2> QED BY <1>4, <2>2
<1>6. ASSUME NEW u \in Uris PROVE At(h[N], u) = At(b, u)
    <2>1. PICK t : Trace(t, q, u, At(a, u), At(b, u))
        BY DEF Leads
    <2>2. /\ t[0] = At(a, u) /\ t[N] = At(b, u)
          /\ \A n \in 1..N : Move(t[n - 1], t[n], q[n], u)
        BY <2>1 DEF Trace
    <2> DEFINE G == {n \in 0..N : At(h[n], u) = t[n]}
    <2>3. 0 \in G
        BY <1>0, <1>4, <2>2
    <2>4. ASSUME NEW n \in 1..N, n - 1 \in G PROVE n \in G
        <3>1. Move(At(h[n - 1], u), t[n], q[n], u)
            BY <2>2, <2>4
        <3>2. h[n - 1] \in Maps /\ q[n] \in Jobs /\ h[n] = Apply(h[n - 1], q[n]) /\ n \in 0..N
            BY <1>0, <1>4
        <3>3. At(Apply(h[n - 1], q[n]), u) = t[n]
            BY <3>1, <3>2, ApplyIs
        <3> QED BY <3>2, <3>3
    <2> HIDE DEF G
    <2>5. \A n \in 0..N : n \in G
        BY <1>0, <2>3, <2>4, Upwards
    <2>6. N \in G
        BY <1>0, <2>5
    <2> QED BY <2>2, <2>6 DEF G
<1>7. h[N] \in Maps
    BY <1>0, <1>4
<1>8. h[N] = b
    BY <1>6, <1>7, MapsEqual
<1> QED BY <1>5, <1>8

-----------------------------------------------------------------------------
(* The events.                                                             *)

\* f is e without its first entry, or with one more.
Shorter(f, e) ==
    /\ Sequence(f) /\ Len(e) = Len(f) + 1 /\ \A i \in 1..Len(f) : f[i] = e[i + 1]
Longer(f, e, m) ==
    /\ Sequence(f) /\ Len(f) = Len(e) + 1 /\ f[Len(f)] = m /\ \A i \in 1..Len(e) : f[i] = e[i]

\* The tail of the events is shorter by its first entry.
LEMMA EventsTail ==
    ASSUME NEW e, Sequence(e), e # <<>>
    PROVE  Shorter(Tail(e), e) /\ Head(e) = e[1]
<1> DEFINE S == {e[i] : i \in 1..Len(e)}
<1>1. Len(e) \in Nat /\ e = [i \in 1..Len(e) |-> e[i]]
    BY DEF Sequence
<1>2. e \in Seq(S)
    BY <1>1
<1> HIDE DEF S
<1>3. /\ Tail(e) \in Seq(S) /\ Len(Tail(e)) = Len(e) - 1 /\ Head(e) = e[1]
      /\ \A i \in 1..(Len(e) - 1) : Tail(e)[i] = e[i + 1] /\ Len(e) # 0
    BY <1>2
<1>4. Tail(e) = [i \in 1..Len(Tail(e)) |-> Tail(e)[i]]
    <2>1. Tail(e) \in [1..Len(Tail(e)) -> S]
        BY <1>3, LenProperties
    <2> QED BY <2>1
<1> QED BY <1>1, <1>3, <1>4 DEF Shorter, Sequence

\* A message that is added is the last one.
LEMMA EventsAppend ==
    ASSUME NEW e, Sequence(e), NEW m
    PROVE  Longer(Append(e, m), e, m)
<1> DEFINE S == {e[i] : i \in 1..Len(e)} \cup {m}
<1>1. Len(e) \in Nat /\ e = [i \in 1..Len(e) |-> e[i]]
    BY DEF Sequence
<1>2. e \in Seq(S) /\ m \in S
    BY <1>1
<1> HIDE DEF S
<1>3. /\ Append(e, m) \in Seq(S) /\ Len(Append(e, m)) = Len(e) + 1 /\ Append(e, m)[Len(e) + 1] = m
      /\ \A i \in 1..Len(e) : Append(e, m)[i] = e[i]
    BY <1>2, AppendIs
<1>4. Append(e, m) = [i \in 1..Len(Append(e, m)) |-> Append(e, m)[i]]
    <2>1. Append(e, m) \in [1..Len(Append(e, m)) -> S]
        BY <1>3, LenProperties
    <2> QED BY <2>1
<1> QED BY <1>1, <1>3, <1>4 DEF Longer, Sequence

\* What is taken from the events was there before, and what is added is last.
LEMMA ShorterIs ==
    ASSUME NEW e, NEW f, Sequence(e), Shorter(f, e)
    PROVE  /\ 1 \in 1..Len(e)
           /\ \A i \in 1..Len(f) : i + 1 \in 1..Len(e) /\ f[i] = e[i + 1]
           /\ \A i \in 1..Len(e) : i = 1 \/ (i - 1 \in 1..Len(f) /\ f[i - 1] = e[i])
<1>1. /\ Len(f) \in Nat /\ Len(e) \in Nat
      /\ Len(e) = Len(f) + 1 /\ \A i \in 1..Len(f) : f[i] = e[i + 1]
    BY DEF Sequence, Shorter
<1>2. ASSUME NEW i \in 1..Len(e), i # 1 PROVE i - 1 \in 1..Len(f) /\ f[i - 1] = e[i]
    <2>1. i - 1 \in 1..Len(f) /\ (i - 1) + 1 = i
        BY <1>1, <1>2
    <2>2. f[i - 1] = e[(i - 1) + 1]
        BY <1>1, <2>1
    <2> QED BY <2>1, <2>2
<1>3. 1 \in 1..Len(e) /\ \A i \in 1..Len(f) : i + 1 \in 1..Len(e)
    BY <1>1
<1> QED BY <1>1, <1>2, <1>3

\* What is added is last, and all that was there stays.
LEMMA LongerIs ==
    ASSUME NEW e, NEW f, NEW m, Sequence(e), Longer(f, e, m)
    PROVE  /\ Len(f) \in 1..Len(f) /\ f[Len(f)] = m /\ Len(f) \notin 1..Len(e)
           /\ \A i \in 1..Len(e) : i \in 1..Len(f) /\ i # Len(f) /\ f[i] = e[i]
           /\ \A i \in 1..Len(f) : i = Len(f) \/ i \in 1..Len(e)
<1>1. /\ Len(f) \in Nat /\ Len(e) \in Nat
      /\ Len(f) = Len(e) + 1 /\ f[Len(f)] = m /\ \A i \in 1..Len(e) : f[i] = e[i]
    BY DEF Sequence, Longer
<1>2. /\ Len(f) \in 1..Len(f) /\ Len(f) \notin 1..Len(e)
      /\ \A i \in 1..Len(e) : i \in 1..Len(f) /\ i # Len(f)
      /\ \A i \in 1..Len(f) : i = Len(f) \/ i \in 1..Len(e)
    BY <1>1
<1> QED BY <1>1, <1>2

-----------------------------------------------------------------------------
(* How the actions treat the events.                                       *)

Sends == \E m : /\ m.is # "reply" /\ Documented(m) /\ Longer(events', events, m)
                /\ UNCHANGED <<scheduler, drained, phase, jobChannel, reply, analyzer, shown, answers>>
Takes == events # <<>> /\ Shorter(events', events) /\ Head(events) = events[1] /\ Documented(events[1])
Handling == DidOpen \/ DidChange \/ DidClose \/ WorkspaceChanged
            \/ AskNothing \/ AskStale \/ Ask \/ AskTooLate \/ CancelRequest
            \/ Shutdown \/ Ignore \/ Exit("exit") \/ Exit("end")
Completing == CompleteStopped \/ CompleteUpdate \/ CompleteQuery

\* What the session takes is the head of the events, as it was sent.
LEMMA Taking ==
    ASSUME ServerTyped, Take
    PROVE  Takes
<1>1. events # <<>> /\ events' = Tail(events) /\ Sequence(events)
    BY DEF Take, ServerTyped
<1>2. Shorter(events', events) /\ Head(events) = events[1]
    BY <1>1, EventsTail
<1>3. 1 \in 1..Len(events)
    BY <1>1, <1>2, ShorterIs
<1> QED BY <1>1, <1>2, <1>3 DEF Takes, ServerTyped

\* The handlers of messages take one and leave the worker alone.
LEMMA HandlingTakes ==
    ASSUME ServerTyped, Handling
    PROVE  /\ Takes /\ events[1].is # "reply"
           /\ UNCHANGED <<revision, jobChannel, reply, analyzer, sending>>
<1>1. \E what : what # "reply" /\ Handle(what)
    BY DEF Handling, DidOpen, DidChange, DidClose, WorkspaceChanged, AskNothing, AskStale, Ask,
           AskTooLate, CancelRequest, Shutdown, Ignore, Exit, Serve
<1> QED BY <1>1, Taking DEF Handle, Takes

\* The end of a job takes its reply.
LEMMA CompletingTakes ==
    ASSUME ServerTyped, Completing
    PROVE  /\ Takes /\ events[1].is = "reply" /\ active # <<>> /\ active' = <<>>
           /\ revision' = events[1].revision
           /\ UNCHANGED <<documents, serverPending, generation, shutdown, phase, jobChannel, reply,
                          analyzer, sending>>
<1>1. CompleteJob
    BY DEF Completing, CompleteStopped, CompleteUpdate, CompleteQuery
<1> QED BY <1>1, Taking DEF CompleteJob, Result, Takes

\* The editor only adds a message.
LEMMA EditorSends ==
    ASSUME ServerTyped, Editor
    PROVE  Sends
<1> DEFINE Message(m) == m.is # "reply" /\ Documented(m) /\ Send(m)
<1>1. ASSUME NEW u \in Uris, SendOpen(u) PROVE \E m : Message(m)
    <2> DEFINE m == [is |-> "open", uri |-> u, version |-> 1]
    <2>1. Message(m)
        BY <1>1 DEF SendOpen, Documented, DocVersions
    <2> QED BY <2>1
<1>2. ASSUME NEW u \in Uris, SendChange(u) PROVE \E m : Message(m)
    <2>1. PICK version \in {editor[u], editor[u] + 1} :
                Send([is |-> "change", uri |-> u, version |-> version])
        BY <1>2 DEF SendChange
    <2>2. version \in DocVersions
        <3>1. editor[u] \in DocVersions
            BY <1>2 DEF SendChange, ServerTyped
        <3> QED BY <3>1 DEF DocVersions
    <2> DEFINE m == [is |-> "change", uri |-> u, version |-> version]
    <2>3. Message(m)
        BY <2>1, <2>2 DEF Documented
    <2> QED BY <2>3
<1>3. ASSUME NEW u \in Uris, SendClose(u) PROVE \E m : Message(m)
    <2> DEFINE m == [is |-> "close", uri |-> u]
    <2>1. Message(m)
        BY <1>3 DEF SendClose, Documented
    <2> QED BY <2>1
<1>4. ASSUME NEW r \in Requests, NEW k \in Kinds, NEW u \in Uris, SendQuery(r, k, u)
      PROVE  \E m : Message(m)
    <2>1. PICK p \in IF k = "call" THEN 0..generation ELSE {0} :
                Send([is |-> "query", id |-> r, kind |-> k, uri |-> u, prepared |-> p])
        BY <1>4 DEF SendQuery
    <2> DEFINE m == [is |-> "query", id |-> r, kind |-> k, uri |-> u, prepared |-> p]
    <2>2. Message(m)
        BY <1>4, <2>1 DEF SendQuery, Documented
    <2> QED BY <2>2
<1>5. ASSUME NEW r \in Requests, SendCancel(r) PROVE \E m : Message(m)
    <2> DEFINE m == [is |-> "cancel", id |-> r]
    <2>1. Message(m)
        BY <1>5 DEF SendCancel, Documented
    <2> QED BY <2>1
<1>6. ASSUME NEW what \in {"workspace", "shutdown", "exit", "end"}, SendOther(what)
      PROVE  \E m : Message(m)
    <2> DEFINE m == [is |-> what]
    <2>1. Message(m)
        BY <1>6 DEF SendOther, Documented
    <2> QED BY <2>1
<1>7. PICK m : Message(m)
    BY <1>1, <1>2, <1>3, <1>4, <1>5, <1>6 DEF Editor
<1>8. Longer(events', events, m)
    BY <1>7, EventsAppend DEF Send, ServerTyped
<1> QED BY <1>7, <1>8 DEF Sends, Send

\* The worker only adds its reply.
LEMMA ReportAdds ==
    ASSUME ServerTyped, Report
    PROVE  /\ reply # <<>> /\ Longer(events', events, reply[1]) /\ reply' = <<>>
           /\ UNCHANGED <<scheduler, drained, phase, jobChannel, analyzer, sending, shown, answers>>
  BY EventsAppend DEF Report, ServerTyped

-----------------------------------------------------------------------------
(* What the actions of the session do to its queue.                        *)

\* Q is the queue q with the queries of ids marked.
MarkedAs(Q, q, ids) ==
    /\ Q \in Seq(Jobs) /\ Len(Q) = Len(q)
    /\ \A i \in 1..Len(q) :
          /\ Q[i].method = q[i].method /\ Q[i].generation = q[i].generation
          /\ q[i].method = "query" =>
                /\ Q[i].id = q[i].id /\ Q[i].kind = q[i].kind /\ Q[i].uri = q[i].uri
                /\ Q[i].cancelled = IF q[i].id \in ids THEN TRUE ELSE q[i].cancelled

\* MarkCancelled marks the queries of ids and changes nothing else.
LEMMA Marked ==
    ASSUME NEW q \in Seq(Jobs), NEW ids
    PROVE  MarkedAs(MarkCancelled(q, ids), q, ids)
<1> DEFINE Q == MarkCancelled(q, ids)
           e(i) == IF IsQuery(q[i]) /\ q[i].id \in ids THEN [q[i] EXCEPT !.cancelled = TRUE] ELSE q[i]
<1>1. Len(q) \in Nat /\ DOMAIN q = 1..Len(q) /\ \A i \in 1..Len(q) : q[i] \in Jobs
    OBVIOUS
<1>2. Q = [i \in 1..Len(q) |-> e(i)]
    BY <1>1 DEF MarkCancelled
<1>3. ASSUME NEW i \in 1..Len(q)
      PROVE  /\ e(i) \in Jobs /\ e(i).method = q[i].method /\ e(i).generation = q[i].generation
             /\ q[i].method = "query" =>
                     /\ e(i).id = q[i].id /\ e(i).kind = q[i].kind /\ e(i).uri = q[i].uri
                     /\ e(i).cancelled = IF q[i].id \in ids THEN TRUE ELSE q[i].cancelled
    <2>1. CASE q[i].method = "query"
        <3>1. q[i] \in Queries
            BY <1>1, <2>1, JobKinds
        <3> QED BY <2>1, <3>1 DEF Queries, IsQuery, Jobs
    <2>2. CASE q[i].method # "query"
        BY <1>1, <2>2 DEF IsQuery
    <2> QED BY <2>1, <2>2
<1> HIDE DEF e
<1> HIDE DEF Q
<1>4. Q \in [1..Len(q) -> Jobs] /\ \A i \in 1..Len(q) : Q[i] = e(i)
    BY <1>2, <1>3
<1>5. Q \in Seq(Jobs) /\ Len(Q) = Len(q)
    BY <1>1, <1>4, SeqDef, LenProperties
<1>6. MarkedAs(Q, q, ids)
    BY <1>3, <1>4, <1>5 DEF MarkedAs
<1> QED BY <1>6 DEF Q

\* An edit of a document: what is queued fits the documents of the server.
LEMMA Editing ==
    ASSUME ServerTyped, DidOpen \/ DidChange
    PROVE  \E job \in Updates :
              /\ ~shutdown
              /\ job.open = (At(documents, job.uri) = Gone)
              /\ job.version > At(documents, job.uri).version
              /\ documents' = With(documents, job.uri, [version |-> job.version, text |-> job.text])
              /\ serverPending' = QueueJob(serverPending, job)
              /\ job.generation = generation + 1 /\ generation' = generation + 1
              /\ UNCHANGED <<active, published, shutdown, phase, shown, answers>>
<1> DEFINE m == Head(events)
           job(open) == [method |-> "update", uri |-> m.uri, version |-> m.version, open |-> open,
                         text |-> generation + 1, generation |-> generation + 1]
<1>1. Takes /\ ~shutdown /\ UNCHANGED <<shutdown, phase>>
    BY HandlingTakes DEF Handling, DidOpen, DidChange, Serve
<1>2. m.uri \in Uris /\ m.version \in DocVersions
    BY <1>1 DEF Takes, Documented, DidOpen, DidChange, Serve, Handle
<1>3. documents \in Maps /\ generation \in Nat
    BY DEF ServerTyped
<1>4. CASE DidOpen
    <2>1. EditDocument(m.uri, m.version, TRUE) /\ m.uri \notin DOMAIN documents
        BY <1>4 DEF DidOpen
    <2>2. job(TRUE) \in Updates /\ job(TRUE).uri = m.uri /\ job(TRUE).open = TRUE
          /\ job(TRUE).version = m.version /\ job(TRUE).text = generation + 1
        BY <1>2, <1>3 DEF Updates
    <2>3. At(documents, m.uri) = Gone /\ m.version > Gone.version
        BY <1>2, <2>1 DEF At, Gone, DocVersions
    <2> QED BY <1>1, <2>1, <2>2, <2>3 DEF EditDocument
<1>5. CASE DidChange
    <2>1. EditDocument(m.uri, m.version, FALSE) /\ m.uri \in DOMAIN documents
          /\ m.version > documents[m.uri].version
        BY <1>5 DEF DidChange
    <2>2. job(FALSE) \in Updates /\ job(FALSE).uri = m.uri /\ job(FALSE).open = FALSE
          /\ job(FALSE).version = m.version /\ job(FALSE).text = generation + 1
        BY <1>2, <1>3 DEF Updates
    <2>3. At(documents, m.uri) # Gone /\ At(documents, m.uri) = documents[m.uri]
        BY <1>3, <2>1, HeldIs
    <2> QED BY <1>1, <2>1, <2>2, <2>3 DEF EditDocument
<1> QED BY <1>4, <1>5

\* A document that is closed: the job is last in the queue.
LEMMA ClosesDocument ==
    ASSUME ServerTyped, DidClose
    PROVE  \E job \in Closes :
              /\ ~shutdown
              /\ documents' = Restrict(documents, DOMAIN documents \ {job.uri})
              /\ serverPending' = Append(serverPending, job)
              /\ job.generation = generation + 1 /\ generation' = generation + 1
              /\ published' = published \ {job.uri} /\ shown' = [shown EXCEPT ![job.uri] = NoView]
              /\ UNCHANGED <<active, shutdown, phase, answers>>
<1> DEFINE m == Head(events)
           job == [method |-> "close", uri |-> m.uri, generation |-> generation + 1]
<1>1. Takes
    BY HandlingTakes DEF Handling
<1>2. m.uri \in Uris /\ generation \in Nat
    BY <1>1 DEF Takes, Documented, DidClose, Serve, Handle, ServerTyped
<1>3. job \in Closes
    BY <1>2 DEF Closes
<1> QED BY <1>3 DEF DidClose, Serve

\* A workspace job is last in the queue, in place of one that was.
LEMMA Reworking ==
    ASSUME ServerTyped, WorkspaceChanged
    PROVE  \E job \in Workspaces : \E q \in Seq(Jobs) :
              /\ ~shutdown /\ serverPending' = Append(q, job)
              /\ \/ q = serverPending
                 \/ /\ q = Front(serverPending) /\ serverPending # <<>>
                    /\ Last(serverPending).method = "workspace"
              /\ job.generation = generation + 1 /\ generation' = generation + 1
              /\ UNCHANGED <<documents, active, published, shutdown, phase, shown, answers>>
<1> DEFINE job == [method |-> "workspace", generation |-> generation + 1]
           q == IF serverPending # <<>> /\ Last(serverPending).method = "workspace"
                THEN Front(serverPending) ELSE serverPending
<1>1. job \in Workspaces
    BY DEF Workspaces, ServerTyped
<1>2. serverPending \in Seq(Jobs)
    BY DEF ServerTyped
<1>3. q \in Seq(Jobs)
    BY <1>2 DEF Front
<1>4. serverPending' = Append(q, job)
    BY DEF WorkspaceChanged, QueueWorkspace
<1>5. \/ q = serverPending
      \/ /\ q = Front(serverPending) /\ serverPending # <<>>
         /\ Last(serverPending).method = "workspace"
    OBVIOUS
<1>6. /\ ~shutdown /\ job.generation = generation + 1 /\ generation' = generation + 1
      /\ UNCHANGED <<documents, active, published, shutdown, phase, shown, answers>>
    BY DEF WorkspaceChanged, Serve
<1> HIDE DEF job, q
<1> QED BY <1>1, <1>3, <1>4, <1>5, <1>6

\* A query is queued with the text it is about.
LEMMA Asks ==
    ASSUME ServerTyped, Ask
    PROVE  \E job \in Queries :
              /\ ~shutdown /\ serverPending' = Append(serverPending, job)
              /\ job.id = events[1].id /\ job.kind = events[1].kind /\ events[1].is = "query"
              /\ job.cancelled = FALSE /\ job.generation = generation
              /\ job.kind \in Positional =>
                    job.uri \in DOMAIN documents /\ documents[job.uri].text = job.text
              /\ UNCHANGED <<documents, active, generation, published, shutdown, phase, shown, answers>>
<1> DEFINE m == Head(events)
           text == IF m.kind \in Positional THEN documents[m.uri].text ELSE 0
           job == [method |-> "query", id |-> m.id, kind |-> m.kind, uri |-> m.uri,
                   text |-> text, generation |-> generation, cancelled |-> FALSE]
<1>1. Takes
    BY HandlingTakes DEF Handling
<1>2. m = events[1] /\ m.is = "query" /\ m.uri \in Uris /\ m.id \in Requests /\ m.kind \in Kinds
    BY <1>1 DEF Takes, Documented, Ask, Serve, Handle
<1>3. m.kind \in Positional => m.uri \in DOMAIN documents /\ documents[m.uri].text = text
    BY DEF Ask
<1>4. text \in Nat /\ generation \in Nat
    <2>1. documents \in Maps /\ generation \in Nat
        BY DEF ServerTyped
    <2>2. m.uri \in DOMAIN documents => documents[m.uri].text \in Nat
        BY <2>1, HeldIs DEF Entries
    <2> QED BY <1>3, <2>1, <2>2
<1>5. serverPending' = Append(serverPending, job)
    BY DEF Ask
<1>6. /\ ~shutdown
      /\ UNCHANGED <<documents, active, generation, published, shutdown, phase, shown, answers>>
    BY DEF Ask, Serve
<1> HIDE DEF text
<1>7. /\ job \in Queries /\ job.id = m.id /\ job.kind = m.kind /\ job.uri = m.uri /\ job.text = text
      /\ job.generation = generation /\ job.cancelled = FALSE
    BY <1>2, <1>4 DEF Queries
<1> HIDE DEF job, m
<1> QED BY <1>2, <1>3, <1>5, <1>6, <1>7

\* A cancellation takes the query out of the queue, or marks the active one.
LEMMA Cancels ==
    ASSUME ServerTyped, CancelRequest
    PROVE  \E r \in Requests :
              /\ ~shutdown /\ serverPending' = Withdraw(serverPending, r)
              /\ active' = MarkCancelled(active, {r})
              /\ answers' = IF Asking(r, serverPending \o active) = {} THEN answers
                            ELSE [answers EXCEPT ![r] = Append(@, "cancelled")]
              /\ UNCHANGED <<documents, generation, published, shutdown, phase, shown>>
<1>1. Takes
    BY HandlingTakes DEF Handling
<1>2. Head(events).id \in Requests
    BY <1>1 DEF Takes, Documented, CancelRequest, Serve, Handle
<1> QED BY <1>2 DEF CancelRequest, Serve, Settle

-----------------------------------------------------------------------------
(* The actions keep the types.                                             *)

ServerStep == ServerInv /\ [ServerNext]_serverVars

\* Which cases there are.
LEMMA ServerCases ==
    ASSUME ServerStep
    PROVE  \/ Editor \/ Handling \/ Completing \/ EndTurn \/ Transact \/ Report \/ Stop
           \/ UNCHANGED serverVars
  BY DEF ServerStep, ServerNext, Session, Worker, Handling, Completing

\* There is one active job.
LEMMA ActiveJob ==
    ASSUME ServerTyped, active # <<>>
    PROVE  active[1] \in Jobs /\ Len(active) = 1 /\ active = <<active[1]>>
<1>1. active \in Seq(Jobs) /\ Len(active) <= 1
    BY DEF ServerTyped
<1>2. Len(active) = 1
    <2>1. active \in Seq(Jobs)
        BY DEF ServerTyped
    <2>2. Len(active) \in Nat \ {0}
        BY <2>1, EmptySeq
    <2> DEFINE n == Len(active)
    <2>3. n \in Nat \ {0} /\ n <= 1
        BY <1>1, <2>2
    <2> HIDE DEF n
    <2>4. n = 1
        BY <2>3
    <2> QED BY <2>4 DEF n
<1>3. active \in [1..1 -> Jobs]
    BY <1>1, <1>2, LenProperties
<1> QED BY <1>2, <1>3

\* What the worker is running, or has run.
LEMMA Worked ==
    ASSUME ServerInv, jobChannel # <<>>
    PROVE  /\ jobChannel[1].job \in Jobs /\ jobChannel = <<jobChannel[1]>>
           /\ jobChannel[1].revision = current /\ revision = current
           /\ jobChannel[1].job.method = active[1].method /\ active # <<>> /\ NoReply /\ reply = <<>>
           /\ IsQuery(jobChannel[1].job) =>
                jobChannel[1].job.kind = active[1].kind /\ jobChannel[1].job.uri = active[1].uri
<1>1. Sending /\ active # <<>> /\ reply = <<>> /\ NoReply
    BY DEF ServerInv, Flight, Sent
<1>2. PICK job \in Jobs :
          /\ jobChannel = <<[job |-> job, revision |-> current]>>
          /\ job.method = active[1].method /\ revision = current
          /\ job.method = "query" => job.kind = active[1].kind /\ job.uri = active[1].uri
    BY <1>1 DEF Sending
<1>3. jobChannel[1].job = job /\ jobChannel[1].revision = current
    BY <1>2
<1> QED BY <1>1, <1>2, <1>3 DEF IsQuery

\* A reply to report is right, and nothing else is on its way.
LEMMA Replied ==
    ASSUME ServerInv, reply # <<>>
    PROVE  /\ reply = <<reply[1]>> /\ ReplyRight(reply[1]) /\ jobChannel = <<>> /\ active # <<>>
           /\ NoReply
<1>1. active # <<>> /\ jobChannel = <<>> /\ NoReply /\ \E x : reply = <<x>> /\ ReplyRight(x)
    BY DEF ServerInv, Flight, Sent
<1> QED BY <1>1

\* The events stay messages and replies.
LEMMA EventsTyped ==
    ASSUME ServerStep
    PROVE  Sequence(events') /\ \A i \in 1..Len(events') : Documented(events'[i])
<1>0. ServerTyped /\ Sequence(events) /\ \A i \in 1..Len(events) : Documented(events[i])
    BY DEF ServerStep, ServerInv, ServerTyped
<1>1. CASE UNCHANGED events
    BY <1>0, <1>1
<1>2. ASSUME Shorter(events', events)
      PROVE  Sequence(events') /\ \A i \in 1..Len(events') : Documented(events'[i])
    <2>1. \A i \in 1..Len(events') : i + 1 \in 1..Len(events) /\ events'[i] = events[i + 1]
        BY <1>0, <1>2, ShorterIs
    <2> QED BY <1>0, <1>2, <2>1 DEF Shorter
<1>3. ASSUME NEW m, Longer(events', events, m), Documented(m)
      PROVE  Sequence(events') /\ \A i \in 1..Len(events') : Documented(events'[i])
    <2>1. /\ events'[Len(events')] = m
          /\ \A i \in 1..Len(events) : events'[i] = events[i]
          /\ \A i \in 1..Len(events') : i = Len(events') \/ i \in 1..Len(events)
        BY <1>0, <1>3, LongerIs
    <2>2. ASSUME NEW i \in 1..Len(events') PROVE Documented(events'[i])
        BY <1>0, <1>3, <2>1
    <2> QED BY <1>3, <2>2 DEF Longer
<1>4. CASE Editor
    BY <1>0, <1>3, <1>4, EditorSends DEF Sends
<1>5. CASE Handling
    BY <1>0, <1>2, <1>5, HandlingTakes DEF Takes
<1>6. CASE Completing
    BY <1>0, <1>2, <1>6, CompletingTakes DEF Takes
<1>7. CASE Report
    <2>1. reply # <<>> /\ Longer(events', events, reply[1])
        BY <1>0, <1>7, ReportAdds
    <2>2. Documented(reply[1])
        BY <2>1, Replied DEF ServerStep, ReplyRight, Documented
    <2> QED BY <1>3, <2>1, <2>2
<1>8. CASE EndTurn \/ Transact \/ Stop \/ UNCHANGED serverVars
    <2>1. UNCHANGED events
        BY <1>8 DEF EndTurn, Transact, Stop, serverVars, channels
    <2> QED BY <1>1, <2>1
<1> QED BY <1>4, <1>5, <1>6, <1>7, <1>8, ServerCases

\* The queue stays one of jobs.
LEMMA QueuesTyped ==
    ASSUME ServerStep
    PROVE  serverPending' \in Seq(Jobs) /\ active' \in Seq(Jobs) /\ Len(active') <= 1
<1> DEFINE Goal == serverPending' \in Seq(Jobs) /\ active' \in Seq(Jobs) /\ Len(active') <= 1
<1>0. /\ ServerTyped /\ serverPending \in Seq(Jobs) /\ active \in Seq(Jobs) /\ Len(active) <= 1
      /\ <<>> \in Seq(Jobs) /\ Len(<<>>) = 0
    BY DEF ServerStep, ServerInv, ServerTyped
<1>1. CASE DidOpen \/ DidChange
    <2>1. PICK job \in Updates : serverPending' = QueueJob(serverPending, job) /\ active' = active
        BY <1>0, <1>1, Editing
    <2>2. job \in Jobs
        BY DEF Jobs
    <2> QED BY <1>0, <2>1, <2>2, QueueJobTyped
<1>2. CASE DidClose
    <2>1. PICK job \in Closes : serverPending' = Append(serverPending, job) /\ active' = active
        BY <1>0, <1>2, ClosesDocument
    <2>2. job \in Jobs
        BY DEF Jobs
    <2> QED BY <1>0, <2>1, <2>2, AppendIs
<1>3. CASE WorkspaceChanged
    <2>1. PICK job \in Workspaces, q \in Seq(Jobs) : serverPending' = Append(q, job) /\ active' = active
        BY <1>0, <1>3, Reworking
    <2>2. job \in Jobs
        BY DEF Jobs
    <2> QED BY <1>0, <2>1, <2>2, AppendIs
<1>4. CASE Ask
    <2>1. PICK job \in Queries : serverPending' = Append(serverPending, job) /\ active' = active
        BY <1>0, <1>4, Asks
    <2>2. job \in Jobs
        BY DEF Jobs
    <2> QED BY <1>0, <2>1, <2>2, AppendIs
<1>5. CASE CancelRequest
    <2>1. PICK r \in Requests : /\ serverPending' = Withdraw(serverPending, r)
                                /\ active' = MarkCancelled(active, {r})
        BY <1>0, <1>5, Cancels
    <2>2. Withdraw(serverPending, r) \in Seq(Jobs)
        <3>1. PICK f \in [0..Len(serverPending) -> Seq(Jobs)] :
                    Withdraw(serverPending, r) = f[Len(serverPending)]
            BY <1>0, WithdrawSteps
        <3>2. Len(serverPending) \in 0..Len(serverPending)
            BY <1>0
        <3> QED BY <3>1, <3>2
    <2> QED BY <1>0, <2>1, <2>2, Marked DEF MarkedAs
<1>6. CASE Shutdown
    <2>1. serverPending' = <<>> /\ active' = MarkCancelled(active, Requests)
        BY <1>6 DEF Shutdown
    <2> QED BY <1>0, <2>1, Marked DEF MarkedAs
<1>7. CASE Completing
    <2>1. active' = <<>> /\ serverPending' = serverPending
        BY <1>0, <1>7, CompletingTakes
    <2> QED BY <1>0, <2>1
<1>8. CASE EndTurn
    <2>1. CASE UNCHANGED <<serverPending, active>>
        BY <1>0, <2>1
    <2>2. CASE serverPending # <<>> /\ active' = <<Head(serverPending)>> /\ serverPending' = Tail(serverPending)
        <3>1. Tail(serverPending) \in Seq(Jobs) /\ Head(serverPending) \in Jobs
            BY <1>0, <2>2
        <3> QED BY <2>2, <3>1
    <2> QED BY <1>8, <2>1, <2>2 DEF EndTurn
<1>9. CASE \/ Editor \/ AskNothing \/ AskStale \/ AskTooLate \/ Ignore \/ Exit("exit") \/ Exit("end")
           \/ Transact \/ Report \/ Stop \/ UNCHANGED serverVars
    <2>1. CASE Editor
        BY <1>0, <2>1, EditorSends DEF Sends, scheduler
    <2>2. CASE \/ AskNothing \/ AskStale \/ AskTooLate \/ Ignore \/ Exit("exit") \/ Exit("end")
               \/ Transact \/ Report \/ Stop \/ UNCHANGED serverVars
        <3>1. UNCHANGED <<serverPending, active>>
            BY <2>2 DEF AskNothing, AskStale, AskTooLate, Ignore, Exit, Transact, Report, Stop,
                        serverVars, scheduler
        <3> QED BY <1>0, <3>1
    <2> QED BY <1>9, <2>1, <2>2
<1> QED BY <1>1, <1>2, <1>3, <1>4, <1>5, <1>6, <1>7, <1>8, <1>9, ServerCases DEF Handling

\* The documents stay maps.
LEMMA DocumentsTyped ==
    ASSUME ServerStep
    PROVE  /\ documents' \in Maps /\ buffers' \in Maps /\ sources' \subseteq Uris
           /\ generation' \in Nat /\ current' \in Nat
<1>0. /\ ServerTyped /\ documents \in Maps /\ buffers \in Maps /\ sources \subseteq Uris
      /\ generation \in Nat /\ current \in Nat
    BY DEF ServerStep, ServerInv, ServerTyped
<1>1. CASE Transact
    <2> DEFINE request == jobChannel[1].job
    <2>1. jobChannel # <<>> /\ buffers' = Apply(buffers, request)
          /\ (sources' \in SUBSET Uris \/ sources' = sources)
          /\ (current' = current + 1 \/ current' = current)
          /\ UNCHANGED <<documents, generation>>
        BY <1>1 DEF Transact, scheduler
    <2>2. request \in Jobs
        BY <2>1, Worked DEF ServerStep
    <2>3. Apply(buffers, request) \in Maps
        BY <1>0, <2>2, ApplyIs
    <2> QED BY <1>0, <2>1, <2>3
<1>2. CASE DidOpen \/ DidChange
    <2>1. UNCHANGED analyzer
        BY <1>0, <1>2, HandlingTakes DEF Handling
    <2>2. PICK job \in Updates :
             /\ documents' = With(documents, job.uri, [version |-> job.version, text |-> job.text])
             /\ generation' = generation + 1
        BY <1>0, <1>2, Editing
    <2>3. job.uri \in Uris /\ [version |-> job.version, text |-> job.text] \in Entries
        BY DEF Updates, Entries
    <2>4. documents' \in Maps
        BY <1>0, <2>2, <2>3, WithIs
    <2> QED BY <1>0, <2>1, <2>2, <2>4 DEF analyzer
<1>3. CASE DidClose
    <2>1. UNCHANGED analyzer
        BY <1>0, <1>3, HandlingTakes DEF Handling
    <2>2. PICK job \in Closes :
             /\ documents' = Restrict(documents, DOMAIN documents \ {job.uri})
             /\ generation' = generation + 1
        BY <1>0, <1>3, ClosesDocument
    <2>3. documents' \in Maps
        <3> DEFINE u == job.uri
        <3>1. Restrict(documents, DOMAIN documents \ {u}) \in Maps
            BY <1>0, WithoutIs
        <3> QED BY <2>2, <3>1
    <2> QED BY <1>0, <2>1, <2>2, <2>3 DEF analyzer
<1>4. CASE WorkspaceChanged
    <2>1. UNCHANGED analyzer
        BY <1>0, <1>4, HandlingTakes DEF Handling
    <2>2. UNCHANGED documents /\ generation' = generation + 1
        BY <1>4 DEF WorkspaceChanged
    <2> QED BY <1>0, <2>1, <2>2 DEF analyzer
<1>5. CASE \/ AskNothing \/ AskStale \/ Ask \/ AskTooLate \/ CancelRequest \/ Shutdown \/ Ignore
           \/ Exit("exit") \/ Exit("end")
    <2>1. UNCHANGED analyzer
        BY <1>0, <1>5, HandlingTakes DEF Handling
    <2>2. UNCHANGED <<documents, generation>>
        BY <1>5 DEF AskNothing, AskStale, Ask, AskTooLate, CancelRequest, Shutdown, Ignore, Exit,
                    scheduler
    <2> QED BY <1>0, <2>1, <2>2 DEF analyzer
<1>6. CASE Editor
    BY <1>0, <1>6, EditorSends DEF Sends, scheduler, analyzer
<1>7. CASE Completing
    BY <1>0, <1>7, CompletingTakes DEF analyzer
<1>8. CASE EndTurn \/ Report \/ Stop \/ UNCHANGED serverVars
    <2>1. UNCHANGED <<documents, generation, buffers, sources, current>>
        BY <1>8 DEF EndTurn, Report, Stop, serverVars, scheduler, analyzer
    <2> QED BY <1>0, <2>1
<1> QED BY <1>1, <1>2, <1>3, <1>4, <1>5, <1>6, <1>7, <1>8, ServerCases DEF Handling

\* What the editor is shown and answered keeps its type.
LEMMA ReportsTyped ==
    ASSUME ServerStep
    PROVE  /\ DOMAIN shown' = Uris /\ shown' = [u \in Uris |-> shown'[u]]
           /\ answers' \in [Requests -> Seq(Answers)]
<1>0. /\ ServerTyped /\ DOMAIN shown = Uris /\ shown = [u \in Uris |-> shown[u]]
      /\ answers \in [Requests -> Seq(Answers)]
    BY DEF ServerStep, ServerInv, ServerTyped
<1>1. ASSUME NEW r \in Requests, NEW a \in Answers, answers' = [answers EXCEPT ![r] = Append(@, a)]
      PROVE  answers' \in [Requests -> Seq(Answers)]
    <2>1. answers[r] \in Seq(Answers)
        BY <1>0
    <2>2. Append(answers[r], a) \in Seq(Answers)
        BY <2>1
    <2> QED BY <1>0, <1>1, <2>2
<1>2. CASE AskNothing \/ AskStale \/ AskTooLate
    <2>1. Takes
        BY <1>0, <1>2, HandlingTakes DEF Handling
    <2>2. Head(events).id \in Requests
        BY <1>2, <2>1 DEF Takes, Documented, AskNothing, AskStale, AskTooLate, Serve, Handle
    <2>3. /\ UNCHANGED shown
          /\ \E a \in Answers : answers' = [answers EXCEPT ![Head(events).id] = Append(@, a)]
        BY <1>2 DEF AskNothing, AskStale, AskTooLate, Settle, Answers
    <2> QED BY <1>0, <1>1, <2>2, <2>3
<1>3. CASE CancelRequest
    <2>1. PICK r \in Requests :
              /\ answers' = IF Asking(r, serverPending \o active) = {} THEN answers
                            ELSE [answers EXCEPT ![r] = Append(@, "cancelled")]
              /\ UNCHANGED shown
        BY <1>0, <1>3, Cancels
    <2> QED BY <1>0, <1>1, <2>1 DEF Answers
<1>4. CASE Shutdown
    <2>1. UNCHANGED shown /\ answers' = [r \in Requests |->
          IF Asking(r, serverPending \o active) = {} THEN answers[r]
          ELSE Append(answers[r], "closing")]
        BY <1>4 DEF Shutdown
    <2>2. ASSUME NEW r \in Requests PROVE Append(answers[r], "closing") \in Seq(Answers)
        <3>1. answers[r] \in Seq(Answers)
            BY <1>0
        <3>2. "closing" \in Answers
            BY DEF Answers
        <3> QED BY <3>1, <3>2
    <2> QED BY <1>0, <2>1, <2>2
<1>5. CASE DidClose
    <2>1. PICK job \in Closes : shown' = [shown EXCEPT ![job.uri] = NoView] /\ answers' = answers
        BY <1>0, <1>5, ClosesDocument
    <2> QED BY <1>0, <2>1
<1>6. CASE CompleteUpdate
    <2>1. UNCHANGED answers /\ (shown' = shown \/ PublishView(Result.view))
        BY <1>6 DEF CompleteUpdate
    <2>2. CASE PublishView(Result.view)
        BY <1>0, <2>1, <2>2 DEF PublishView
    <2> QED BY <1>0, <2>1, <2>2
<1>7. CASE CompleteQuery
    <2>1. active # <<>> /\ IsQuery(Job) /\ UNCHANGED shown
          /\ \/ UNCHANGED answers
             \/ \E a \in Answers : answers' = [answers EXCEPT ![Job.id] = Append(@, a)]
        BY <1>7 DEF CompleteQuery, CompleteJob, Settle, Answers
    <2>2. Job.id \in Requests
        <3>1. Job \in Queries
            BY <1>0, <2>1, ActiveJob, JobKinds DEF Job, IsQuery
        <3> QED BY <3>1 DEF Queries
    <2> QED BY <1>0, <1>1, <2>1, <2>2
<1>8. CASE Editor
    BY <1>0, <1>8, EditorSends DEF Sends
<1>9. CASE \/ DidOpen \/ DidChange \/ WorkspaceChanged \/ Ask \/ Ignore \/ Exit("exit") \/ Exit("end")
           \/ CompleteStopped \/ EndTurn \/ Transact \/ Report \/ Stop \/ UNCHANGED serverVars
    <2>1. UNCHANGED <<shown, answers>>
        BY <1>9 DEF DidOpen, DidChange, EditDocument, WorkspaceChanged, Ask, Ignore, Exit,
                    CompleteStopped, EndTurn, Transact, Report, Stop, serverVars
    <2> QED BY <1>0, <2>1
<1> QED BY <1>2, <1>3, <1>4, <1>5, <1>6, <1>7, <1>8, <1>9, ServerCases DEF Handling, Completing

\* Every step keeps the types.
LEMMA TypedStep ==
    ASSUME ServerStep
    PROVE  ServerTyped'
<1>1. /\ editor' = [u \in DOMAIN editor' |-> editor'[u]]
      /\ \A u \in DOMAIN editor' : editor'[u] \in DocVersions
    <2>0. /\ ServerTyped /\ editor = [u \in DOMAIN editor |-> editor[u]]
          /\ \A u \in DOMAIN editor : editor[u] \in DocVersions
        BY DEF ServerStep, ServerInv, ServerTyped
    <2>1. ASSUME NEW u \in Uris, SendOpen(u) PROVE <1>1!1 /\ <1>1!2
        BY <2>0, <2>1 DEF SendOpen, With, DocVersions
    <2>2. ASSUME NEW u \in Uris, SendChange(u) PROVE <1>1!1 /\ <1>1!2
        <3>1. PICK version \in {editor[u], editor[u] + 1} : editor' = [editor EXCEPT ![u] = version]
            BY <2>2 DEF SendChange
        <3>2. version \in DocVersions
            <4>1. editor[u] \in DocVersions
                BY <2>0, <2>2 DEF SendChange
            <4> QED BY <4>1 DEF DocVersions
        <3> QED BY <2>0, <3>1, <3>2
    <2>3. ASSUME NEW u \in Uris, SendClose(u) PROVE <1>1!1 /\ <1>1!2
        BY <2>0, <2>3 DEF SendClose, Restrict
    <2>4. ASSUME UNCHANGED editor PROVE <1>1!1 /\ <1>1!2
        BY <2>0, <2>4
    <2>5. CASE Editor
        BY <2>1, <2>2, <2>3, <2>4, <2>5 DEF Editor, SendQuery, SendCancel, SendOther
    <2>6. CASE Handling
        BY <2>0, <2>4, <2>6, HandlingTakes DEF sending
    <2>7. CASE Completing
        BY <2>0, <2>4, <2>7, CompletingTakes DEF sending
    <2>8. CASE EndTurn \/ Transact \/ Report \/ Stop \/ UNCHANGED serverVars
        BY <2>4, <2>8 DEF EndTurn, Transact, Report, Stop, serverVars, sending
    <2> QED BY <2>5, <2>6, <2>7, <2>8, ServerCases
<1> QED BY <1>1, EventsTyped, QueuesTyped, DocumentsTyped, ReportsTyped DEF ServerTyped

-----------------------------------------------------------------------------
(* Where the active job is.                                                *)

\* Without a reply in them, the events get none from a message.
LEMMA NoReplyStays ==
    ASSUME ServerTyped, NoReply,
           \/ Shorter(events', events)
           \/ \E m : Longer(events', events, m) /\ m.is # "reply"
           \/ UNCHANGED events
    PROVE  NoReply'
<1>0. Sequence(events)
    BY DEF ServerTyped
<1>1. CASE Shorter(events', events)
    BY <1>0, <1>1, ShorterIs DEF NoReply
<1>2. ASSUME NEW m, Longer(events', events, m), m.is # "reply" PROVE NoReply'
    <2>1. \A i \in 1..Len(events') : i = Len(events') \/ (i \in 1..Len(events) /\ events'[i] = events[i])
        BY <1>0, <1>2, LongerIs
    <2>2. events'[Len(events')] = m
        BY <1>0, <1>2, LongerIs
    <2> QED BY <1>2, <2>1, <2>2 DEF NoReply
<1> QED BY <1>1, <1>2 DEF NoReply

\* The one reply stays until it is taken.
LEMMA OneReplyStays ==
    ASSUME ServerTyped, OneReply, UNCHANGED analyzer,
           \/ Shorter(events', events) /\ events[1].is # "reply"
           \/ \E m : Longer(events', events, m) /\ m.is # "reply"
           \/ UNCHANGED events
    PROVE  OneReply'
<1>0. Sequence(events) /\ UNCHANGED <<buffers, sources, current>>
    BY DEF ServerTyped, analyzer
<1>1. PICK i \in 1..Len(events) :
        /\ ReplyRight(events[i])
        /\ \A k \in 1..Len(events) : events[k].is = "reply" => k = i
    BY DEF OneReply
<1>2. ASSUME NEW x, ReplyRight(x)
      PROVE  x.is = "reply" /\ x.revision = current' /\ x.view = View(buffers', sources')
    <2>1. View(buffers', sources') = View(buffers, sources) /\ current' = current
        BY <1>0
    <2> QED BY <1>2, <2>1 DEF ReplyRight
<1>3. CASE Shorter(events', events) /\ events[1].is # "reply"
    <2>0. Sequence(events) /\ Shorter(events', events)
        BY <1>0, <1>3
    <2>1. /\ 1 \in 1..Len(events)
          /\ \A k \in 1..Len(events') : k + 1 \in 1..Len(events) /\ events'[k] = events[k + 1]
          /\ \A k \in 1..Len(events) : k = 1 \/ (k - 1 \in 1..Len(events') /\ events'[k - 1] = events[k])
        BY <2>0, ShorterIs, ZenonT(30)
    <2>2. i # 1
        BY <1>1, <1>3 DEF ReplyRight
    <2>3. i - 1 \in 1..Len(events') /\ events'[i - 1] = events[i]
        BY <2>1, <2>2
    <2>4. ASSUME NEW k \in 1..Len(events'), events'[k].is = "reply" PROVE k = i - 1
        <3>1. k + 1 = i
            <4>1. k + 1 \in 1..Len(events) /\ events[k + 1].is = "reply"
                BY <2>1, <2>4
            <4> QED BY <1>1, <4>1
        <3> QED BY <3>1
    <2> QED BY <1>1, <1>2, <2>3, <2>4 DEF OneReply, ReplyRight
<1>4. ASSUME NEW m, Longer(events', events, m), m.is # "reply" PROVE OneReply'
    <2>1. /\ events'[Len(events')] = m
          /\ \A k \in 1..Len(events) : k \in 1..Len(events') /\ events'[k] = events[k]
          /\ \A k \in 1..Len(events') : k = Len(events') \/ k \in 1..Len(events)
        BY <1>0, <1>4, LongerIs
    <2>2. ASSUME NEW k \in 1..Len(events'), events'[k].is = "reply" PROVE k = i
        BY <1>1, <1>4, <2>1, <2>2
    <2>3. i \in 1..Len(events') /\ events'[i] = events[i]
        BY <2>1
    <2> QED BY <1>1, <1>2, <2>2, <2>3 DEF OneReply, ReplyRight
<1>5. CASE UNCHANGED events
    BY <1>0, <1>5 DEF OneReply, ReplyRight
<1> QED BY <1>3, <1>4, <1>5

\* The mark of a cancelled query is all that changes of the active job.
SameActive ==
    /\ active = <<>> <=> active' = <<>>
    /\ active # <<>> =>
         /\ active'[1].method = active[1].method /\ active'[1].generation = active[1].generation
         /\ active[1].method = "query" =>
              /\ active'[1].kind = active[1].kind /\ active'[1].uri = active[1].uri
              /\ active'[1].id = active[1].id

\* The mark is all that a cancellation changes of the active job.
LEMMA MarkedActive ==
    ASSUME ServerTyped, NEW ids, active' = MarkCancelled(active, ids)
    PROVE  /\ SameActive
           /\ active # <<>> /\ active[1].method = "query" =>
                active'[1].cancelled = IF active[1].id \in ids THEN TRUE ELSE active[1].cancelled
<1>1. active \in Seq(Jobs)
    BY DEF ServerTyped
<1>2. CASE active # <<>>
    <2>1. Len(active) = 1
        BY <1>2, ActiveJob
    <2>2. 1 \in 1..Len(active)
        BY <2>1
    <2> DEFINE Q == MarkCancelled(active, ids)
    <2>0. MarkedAs(Q, active, ids)
        BY <1>1, Marked
    <2>4. active' = Q
        OBVIOUS
    <2> HIDE DEF Q
    <2>3. /\ Q \in Seq(Jobs) /\ Len(Q) = 1 /\ Q[1].method = active[1].method /\ Q[1].generation = active[1].generation
          /\ active[1].method = "query" =>
                /\ Q[1].id = active[1].id /\ Q[1].kind = active[1].kind /\ Q[1].uri = active[1].uri
                /\ Q[1].cancelled = IF active[1].id \in ids THEN TRUE ELSE active[1].cancelled
        BY <2>0, <2>1, <2>2 DEF MarkedAs
    <2>5. active' # <<>>
        <3>1. Q \in Seq(Jobs) /\ Len(Q) = 1
            BY <2>0, <2>1 DEF MarkedAs
        <3>2. Q # <<>>
            BY <3>1
        <3> QED BY <2>4, <3>2
    <2> QED BY <1>2, <2>3, <2>4, <2>5 DEF SameActive
<1>3. CASE active = <<>>
    <2>1. Len(active) = 0 /\ active' \in Seq(Jobs) /\ Len(active') = Len(active)
        BY <1>1, <1>3, Marked DEF MarkedAs
    <2>2. active' = <<>>
        BY <2>1
    <2> QED BY <1>3, <2>2 DEF SameActive
<1> QED BY <1>2, <1>3

\* No message changes which job is active.
LEMMA HandlingActive ==
    ASSUME ServerTyped, Handling
    PROVE  SameActive
<1>1. CASE CancelRequest
    BY <1>1, MarkedActive DEF CancelRequest
<1>2. CASE Shutdown
    BY <1>2, MarkedActive DEF Shutdown
<1>3. CASE \/ DidOpen \/ DidChange \/ DidClose \/ WorkspaceChanged \/ AskNothing \/ AskStale
           \/ Ask \/ AskTooLate
           \/ Ignore \/ Exit("exit") \/ Exit("end")
    <2>1. UNCHANGED active
        BY <1>3 DEF DidOpen, DidChange, EditDocument, DidClose, WorkspaceChanged, AskNothing,
                    AskStale, Ask, AskTooLate, Ignore, Exit, scheduler
    <2> QED BY <2>1 DEF SameActive
<1> QED BY <1>1, <1>2, <1>3 DEF Handling

\* What leaves the worker alone leaves the active job where it is.
LEMMA FlightFrame ==
    ASSUME ServerTyped, Flight, SameActive, UNCHANGED <<revision, jobChannel, reply, analyzer>>,
           NoReply => NoReply', OneReply => OneReply'
    PROVE  Flight'
<1>0. UNCHANGED <<buffers, sources, current>>
    BY DEF analyzer
<1>1. CASE active = <<>>
    BY <1>0, <1>1 DEF Flight, Sent, SameActive
<1>2. CASE active # <<>>
    <2>1. CASE reply = <<>> /\ NoReply /\ Sending
        <3>1. PICK job \in Jobs :
                /\ jobChannel = <<[job |-> job, revision |-> current]>>
                /\ job.method = active[1].method /\ revision = current
                /\ job.method = "query" => job.kind = active[1].kind /\ job.uri = active[1].uri
                /\ job.method = "query" /\ job.kind \in Positional =>
                      job.uri \in DOMAIN buffers /\ buffers[job.uri].text = job.text
            BY <2>1 DEF Sending
        <3>2. Sending'
            BY <1>0, <1>2, <3>1 DEF Sending, SameActive
        <3> QED BY <1>2, <2>1, <3>2 DEF Flight, SameActive
    <2>2. CASE jobChannel = <<>> /\ NoReply /\ \E x : reply = <<x>> /\ ReplyRight(x)
        BY <1>0, <1>2, <2>2 DEF Flight, SameActive, ReplyRight
    <2>3. CASE Sent /\ OneReply
        BY <1>0, <1>2, <2>3 DEF Flight, Sent, SameActive
    <2> QED BY <1>2, <2>1, <2>2, <2>3 DEF Flight
<1> QED BY <1>1, <1>2

\* The reply that is taken was the only one, and right.
LEMMA CompletingFlight ==
    ASSUME ServerInv, Completing
    PROVE  /\ Sent /\ ReplyRight(events[1]) /\ NoReply' /\ UNCHANGED <<jobChannel, reply, analyzer>>
           /\ revision' = current /\ active # <<>> /\ active' = <<>>
<1>0. /\ ServerTyped /\ Sequence(events) /\ Flight /\ Takes /\ events[1].is = "reply"
      /\ active # <<>> /\ active' = <<>> /\ revision' = events[1].revision
      /\ UNCHANGED <<jobChannel, reply, analyzer>>
    BY CompletingTakes DEF ServerInv, ServerTyped
<1>1. Shorter(events', events)
    BY <1>0 DEF Takes
<1>2. /\ 1 \in 1..Len(events)
      /\ \A k \in 1..Len(events') : k + 1 \in 1..Len(events) /\ events'[k] = events[k + 1]
    BY <1>0, <1>1, ShorterIs
<1>3. ~NoReply
    BY <1>0, <1>2 DEF NoReply
<1>4. Sent /\ OneReply
    BY <1>0, <1>3 DEF Flight
<1>5. PICK i \in 1..Len(events) :
        /\ ReplyRight(events[i])
        /\ \A k \in 1..Len(events) : events[k].is = "reply" => k = i
    BY <1>4 DEF OneReply
<1>6. i = 1
    BY <1>0, <1>2, <1>5
<1>7. ASSUME NEW k \in 1..Len(events') PROVE events'[k].is # "reply"
    <2>1. k + 1 \in 1..Len(events) /\ events'[k] = events[k + 1] /\ k + 1 # 1
        BY <1>2
    <2> QED BY <1>5, <1>6, <2>1
<1>8. events[1].revision = current
    BY <1>5, <1>6 DEF ReplyRight
<1> QED BY <1>0, <1>4, <1>5, <1>6, <1>7, <1>8 DEF NoReply

\* A job leaves the queue for the worker.
Dispatching ==
    /\ active = <<>> /\ ~shutdown /\ serverPending # <<>>
    /\ active' = <<Head(serverPending)>> /\ serverPending' = Tail(serverPending)
    /\ jobChannel' = Append(jobChannel, [job |-> Head(serverPending), revision |-> revision])
Waiting == UNCHANGED <<serverPending, active, jobChannel>>

\* A turn ends with a job dispatched or without.
LEMMA Ends ==
    ASSUME EndTurn
    PROVE  /\ Dispatching \/ Waiting
           /\ UNCHANGED <<documents, generation, revision, published, shutdown, phase, events, reply,
                          analyzer, sending, shown, answers>>
  BY DEF EndTurn, Dispatching, Waiting

\* A queue without its head.
LEMMA HeadIs ==
    ASSUME NEW q \in Seq(Jobs), q # <<>>
    PROVE  /\ Head(q) \in Jobs /\ Head(q) = q[1] /\ 1 \in 1..Len(q) /\ Tail(q) \in Seq(Jobs)
           /\ Len(Tail(q)) = Len(q) - 1
           /\ \A i \in 1..Len(Tail(q)) : i + 1 \in 1..Len(q) /\ Tail(q)[i] = q[i + 1]
           /\ \A i \in 1..Len(q) : i = 1 \/ (i - 1 \in 1..Len(Tail(q)) /\ Tail(q)[i - 1] = q[i])
<1>1. Len(q) \in Nat \ {0}
    OBVIOUS
<1>2. /\ Head(q) \in Jobs /\ Head(q) = q[1] /\ 1 \in 1..Len(q) /\ Tail(q) \in Seq(Jobs)
      /\ Len(Tail(q)) = Len(q) - 1
      /\ \A i \in 1..Len(Tail(q)) : i + 1 \in 1..Len(q) /\ Tail(q)[i] = q[i + 1]
    BY <1>1
<1>3. ASSUME NEW i \in 1..Len(q), i # 1 PROVE i - 1 \in 1..Len(Tail(q)) /\ Tail(q)[i - 1] = q[i]
    <2>1. i - 1 \in 1..Len(Tail(q)) /\ (i - 1) + 1 = i
        BY <1>1, <1>2, <1>3
    <2> QED BY <1>2, <2>1
<1> QED BY <1>2, <1>3

\* Every step leaves the active job in one place.
LEMMA FlightStep ==
    ASSUME ServerStep
    PROVE  Flight'
<1>0. ServerInv /\ ServerTyped /\ Flight /\ Chained /\ buffers \in Maps /\ serverPending \in Seq(Jobs)
    BY DEF ServerStep, ServerInv, ServerTyped
<1>1. CASE Editor
    <2>1. Sends
        BY <1>0, <1>1, EditorSends
    <2>2. UNCHANGED <<revision, jobChannel, reply, analyzer, active>>
        BY <2>1 DEF Sends, scheduler
    <2>3. (NoReply => NoReply') /\ (OneReply => OneReply')
        BY <1>0, <2>1, <2>2, NoReplyStays, OneReplyStays DEF Sends
    <2>4. SameActive
        BY <2>2 DEF SameActive
    <2> QED BY <1>0, <2>2, <2>3, <2>4, FlightFrame
<1>2. CASE Handling
    <2>1. Takes /\ events[1].is # "reply" /\ UNCHANGED <<revision, jobChannel, reply, analyzer>>
        BY <1>0, <1>2, HandlingTakes
    <2>2. (NoReply => NoReply') /\ (OneReply => OneReply')
        BY <1>0, <2>1, NoReplyStays, OneReplyStays DEF Takes
    <2> QED BY <1>0, <1>2, <2>1, <2>2, HandlingActive, FlightFrame
<1>3. CASE Completing
    <2>1. /\ Sent /\ NoReply' /\ UNCHANGED <<jobChannel, reply, analyzer>>
          /\ revision' = current /\ active' = <<>>
        BY <1>0, <1>3, CompletingFlight
    <2> QED BY <2>1 DEF Flight, Sent, analyzer
<1>4. CASE EndTurn
    <2>1. /\ Dispatching \/ Waiting
          /\ UNCHANGED <<revision, events, reply, analyzer, documents>>
        BY <1>4, Ends
    <2>2. CASE Waiting
        <3>1. SameActive /\ (NoReply => NoReply') /\ (OneReply => OneReply')
            BY <1>0, <2>1, <2>2, OneReplyStays, NoReplyStays DEF Waiting, SameActive
        <3> QED BY <1>0, <2>1, <2>2, <3>1, FlightFrame DEF Waiting
    <2>3. CASE Dispatching
        <3> DEFINE job == Head(serverPending)
        <3>1. jobChannel = <<>> /\ reply = <<>> /\ NoReply /\ revision = current
            BY <1>0, <2>3 DEF Flight, Sent, Dispatching
        <3>2. /\ ~shutdown /\ serverPending # <<>> /\ active' = <<job>>
              /\ jobChannel' = <<[job |-> job, revision |-> current]>>
            BY <2>3, <3>1 DEF Dispatching
        <3>3. job \in Jobs
            BY <1>0, <3>2, HeadIs
        <3>4. ASSUME job.method = "query", job.kind \in Positional
              PROVE  job.uri \in DOMAIN buffers /\ buffers[job.uri].text = job.text
            <4> DEFINE u == job.uri
            <4>1. u \in Uris
                BY <3>3, <3>4, JobKinds DEF Queries
            <4>2. Leads(serverPending, u, At(buffers, u), At(documents, u))
                BY <1>0, <3>1, <3>2, <4>1 DEF Chained, Base
            <4>3. PICK c \in States : Move(At(buffers, u), c, job, u)
                BY <1>0, <3>2, <4>2, LeadsTail
            <4>4. At(buffers, u) # Gone /\ At(buffers, u).text = job.text
                BY <3>4, <4>3 DEF Move
            <4> QED BY <1>0, <4>4, HeldIs
        <3> HIDE DEF job
        <3>5. active'[1] = job /\ active' # <<>>
            BY <3>2
        <3>6. Sending'
            BY <2>1, <3>1, <3>2, <3>3, <3>4, <3>5 DEF Sending, analyzer
        <3>7. NoReply' /\ reply' = <<>>
            BY <2>1, <3>1 DEF NoReply
        <3> QED BY <3>5, <3>6, <3>7 DEF Flight
    <2> QED BY <2>1, <2>2, <2>3
<1>5. CASE Transact
    <2> DEFINE x == [is |-> "reply", revision |-> current', view |-> View(buffers', sources')]
    <2>1. jobChannel # <<>> /\ UNCHANGED <<active, events, revision>> /\ jobChannel' = Tail(jobChannel)
        BY <1>5 DEF Transact, scheduler
    <2>2. /\ jobChannel[1].revision = current /\ active # <<>> /\ NoReply
          /\ jobChannel = <<jobChannel[1]>>
        BY <1>0, <2>1, Worked
    <2>3. jobChannel' = <<>>
        BY <2>1, <2>2
    <2>4. reply' = <<x>>
        BY <1>5, <2>2 DEF Transact
    <2>6. NoReply'
        BY <2>1, <2>2 DEF NoReply
    <2>7. \E y : reply' = <<y>> /\ y.is = "reply" /\ y.revision = current' /\ y.view = View(buffers', sources')
        BY <2>4
    <2> QED BY <2>1, <2>2, <2>3, <2>6, <2>7 DEF Flight, ReplyRight
<1>6. CASE Report
    <2>1. /\ reply # <<>> /\ Longer(events', events, reply[1]) /\ reply' = <<>>
          /\ UNCHANGED <<active, jobChannel, buffers, sources, current>>
        BY <1>0, <1>6, ReportAdds DEF scheduler, analyzer
    <2>2. ReplyRight(reply[1]) /\ jobChannel = <<>> /\ active # <<>> /\ NoReply
        BY <1>0, <2>1, Replied
    <2>3. /\ Len(events') \in 1..Len(events') /\ events'[Len(events')] = reply[1]
          /\ \A i \in 1..Len(events') : i = Len(events') \/ (i \in 1..Len(events) /\ events'[i] = events[i])
        BY <1>0, <2>1, LongerIs DEF ServerTyped
    <2>4. ASSUME NEW k \in 1..Len(events'), events'[k].is = "reply" PROVE k = Len(events')
        BY <2>2, <2>3, <2>4 DEF NoReply
    <2>6. OneReply'
        BY <2>1, <2>2, <2>3, <2>4 DEF OneReply, ReplyRight
    <2> QED BY <2>1, <2>2, <2>6 DEF Flight, Sent
<1>7. CASE Stop \/ UNCHANGED serverVars
    <2>1. UNCHANGED <<active, revision, jobChannel, reply, analyzer, events>>
        BY <1>7 DEF Stop, serverVars, scheduler, channels
    <2>2. SameActive /\ (NoReply => NoReply') /\ (OneReply => OneReply')
        BY <1>0, <2>1, OneReplyStays, NoReplyStays DEF SameActive
    <2> QED BY <1>0, <2>1, <2>2, FlightFrame
<1> QED BY <1>1, <1>2, <1>3, <1>4, <1>5, <1>6, <1>7, ServerCases

-----------------------------------------------------------------------------
(* The queue leads from the analyzer to the server.                        *)

\* Append adds a job.
LEMMA Extends ==
    ASSUME NEW q \in Seq(Jobs), NEW job \in Jobs
    PROVE  Added(Append(q, job), q, job)
  BY AppendIs DEF Added

\* What leaves the queue, the documents and the buffers alone.
LEMMA ChainedFrame ==
    ASSUME Chained, UNCHANGED <<shutdown, serverPending, jobChannel, buffers, documents>>
    PROVE  Chained'
  BY DEF Chained, Base

\* After every step, the queue leads from the buffers to the documents.
LEMMA ChainedStep ==
    ASSUME ServerStep
    PROVE  Chained'
<1>0. /\ ServerInv /\ ServerTyped /\ Chained /\ serverPending \in Seq(Jobs)
      /\ buffers \in Maps /\ documents \in Maps
    BY DEF ServerStep, ServerInv, ServerTyped
<1>1. ASSUME UNCHANGED <<shutdown, jobChannel, analyzer>>, ~shutdown,
             NEW u \in Uris, Leads(serverPending', u, At(Base, u), At(documents', u))
      PROVE  Leads(serverPending', u, At(Base', u), At(documents', u))
    <2>1. Base' = Base
        BY <1>1 DEF Base, analyzer
    <2> QED BY <1>1, <2>1
<1>2. CASE DidOpen \/ DidChange
    <2>1. UNCHANGED <<jobChannel, analyzer>>
        BY <1>0, <1>2, HandlingTakes DEF Handling
    <2>2. PICK job \in Updates :
              /\ ~shutdown
              /\ job.open = (At(documents, job.uri) = Gone)
              /\ job.version > At(documents, job.uri).version
              /\ documents' = With(documents, job.uri, [version |-> job.version, text |-> job.text])
              /\ serverPending' = QueueJob(serverPending, job)
              /\ UNCHANGED shutdown
        BY <1>0, <1>2, Editing
    <2> DEFINE e == [version |-> job.version, text |-> job.text]
    <2>3. /\ job \in Jobs /\ job.method = "update" /\ job.uri \in Uris
          /\ e \in Entries /\ e \in States
        BY DEF Jobs, Updates, Entries, States, DocVersions
    <2>4. ASSUME NEW u \in Uris PROVE Leads(serverPending', u, At(Base, u), At(documents', u))
        <3>1. Leads(serverPending, u, At(Base, u), At(documents, u))
            BY <1>0, <2>2 DEF Chained
        <3>2. At(documents', u) = IF u = job.uri THEN e ELSE At(documents, u)
            BY <1>0, <2>2, <2>3, WithIs
        <3>3. Move(At(documents, u), At(documents', u), job, u)
            <4>1. CASE u = job.uri
                BY <2>2, <2>3, <3>2, <4>1 DEF Move
            <4>2. CASE u # job.uri
                BY <2>3, <3>2, <4>2 DEF Move
            <4> QED BY <4>1, <4>2
        <3>4. At(documents', u) \in States
            BY <1>0, <2>3, <3>2, HeldIs
        <3> QED BY <1>0, <2>2, <2>3, <3>1, <3>3, <3>4, LeadsQueueJob
    <2> QED BY <1>1, <2>1, <2>2, <2>4 DEF Chained
<1>3. CASE DidClose
    <2>1. UNCHANGED <<jobChannel, analyzer>>
        BY <1>0, <1>3, HandlingTakes DEF Handling
    <2>2. PICK job \in Closes :
              /\ ~shutdown
              /\ documents' = Restrict(documents, DOMAIN documents \ {job.uri})
              /\ serverPending' = Append(serverPending, job)
              /\ UNCHANGED shutdown
        BY <1>0, <1>3, ClosesDocument
    <2>3. job \in Jobs /\ job.method = "close" /\ Gone \in States
        BY DEF Jobs, Closes, Gone, States
    <2>4. ASSUME NEW u \in Uris PROVE Leads(serverPending', u, At(Base, u), At(documents', u))
        <3>1. Leads(serverPending, u, At(Base, u), At(documents, u))
            BY <1>0, <2>2 DEF Chained
        <3>2. At(documents', u) = IF u = job.uri THEN Gone ELSE At(documents, u)
            <4> DEFINE w == job.uri
            <4>1. documents \in Maps
                BY <1>0
            <4>2. \A v : At(Restrict(documents, DOMAIN documents \ {w}), v)
                            = IF v = w THEN Gone ELSE At(documents, v)
                BY <4>1, WithoutIs
            <4> QED BY <2>2, <4>2
        <3>3. Move(At(documents, u), At(documents', u), job, u)
            BY <2>3, <3>2 DEF Move
        <3>4. At(documents', u) \in States
            BY <1>0, <2>3, <3>2, HeldIs
        <3>5. Added(serverPending', serverPending, job)
            BY <1>0, <2>2, <2>3, Extends
        <3> QED BY <1>0, <3>1, <3>3, <3>4, <3>5, LeadsAdded
    <2> QED BY <1>1, <2>1, <2>2, <2>4 DEF Chained
<1>4. CASE WorkspaceChanged
    <2>1. UNCHANGED <<jobChannel, analyzer>>
        BY <1>0, <1>4, HandlingTakes DEF Handling
    <2>2. PICK job \in Workspaces, q \in Seq(Jobs) :
              /\ ~shutdown /\ serverPending' = Append(q, job)
              /\ \/ q = serverPending
                 \/ /\ q = Front(serverPending) /\ serverPending # <<>>
                    /\ Last(serverPending).method = "workspace"
              /\ UNCHANGED <<documents, shutdown>>
        BY <1>0, <1>4, Reworking
    <2>3. job \in Jobs /\ job.method = "workspace"
        BY DEF Jobs, Workspaces
    <2>4. ASSUME NEW u \in Uris PROVE Leads(serverPending', u, At(Base, u), At(documents', u))
        <3> DEFINE a == At(Base, u)
                   b == At(documents, u)
        <3>1. Leads(serverPending, u, a, b)
            BY <1>0, <2>2 DEF Chained
        <3> HIDE DEF a, b
        <3>2. Leads(q, u, a, b)
            BY <1>0, <2>2, <3>1, LeadsWorkspace
        <3>3. Move(b, b, job, u) /\ b \in States
            BY <1>0, <2>3, <3>1, LeadsTyped DEF Move
        <3>4. Added(serverPending', q, job)
            BY <2>2, <2>3, Extends
        <3>5. Leads(serverPending', u, a, b)
            BY <3>2, <3>3, <3>4, LeadsAdded
        <3> QED BY <2>2, <3>5 DEF a, b
    <2> QED BY <1>1, <2>1, <2>2, <2>4 DEF Chained
<1>5. CASE Ask
    <2>1. UNCHANGED <<jobChannel, analyzer>>
        BY <1>0, <1>5, HandlingTakes DEF Handling
    <2>2. PICK job \in Queries :
              /\ ~shutdown /\ serverPending' = Append(serverPending, job)
              /\ job.kind \in Positional =>
                    job.uri \in DOMAIN documents /\ documents[job.uri].text = job.text
              /\ UNCHANGED <<documents, shutdown>>
        BY <1>0, <1>5, Asks
    <2>3. job \in Jobs /\ job.method = "query"
        BY DEF Jobs, Queries
    <2>4. ASSUME NEW u \in Uris PROVE Leads(serverPending', u, At(Base, u), At(documents', u))
        <3>1. Leads(serverPending, u, At(Base, u), At(documents, u))
            BY <1>0, <2>2 DEF Chained
        <3>2. Move(At(documents, u), At(documents, u), job, u)
            BY <1>0, <2>2, <2>3, HeldIs DEF Move
        <3>3. At(documents, u) \in States
            BY <1>0, HeldIs
        <3>4. Added(serverPending', serverPending, job)
            BY <1>0, <2>2, <2>3, Extends
        <3>5. Leads(serverPending', u, At(Base, u), At(documents, u))
            BY <1>0, <3>1, <3>2, <3>3, <3>4, LeadsAdded
        <3> QED BY <2>2, <3>5
    <2> QED BY <1>1, <2>1, <2>2, <2>4 DEF Chained
<1>6. CASE CancelRequest
    <2>1. UNCHANGED <<jobChannel, analyzer>>
        BY <1>0, <1>6, HandlingTakes DEF Handling
    <2>2. PICK r \in Requests :
              /\ ~shutdown /\ serverPending' = Withdraw(serverPending, r)
              /\ UNCHANGED <<documents, shutdown>>
        BY <1>0, <1>6, Cancels
    <2>3. ASSUME NEW u \in Uris PROVE Leads(serverPending', u, At(Base, u), At(documents', u))
        <3>1. Leads(serverPending, u, At(Base, u), At(documents, u))
            BY <1>0, <2>2 DEF Chained
        <3> QED BY <1>0, <2>2, <3>1, LeadsWithdraw
    <2> QED BY <1>1, <2>1, <2>2, <2>3 DEF Chained
<1>7. CASE Shutdown
    BY <1>7 DEF Shutdown, Chained
<1>8. CASE \/ AskNothing \/ AskStale \/ AskTooLate \/ Ignore \/ Exit("exit") \/ Exit("end")
    <2>1. UNCHANGED <<jobChannel, analyzer>>
        BY <1>0, <1>8, HandlingTakes DEF Handling
    <2>2. UNCHANGED <<shutdown, serverPending, documents>>
        BY <1>8 DEF AskNothing, AskStale, AskTooLate, Ignore, Exit, Serve, scheduler
    <2> QED BY <1>0, <2>1, <2>2, ChainedFrame DEF analyzer
<1>9. CASE Editor
    BY <1>0, <1>9, EditorSends, ChainedFrame DEF Sends, scheduler, analyzer
<1>10. CASE Completing
    BY <1>0, <1>10, CompletingTakes, ChainedFrame DEF analyzer
<1>11. CASE Report \/ Stop \/ UNCHANGED serverVars
    <2>1. UNCHANGED <<shutdown, serverPending, jobChannel, buffers, documents>>
        BY <1>11 DEF Report, Stop, serverVars, scheduler, analyzer, channels
    <2> QED BY <1>0, <2>1, ChainedFrame
<1>12. CASE Transact
    <2>1. jobChannel # <<>> /\ jobChannel' = Tail(jobChannel) /\ UNCHANGED <<shutdown, serverPending, documents>>
          /\ buffers' = Apply(buffers, jobChannel[1].job)
        BY <1>12 DEF Transact, scheduler
    <2>2. jobChannel' = <<>>
        <3>1. jobChannel = <<jobChannel[1]>>
            BY <1>0, <2>1, Worked
        <3>2. jobChannel' = Tail(jobChannel)
            BY <2>1
        <3> QED BY <3>1, <3>2
    <2>3. Base' = Base
        BY <2>1, <2>2 DEF Base
    <2> QED BY <1>0, <2>1, <2>3 DEF Chained
<1>13. CASE EndTurn
    <2>1. /\ Dispatching \/ Waiting
          /\ UNCHANGED <<shutdown, buffers, documents>>
        BY <1>13, Ends DEF analyzer
    <2>2. CASE Waiting
        BY <1>0, <2>1, <2>2, ChainedFrame DEF Waiting
    <2>3. CASE Dispatching
        <3> DEFINE job == Head(serverPending)
        <3>1. jobChannel = <<>>
            BY <1>0, <2>3 DEF ServerInv, Flight, Sent, Dispatching
        <3>2. /\ ~shutdown /\ serverPending # <<>> /\ serverPending' = Tail(serverPending)
              /\ jobChannel' = <<[job |-> job, revision |-> revision]>>
            BY <2>3, <3>1 DEF Dispatching
        <3>3. job \in Jobs
            BY <1>0, <3>2, HeadIs
        <3>4. Base = buffers /\ Base' = Apply(buffers, job)
            <4> HIDE DEF job
            <4>1. jobChannel' # <<>> /\ jobChannel'[1].job = job
                BY <3>2
            <4> QED BY <2>1, <3>1, <4>1 DEF Base
        <3>5. ASSUME NEW u \in Uris PROVE Leads(serverPending', u, At(Base', u), At(documents', u))
            <4>1. Leads(serverPending, u, At(buffers, u), At(documents, u))
                BY <1>0, <3>2, <3>4 DEF Chained
            <4>2. PICK c \in States : /\ Move(At(buffers, u), c, job, u)
                                      /\ Leads(Tail(serverPending), u, c, At(documents, u))
                BY <1>0, <3>2, <4>1, LeadsTail
            <4>3. At(Apply(buffers, job), u) = c
                BY <1>0, <3>3, <4>2, ApplyIs
            <4> QED BY <2>1, <3>2, <3>4, <4>2, <4>3
        <3> QED BY <3>5 DEF Chained
    <2> QED BY <2>1, <2>2, <2>3
<1> QED BY <1>2, <1>3, <1>4, <1>5, <1>6, <1>7, <1>8, <1>9, <1>10, <1>11, <1>12, <1>13, ServerCases
        DEF Handling

-----------------------------------------------------------------------------
(* The queue is in order.                                                  *)

\* All jobs but the updates are only added.
LEMMA OthersAppended ==
    ASSUME NEW q, NEW job, job.method # "update"
    PROVE  QueueJob(q, job) = Append(q, job)
  BY DEF QueueJob

Part(q) == \A i \in 1..Len(q) : i \in 1..Len(serverPending) /\ q[i] = serverPending[i]

\* A queue with a job that comes after all others is in order.
LEMMA OrderedQueue ==
    ASSUME ServerTyped, Ordered, NEW q \in Seq(Jobs), Part(q), NEW job \in Jobs,
           serverPending' = QueueJob(q, job), UNCHANGED active,
           generation <= generation', generation' \in Nat, job.generation = generation',
           \A i \in 1..Len(serverPending) : Before(serverPending[i], job),
           active # <<>> => Before(active[1], job),
           job.method = "query" => job.cancelled = FALSE
    PROVE  Ordered'
<1> DEFINE Q == QueueJob(q, job)
<1>0. /\ generation \in Nat /\ Orderly(serverPending) /\ Len(serverPending) \in Nat
      /\ \A i \in 1..Len(serverPending) :
            serverPending[i].generation \in Nat /\ serverPending[i].generation <= generation
    <2>1. serverPending \in Seq(Jobs) /\ generation \in Nat
        BY DEF ServerTyped
    <2>2. \A i \in 1..Len(serverPending) : serverPending[i] \in Jobs
        BY <2>1
    <2> QED BY <2>1, <2>2, JobKinds DEF Ordered
<1>1. EndsWith(Q, q, job)
    BY QueueJobEntries
<1>2. \A i \in 1..Len(q) : Before(q[i], job)
    BY DEF Part
<1>3. Orderly(q)
    <2>1. Len(q) \in Nat
        OBVIOUS
    <2> QED BY <1>0, <2>1 DEF Orderly, Part
<1>4. Orderly(Q)
    BY <1>2, <1>3, QueueJobOrderly
<1> HIDE DEF Q
<1>5. ASSUME NEW i \in 1..Len(Q)
      PROVE  Same(Q[i], job) \/ \E k \in 1..Len(serverPending) : Q[i] = serverPending[k]
    <2>1. i = Len(Q) \/ i \in 1..(Len(Q) - 1)
        BY <1>1 DEF EndsWith
    <2>2. CASE i \in 1..(Len(Q) - 1)
        <3>1. PICK k \in 1..Len(q) : Q[i] = q[k]
            BY <1>1, <2>2 DEF EndsWith
        <3> QED BY <3>1 DEF Part
    <2> QED BY <1>1, <2>1, <2>2 DEF EndsWith
<1>6. ASSUME NEW i \in 1..Len(Q) PROVE Q[i].generation <= generation'
    <2>1. CASE Same(Q[i], job)
        BY <2>1 DEF Same
    <2>2. ASSUME NEW k \in 1..Len(serverPending), Q[i] = serverPending[k]
          PROVE  Q[i].generation <= generation'
        BY <1>0, <2>2
    <2> QED BY <1>5, <2>1, <2>2
<1>7. ASSUME active # <<>>
      PROVE  /\ active[1].generation <= generation'
             /\ \A i \in 1..Len(Q) : Before(active[1], Q[i])
    <2>1. /\ active[1].generation <= generation /\ Before(active[1], job)
          /\ \A i \in 1..Len(serverPending) : Before(active[1], serverPending[i])
        BY <1>7 DEF Ordered
    <2>2. active[1].generation \in Nat
        BY <1>7, ActiveJob, JobKinds
    <2>3. ASSUME NEW i \in 1..Len(Q) PROVE Before(active[1], Q[i])
        <3>1. CASE Same(Q[i], job)
            BY <2>1, <3>1 DEF Same, Before
        <3>2. ASSUME NEW k \in 1..Len(serverPending), Q[i] = serverPending[k] PROVE Before(active[1], Q[i])
            BY <2>1, <3>2
        <3> QED BY <1>5, <3>1, <3>2
    <2> QED BY <1>0, <2>1, <2>2, <2>3
<1>8. serverPending' = Q
    BY DEF Q
<1> QED BY <1>4, <1>6, <1>7, <1>8 DEF Ordered

\* A job of a new generation comes after all others.
LEMMA NewestAfter ==
    ASSUME ServerTyped, Ordered, NEW job, job.method # "query", job.generation = generation + 1
    PROVE  /\ \A i \in 1..Len(serverPending) : Before(serverPending[i], job)
           /\ active # <<>> => Before(active[1], job)
           /\ generation \in Nat /\ generation <= generation + 1 /\ generation + 1 \in Nat
<1>1. serverPending \in Seq(Jobs) /\ generation \in Nat
    BY DEF ServerTyped
<1>2. ASSUME NEW i \in 1..Len(serverPending) PROVE Before(serverPending[i], job)
    <2>1. serverPending[i] \in Jobs
        BY <1>1
    <2>2. serverPending[i].generation \in Nat /\ serverPending[i].generation <= generation
        BY <2>1, JobKinds DEF Ordered
    <2> QED BY <1>1, <2>2 DEF Before
<1>3. ASSUME active # <<>> PROVE Before(active[1], job)
    <2>1. active[1].generation \in Nat /\ active[1].generation <= generation
        BY <1>3, ActiveJob, JobKinds DEF Ordered
    <2> QED BY <1>1, <2>1 DEF Before
<1> QED BY <1>1, <1>2, <1>3

\* The query at the head of the events is not yet in the queue.
LEMMA NotYetAsked ==
    ASSUME ServerInv, Takes, events[1].is = "query"
    PROVE  ~Queued(events[1].id) /\ ~Running(events[1].id)
<1>1. ServerTyped /\ AsksOnce /\ events[1].id \in Requests
    BY DEF ServerInv, Takes, Documented
<1>2. 1 \in DOMAIN events
    <2>1. Sequence(events) /\ 1 \in 1..Len(events)
        BY <1>1, ShorterIs DEF ServerTyped, Takes
    <2> QED BY <2>1 DEF Sequence
<1>3. InTransit(events[1].id)
    BY <1>2 DEF InTransit
<1> QED BY <1>1, <1>3 DEF AsksOnce, OncePerQuery, Taken

\* What leaves the queue alone leaves its order.
LEMMA OrderedFrame ==
    ASSUME Ordered, UNCHANGED <<serverPending, generation>>,
           UNCHANGED active \/ active' = <<>>
    PROVE  Ordered'
<1>1. CASE UNCHANGED active
    BY <1>1 DEF Ordered
<1>2. CASE active' = <<>>
    BY <1>2 DEF Ordered
<1> QED BY <1>1, <1>2

\* A merged job has the place of the one it stands for.
LEMMA SameOrder ==
    ASSUME NEW x, NEW y, NEW z, Same(x, y)
    PROVE  (Before(y, z) => Before(x, z)) /\ (Before(z, y) => Before(z, x))
  BY DEF Same, Before

\* Every step keeps the queue in order.
LEMMA OrderedStep ==
    ASSUME ServerStep
    PROVE  Ordered'
<1>0. /\ ServerInv /\ ServerTyped /\ Ordered /\ serverPending \in Seq(Jobs) /\ generation \in Nat
      /\ Part(serverPending)
    BY DEF ServerStep, ServerInv, ServerTyped, Part
<1>1. CASE DidOpen \/ DidChange
    <2>1. PICK job \in Updates :
              /\ serverPending' = QueueJob(serverPending, job)
              /\ job.generation = generation + 1 /\ generation' = generation + 1
              /\ UNCHANGED active
        BY <1>0, <1>1, Editing
    <2>2. job \in Jobs /\ job.method = "update"
        BY DEF Jobs, Updates
    <2> QED BY <1>0, <2>1, <2>2, NewestAfter, OrderedQueue
<1>2. CASE DidClose
    <2>1. PICK job \in Closes :
              /\ serverPending' = Append(serverPending, job)
              /\ job.generation = generation + 1 /\ generation' = generation + 1
              /\ UNCHANGED active
        BY <1>0, <1>2, ClosesDocument
    <2>2. job \in Jobs /\ job.method = "close"
        BY DEF Jobs, Closes
    <2> QED BY <1>0, <2>1, <2>2, NewestAfter, OthersAppended, OrderedQueue
<1>3. CASE WorkspaceChanged
    <2>1. PICK job \in Workspaces, q \in Seq(Jobs) :
              /\ serverPending' = Append(q, job)
              /\ q = serverPending \/ (q = Front(serverPending) /\ serverPending # <<>>)
              /\ job.generation = generation + 1 /\ generation' = generation + 1
              /\ UNCHANGED active
        BY <1>0, <1>3, Reworking
    <2>2. job \in Jobs /\ job.method = "workspace"
        BY DEF Jobs, Workspaces
    <2>3. Part(q)
        <3>1. CASE q = Front(serverPending) /\ serverPending # <<>>
            <4>1. Len(serverPending) \in Nat \ {0}
                BY <1>0, <3>1
            <4>2. /\ Len(q) = Len(serverPending) - 1
                  /\ \A n \in 1..(Len(serverPending) - 1) : q[n] = serverPending[n]
                BY <1>0, <3>1, FrontIs
            <4>3. ASSUME NEW i \in 1..Len(q)
                  PROVE  i \in 1..Len(serverPending) /\ q[i] = serverPending[i]
                <5>1. i \in 1..(Len(serverPending) - 1)
                    BY <4>2
                <5>2. i \in 1..Len(serverPending)
                    BY <4>1, <5>1
                <5> QED BY <4>2, <5>1, <5>2
            <4> QED BY <4>3 DEF Part
        <3> QED BY <1>0, <2>1, <3>1
    <2> QED BY <1>0, <2>1, <2>2, <2>3, NewestAfter, OthersAppended, OrderedQueue
<1>4. CASE Ask
    <2>1. PICK job \in Queries :
              /\ serverPending' = Append(serverPending, job)
              /\ job.id = events[1].id /\ events[1].is = "query"
              /\ job.cancelled = FALSE /\ job.generation = generation
              /\ UNCHANGED <<generation, active>>
        BY <1>0, <1>4, Asks
    <2>2. job \in Jobs /\ job.method = "query"
        BY DEF Jobs, Queries
    <2>3. ~Queued(job.id) /\ ~Running(job.id)
        <3>1. Takes
            BY <1>0, <1>4, HandlingTakes DEF Handling
        <3> QED BY <1>0, <2>1, <3>1, NotYetAsked
    <2>4. \A i \in 1..Len(serverPending) : Before(serverPending[i], job)
        BY <2>1, <2>2, <2>3 DEF Ordered, Queued, Before, ServerInv, ServerStep
    <2>5. active # <<>> => Before(active[1], job)
        BY <2>1, <2>2, <2>3 DEF Ordered, Running, Before, ServerInv, ServerStep
    <2>6. generation <= generation' /\ generation' \in Nat
        BY <1>0, <2>1
    <2> QED BY <1>0, <2>1, <2>2, <2>4, <2>5, <2>6, OthersAppended, OrderedQueue
<1>5. CASE CancelRequest
    <2>1. PICK r \in Requests : /\ serverPending' = Withdraw(serverPending, r)
                                /\ active' = MarkCancelled(active, {r})
                                /\ UNCHANGED generation
        BY <1>0, <1>5, Cancels
    <2>2. SameActive
        BY <1>0, <2>1, MarkedActive
    <2> DEFINE Q == Withdraw(serverPending, r)
    <2>3. /\ Orderly(Q)
          /\ \A i \in 1..Len(Q) : \E k \in 1..Len(serverPending) : Same(Q[i], serverPending[k])
        BY <1>0, WithdrawEntries DEF Ordered
    <2> HIDE DEF Q
    <2>4. ASSUME NEW i \in 1..Len(Q)
          PROVE  /\ Q[i].generation <= generation
                 /\ active # <<>> => Before(active'[1], Q[i])
        <3>1. PICK k \in 1..Len(serverPending) : Same(Q[i], serverPending[k])
            BY <2>3
        <3>2. Q[i].generation <= generation
            BY <1>0, <3>1 DEF Same, Ordered
        <3>3. ASSUME active # <<>> PROVE Before(active'[1], Q[i])
            <4>1. Before(active[1], serverPending[k])
                BY <1>0, <3>3 DEF Ordered
            <4>2. Before(active[1], Q[i])
                BY <3>1, <4>1, SameOrder
            <4> QED BY <2>2, <3>3, <4>2 DEF Before, SameActive
        <3> QED BY <3>2, <3>3
    <2>5. active # <<>> => active'[1].generation <= generation
        BY <1>0, <2>2 DEF SameActive, Ordered
    <2>6. serverPending' = Q
        BY <2>1 DEF Q
    <2> QED BY <2>1, <2>2, <2>3, <2>4, <2>5, <2>6 DEF Ordered, SameActive
<1>6. CASE Shutdown
    <2>1. serverPending' = <<>> /\ UNCHANGED generation /\ active' = MarkCancelled(active, Requests)
        BY <1>6 DEF Shutdown
    <2>2. SameActive
        BY <1>0, <2>1, MarkedActive
    <2>3. Len(<<>>) = 0
        OBVIOUS
    <2>4. active # <<>> => active'[1].generation <= generation
        BY <1>0, <2>2 DEF SameActive, Ordered
    <2>5. Orderly(<<>>)
        BY <2>3 DEF Orderly
    <2>6. \A i \in 1..Len(<<>>) : FALSE
        BY <2>3
    <2> HIDE DEF SameActive
    <2> QED BY <2>1, <2>2, <2>4, <2>5, <2>6 DEF Ordered, SameActive
<1>7. CASE Completing
    BY <1>0, <1>7, CompletingTakes, OrderedFrame
<1>8. CASE EndTurn
    <2>1. (Dispatching \/ Waiting) /\ UNCHANGED generation
        BY <1>8, Ends
    <2>2. CASE Waiting
        BY <1>0, <2>1, <2>2, OrderedFrame DEF Waiting
    <2>3. CASE Dispatching
        <3> DEFINE Q == Tail(serverPending)
        <3>1. serverPending # <<>> /\ active' = <<Head(serverPending)>> /\ serverPending' = Q
            BY <2>3 DEF Dispatching
        <3>2. /\ Head(serverPending) = serverPending[1] /\ 1 \in 1..Len(serverPending)
              /\ \A i \in 1..Len(Q) : i + 1 \in 1..Len(serverPending) /\ Q[i] = serverPending[i + 1]
            BY <1>0, <3>1, HeadIs
        <3>3. active'[1] = serverPending[1]
            BY <3>1, <3>2
        <3>4. Len(Q) \in Nat
            BY <1>0, <3>1
        <3> HIDE DEF Q
        <3>5. \A i, j \in 1..Len(serverPending) : i < j => Before(serverPending[i], serverPending[j])
            BY <1>0 DEF Ordered, Orderly
        <3>6. Orderly(Q)
            <4>1. ASSUME NEW i \in 1..Len(Q), NEW j \in 1..Len(Q), i < j PROVE Before(Q[i], Q[j])
                <5>1. i + 1 < j + 1
                    BY <4>1
                <5> QED BY <3>2, <3>5, <5>1
            <4>2. \A i \in 1..Len(Q) : Q[i].method = "query" => Q[i].cancelled = FALSE
                BY <1>0, <3>2 DEF Ordered, Orderly
            <4> QED BY <4>1, <4>2 DEF Orderly
        <3>7. \A i \in 1..Len(Q) : Q[i].generation <= generation /\ Before(serverPending[1], Q[i])
            <4>1. ASSUME NEW i \in 1..Len(Q) PROVE Q[i].generation <= generation /\ Before(serverPending[1], Q[i])
                <5>1. 1 < i + 1
                    OBVIOUS
                <5> QED BY <1>0, <3>2, <3>5, <5>1 DEF Ordered
            <4> QED BY <4>1
        <3>8. serverPending[1].generation <= generation
            BY <1>0, <3>2 DEF Ordered
        <3> QED BY <2>1, <3>1, <3>3, <3>6, <3>7, <3>8 DEF Ordered
    <2> QED BY <2>1, <2>2, <2>3
<1>9. CASE \/ AskNothing \/ AskStale \/ AskTooLate \/ Ignore \/ Exit("exit") \/ Exit("end")
           \/ Transact \/ Report \/ Stop \/ UNCHANGED serverVars
    <2>1. UNCHANGED <<serverPending, active, generation>>
        BY <1>9 DEF AskNothing, AskStale, AskTooLate, Ignore, Exit, Transact, Report, Stop,
                    serverVars, scheduler
    <2> QED BY <1>0, <2>1, OrderedFrame
<1>10. CASE Editor
    BY <1>0, <1>10, EditorSends, OrderedFrame DEF Sends, scheduler
<1> QED BY <1>1, <1>2, <1>3, <1>4, <1>5, <1>6, <1>7, <1>8, <1>9, <1>10, ServerCases DEF Handling

-----------------------------------------------------------------------------
(* What the editor is shown.                                               *)

\* Queries lead nowhere.
LEMMA QueriesLead ==
    ASSUME NEW q \in Seq(Jobs), \A i \in 1..Len(q) : q[i].method = "query",
           NEW u, NEW a, NEW b, Leads(q, u, a, b)
    PROVE  a = b
<1> DEFINE N == Len(q)
<1>0. N \in Nat
    OBVIOUS
<1>1. PICK t : Trace(t, q, u, a, b)
    BY DEF Leads
<1>2. t[0] = a /\ t[N] = b /\ \A n \in 1..N : Move(t[n - 1], t[n], q[n], u)
    BY <1>1 DEF Trace
<1> DEFINE G == {n \in 0..N : t[n] = a}
<1>3. 0 \in G
    BY <1>0, <1>2
<1>4. ASSUME NEW n \in 1..N, n - 1 \in G PROVE n \in G
    <2>1. q[n].method = "query" /\ Move(t[n - 1], t[n], q[n], u) /\ n \in 0..N
        BY <1>0, <1>2
    <2>2. t[n] = t[n - 1]
        BY <2>1 DEF Move
    <2> QED BY <1>4, <2>1, <2>2
<1> HIDE DEF G
<1>5. \A n \in 0..N : n \in G
    BY <1>0, <1>3, <1>4, Upwards
<1>6. N \in G
    BY <1>0, <1>5
<1> QED BY <1>2, <1>6 DEF G

\* The reply to the newest job finds the analyzer with the documents of the
\* server, and nothing but queries in the queue.
LEMMA CaughtUp ==
    ASSUME ServerInv, Completing, ~shutdown, ~Obsolete
    PROVE  /\ \A i \in 1..Len(serverPending) : serverPending[i].method = "query"
           /\ buffers = documents /\ Result.view = View(documents, sources)
<1>0. /\ ServerTyped /\ Ordered /\ Chained /\ serverPending \in Seq(Jobs) /\ generation \in Nat
      /\ buffers \in Maps /\ documents \in Maps
    BY DEF ServerInv, ServerTyped
<1>1. /\ jobChannel = <<>> /\ active # <<>> /\ ReplyRight(events[1]) /\ Result = events[1]
    BY <1>0, CompletingFlight, CompletingTakes DEF Sent, Result, Takes
<1>2. active[1].generation = generation
    BY DEF Obsolete, Job
<1>3. ASSUME NEW i \in 1..Len(serverPending), serverPending[i].method # "query" PROVE FALSE
    <2>1. serverPending[i] \in Jobs
        BY <1>0
    <2>2. /\ serverPending[i].generation \in Nat /\ serverPending[i].generation <= generation
          /\ generation < serverPending[i].generation
        BY <1>0, <1>1, <1>2, <1>3, <2>1, JobKinds DEF Ordered, Before
    <2> QED BY <1>0, <2>2
<1>4. ASSUME NEW u \in Uris PROVE At(buffers, u) = At(documents, u)
    <2>1. Leads(serverPending, u, At(buffers, u), At(documents, u))
        BY <1>0, <1>1 DEF Chained, Base
    <2> QED BY <1>0, <1>3, <2>1, QueriesLead
<1>5. buffers = documents
    BY <1>0, <1>4, MapsEqual
<1> QED BY <1>1, <1>3, <1>5 DEF ReplyRight

Shown == [u \in Uris |-> IF u \in DOMAIN View(documents, sources)
                         THEN View(documents, sources) ELSE NoView]

\* What publish() shows of the newest view is what should be shown.
LEMMA PublishShows ==
    ASSUME ServerTyped, NEW view, view = View(documents, sources), PublishView(view),
           \A u \in Uris \ published : shown[u] = NoView
    PROVE  /\ shown' = Shown
           /\ \A u \in Uris \ published' : shown'[u] = NoView
<1> DEFINE known == DOMAIN documents \cup DOMAIN view
           Version(u) == IF u \in DOMAIN documents THEN documents[u].version ELSE 0
           Items(u) == IF u \in DOMAIN view /\ view[u].version = Version(u) THEN view ELSE NoView
<1>1. /\ DOMAIN view = DOMAIN documents \cup sources /\ known = DOMAIN view
      /\ \A u \in DOMAIN view :
            view[u] = IF u \in DOMAIN documents THEN documents[u] ELSE [version |-> 0, text |-> 0]
    BY DEF View
<1>2. /\ shown' = [u \in Uris |-> IF u \in known THEN Items(u)
                                  ELSE IF u \in published THEN NoView ELSE shown[u]]
      /\ published' = known
    BY DEF PublishView
<1>3. ASSUME NEW u \in known PROVE Items(u) = view
    BY <1>1
<1> HIDE DEF Items, known
<1>4. shown' = [u \in Uris |-> IF u \in known THEN view ELSE NoView]
    BY <1>2, <1>3
<1>5. \A u \in Uris \ published' : shown'[u] = NoView
    BY <1>2, <1>4
<1> QED BY <1>1, <1>4, <1>5 DEF Shown

ShowingIs ==
    /\ \A u \in Uris \ published : shown[u] = NoView
    /\ ~shutdown => Analysing \/ (Idle /\ shown = Shown)

\* Showing, in the terms of the lemmas below.
LEMMA ShowingMeans == (Showing <=> ShowingIs) /\ (Showing' <=> ShowingIs')
  BY DEF Showing, ShowingIs, Shown

\* A new job at the end of the queue is the newest.
LEMMA NewestQueued ==
    ASSUME NEW q \in Seq(Jobs), NEW job \in Jobs, serverPending' = QueueJob(q, job),
           job.method # "query", job.generation = generation'
    PROVE  Analysing'
<1> DEFINE Q == QueueJob(q, job)
<1>1. EndsWith(Q, q, job)
    BY QueueJobEntries
<1> HIDE DEF Q
<1>2. Len(Q) \in 1..Len(Q) /\ Q[Len(Q)].method # "query" /\ Q[Len(Q)].generation = generation'
    BY <1>1 DEF EndsWith, Same
<1>3. serverPending' = Q
    BY DEF Q
<1> QED BY <1>2, <1>3 DEF Analysing, Newest

\* What leaves the diagnostics alone and the newest job in place.
LEMMA ShowingFrame ==
    ASSUME ShowingIs, UNCHANGED <<published, shown>>,
           UNCHANGED shutdown \/ shutdown',
           Analysing => Analysing', Idle => Idle' /\ Shown' = Shown
    PROVE  ShowingIs'
<1>1. \A u \in Uris \ published' : shown'[u] = NoView
    BY DEF ShowingIs
<1>2. ASSUME ~shutdown' PROVE Analysing' \/ (Idle' /\ shown' = Shown')
    <2>1. ~shutdown
        BY <1>2
    <2> QED BY <2>1 DEF ShowingIs
<1> QED BY <1>1, <1>2 DEF ShowingIs

\* After every step the newest state is shown or still to be analysed.
LEMMA ShowingStep ==
    ASSUME ServerStep
    PROVE  Showing'
<1>0. /\ ServerInv /\ ServerTyped /\ ShowingIs /\ serverPending \in Seq(Jobs) /\ Ordered
    BY ShowingMeans DEF ServerStep, ServerInv, ServerTyped
<1>1. CASE DidOpen \/ DidChange
    <2>1. PICK job \in Updates :
              /\ serverPending' = QueueJob(serverPending, job)
              /\ job.generation = generation + 1 /\ generation' = generation + 1
              /\ UNCHANGED <<published, shown>>
        BY <1>0, <1>1, Editing
    <2>2. job \in Jobs /\ job.method = "update"
        BY DEF Jobs, Updates
    <2>3. Analysing'
        BY <1>0, <2>1, <2>2, NewestQueued
    <2> QED BY <1>0, <2>1, <2>3, ShowingMeans DEF ShowingIs
<1>2. CASE DidClose
    <2>1. PICK job \in Closes :
              /\ serverPending' = Append(serverPending, job)
              /\ job.generation = generation + 1 /\ generation' = generation + 1
              /\ published' = published \ {job.uri} /\ shown' = [shown EXCEPT ![job.uri] = NoView]
        BY <1>0, <1>2, ClosesDocument
    <2>2. job \in Jobs /\ job.method = "close" /\ job.uri \in Uris
        BY DEF Jobs, Closes
    <2>3. Analysing'
        BY <1>0, <2>1, <2>2, OthersAppended, NewestQueued
    <2>4. ASSUME NEW u \in Uris \ published' PROVE shown'[u] = NoView
        <3>1. DOMAIN shown = Uris /\ (u # job.uri => shown[u] = NoView)
            BY <1>0, <2>1, <2>4 DEF ShowingIs, ServerTyped
        <3> QED BY <2>1, <3>1
    <2> QED BY <2>3, <2>4, ShowingMeans DEF ShowingIs
<1>3. CASE WorkspaceChanged
    <2>1. PICK job \in Workspaces, q \in Seq(Jobs) :
              /\ serverPending' = Append(q, job)
              /\ job.generation = generation + 1 /\ generation' = generation + 1
              /\ UNCHANGED <<published, shown>>
        BY <1>0, <1>3, Reworking
    <2>2. job \in Jobs /\ job.method = "workspace"
        BY DEF Jobs, Workspaces
    <2>3. Analysing'
        BY <1>0, <2>1, <2>2, OthersAppended, NewestQueued
    <2> QED BY <1>0, <2>1, <2>3, ShowingMeans DEF ShowingIs
<1>4. CASE Ask
    <2>1. PICK job \in Queries :
              /\ serverPending' = Append(serverPending, job)
              /\ UNCHANGED <<documents, active, generation, published, shutdown, shown>>
        BY <1>0, <1>4, Asks
    <2>2. job \in Jobs /\ job.method = "query"
        BY DEF Jobs, Queries
    <2>3. UNCHANGED sources
        BY <1>0, <1>4, HandlingTakes DEF Handling, analyzer
    <2>4. Added(serverPending', serverPending, job)
        BY <1>0, <2>1, <2>2, Extends
    <2>5. /\ Len(serverPending') = Len(serverPending) + 1 /\ Len(serverPending) \in Nat
          /\ serverPending'[Len(serverPending) + 1] = job
          /\ \A n \in 1..Len(serverPending) : serverPending'[n] = serverPending[n]
        BY <1>0, <2>4 DEF Added
    <2>6. /\ \A n \in 1..Len(serverPending) : n \in 1..Len(serverPending')
          /\ \A n \in 1..Len(serverPending') : n \in 1..Len(serverPending) \/ n = Len(serverPending) + 1
        BY <2>5
    <2>7. Analysing => Analysing'
        BY <2>1, <2>5, <2>6 DEF Analysing, Newest
    <2>8. Idle => Idle'
        BY <2>1, <2>2, <2>5, <2>6 DEF Idle
    <2>9. Shown' = Shown
        BY <2>1, <2>3 DEF Shown
    <2> QED BY <1>0, <2>1, <2>7, <2>8, <2>9, ShowingFrame, ShowingMeans
<1>5. CASE CancelRequest
    <2>1. PICK r \in Requests : /\ serverPending' = Withdraw(serverPending, r)
                                /\ active' = MarkCancelled(active, {r})
                                /\ UNCHANGED <<documents, generation, published, shutdown, shown>>
        BY <1>0, <1>5, Cancels
    <2>2. SameActive
        BY <1>0, <2>1, MarkedActive
    <2>3. UNCHANGED sources
        BY <1>0, <1>5, HandlingTakes DEF Handling, analyzer
    <2> DEFINE Q == Withdraw(serverPending, r)
    <2>4. /\ \A i \in 1..Len(Q) : \E k \in 1..Len(serverPending) : Same(Q[i], serverPending[k])
          /\ \A k \in 1..Len(serverPending) :
                 /\ serverPending[k].method # "query"
                 /\ \A j \in 1..Len(serverPending) : serverPending[j].generation <= serverPending[k].generation
                 => \E i \in 1..Len(Q) : Same(Q[i], serverPending[k])
        BY <1>0, WithdrawEntries DEF Ordered
    <2> HIDE DEF Q
    <2>5. serverPending' = Q
        BY <2>1 DEF Q
    <2>6. ASSUME NEW k \in 1..Len(serverPending), Newest(serverPending[k]) PROVE Analysing'
        <3>1. \A j \in 1..Len(serverPending) : serverPending[j].generation <= serverPending[k].generation
            BY <1>0, <2>6 DEF Ordered, Newest
        <3>2. PICK i \in 1..Len(Q) : Same(Q[i], serverPending[k])
            BY <2>4, <2>6, <3>1 DEF Newest
        <3>3. Q[i].method # "query" /\ Q[i].generation = generation
            BY <2>6, <3>2 DEF Newest, Same
        <3> QED BY <2>1, <2>5, <3>3 DEF Analysing, Newest
    <2>7. ASSUME active # <<>>, Newest(active[1]) PROVE Analysing'
        BY <2>1, <2>2, <2>7 DEF Analysing, Newest, SameActive
    <2>8. ASSUME Idle PROVE Idle'
        <3>1. \A i \in 1..Len(Q) : Q[i].method = "query"
            BY <2>4, <2>8 DEF Idle, Same
        <3> QED BY <2>2, <2>5, <2>8, <3>1 DEF Idle, SameActive
    <2>9. Shown' = Shown
        BY <2>1, <2>3 DEF Shown
    <2>10. Analysing => Analysing'
        BY <2>6, <2>7 DEF Analysing
    <2> QED BY <1>0, <2>1, <2>8, <2>9, <2>10, ShowingFrame, ShowingMeans
<1>6. CASE Shutdown
    <2>1. shutdown' /\ UNCHANGED <<published, shown>>
        BY <1>6 DEF Shutdown
    <2> QED BY <1>0, <2>1, ShowingMeans DEF ShowingIs
<1>7. CASE CompleteStopped
    <2>1. shutdown' /\ UNCHANGED <<published, shown>>
        BY <1>7 DEF CompleteStopped, CompleteJob
    <2> QED BY <1>0, <2>1, ShowingMeans DEF ShowingIs
<1>8. CASE CompleteUpdate \/ CompleteQuery
    <2>0. /\ Completing /\ ~shutdown
          /\ CompleteQuery => IsQuery(Job) /\ UNCHANGED <<published, shown>>
          /\ CompleteUpdate =>
                /\ ~IsQuery(Job)
                /\ IF Obsolete THEN UNCHANGED <<published, shown>> ELSE PublishView(Result.view)
        BY <1>8 DEF CompleteUpdate, CompleteQuery, Completing
    <2>1. /\ active # <<>> /\ active' = <<>>
          /\ UNCHANGED <<documents, serverPending, generation, shutdown, sources>>
        BY <1>0, <2>0, CompletingTakes DEF analyzer
    <2>2. Shown' = Shown
        BY <2>1 DEF Shown
    <2>3. ASSUME NEW i \in 1..Len(serverPending), Newest(serverPending[i]) PROVE Analysing'
        BY <2>1, <2>3 DEF Analysing, Newest
    <2>4. Idle => Idle'
        BY <2>1 DEF Idle
    <2>5. CASE CompleteUpdate /\ ~Obsolete
        <3>1. /\ \A i \in 1..Len(serverPending) : serverPending[i].method = "query"
              /\ Result.view = View(documents, sources)
            BY <1>0, <2>0, <2>5, CaughtUp
        <3>2. Idle'
            BY <2>1, <3>1 DEF Idle
        <3>3. PublishView(Result.view) /\ \A u \in Uris \ published : shown[u] = NoView
            BY <1>0, <2>0, <2>5 DEF ShowingIs
        <3>4. shown' = Shown /\ \A u \in Uris \ published' : shown'[u] = NoView
            BY <1>0, <3>1, <3>3, PublishShows
        <3> QED BY <2>2, <3>2, <3>4, ShowingMeans DEF ShowingIs
    <2>6. CASE ~(CompleteUpdate /\ ~Obsolete)
        <3>1. UNCHANGED <<published, shown>>
            BY <1>8, <2>0, <2>6
        <3>2. ~Newest(active[1])
            BY <1>8, <2>0, <2>6 DEF Newest, IsQuery, Obsolete, Job
        <3>3. Analysing => Analysing'
            BY <2>3, <3>2 DEF Analysing
        <3> QED BY <1>0, <2>1, <2>2, <2>4, <3>1, <3>3, ShowingFrame, ShowingMeans
    <2> QED BY <2>5, <2>6
<1>9. CASE EndTurn
    <2>1. /\ Dispatching \/ Waiting
          /\ UNCHANGED <<documents, generation, published, shutdown, sources, shown>>
        BY <1>9, Ends DEF analyzer
    <2>2. Shown' = Shown
        BY <2>1 DEF Shown
    <2>3. CASE Waiting
        <3>1. UNCHANGED <<serverPending, active>>
            BY <2>3 DEF Waiting
        <3>2. (Analysing => Analysing') /\ (Idle => Idle')
            BY <2>1, <3>1 DEF Analysing, Newest, Idle
        <3> QED BY <1>0, <2>1, <2>2, <3>2, ShowingFrame, ShowingMeans
    <2>4. CASE Dispatching
        <3> DEFINE Q == Tail(serverPending)
        <3>1. /\ serverPending # <<>> /\ active = <<>>
              /\ active' = <<Head(serverPending)>> /\ serverPending' = Q
            BY <2>4 DEF Dispatching
        <3>2. /\ Head(serverPending) = serverPending[1] /\ 1 \in 1..Len(serverPending)
              /\ \A i \in 1..Len(Q) : i + 1 \in 1..Len(serverPending) /\ Q[i] = serverPending[i + 1]
              /\ \A i \in 1..Len(serverPending) :
                    i = 1 \/ (i - 1 \in 1..Len(Q) /\ Q[i - 1] = serverPending[i])
            BY <1>0, <3>1, HeadIs
        <3>3. active'[1] = serverPending[1] /\ active' # <<>>
            BY <3>1, <3>2
        <3> HIDE DEF Q
        <3>4. Analysing => Analysing'
            BY <2>1, <3>1, <3>2, <3>3 DEF Analysing, Newest
        <3>5. Idle => Idle'
            BY <3>1, <3>2, <3>3 DEF Idle
        <3> QED BY <1>0, <2>1, <2>2, <3>4, <3>5, ShowingFrame, ShowingMeans
    <2> QED BY <2>1, <2>3, <2>4
<1>10. CASE Transact
    <2>1. /\ jobChannel # <<>>
          /\ UNCHANGED <<documents, serverPending, active, generation, published, shutdown, shown>>
          /\ jobChannel[1].job.method # "workspace" => sources' = sources
        BY <1>10 DEF Transact, scheduler
    <2>2. (Analysing => Analysing') /\ (Idle => Idle')
        BY <2>1 DEF Analysing, Newest, Idle
    <2>3. ASSUME Idle PROVE Shown' = Shown
        <3>1. jobChannel[1].job.method = active[1].method /\ active # <<>>
            BY <1>0, <2>1, Worked
        <3>2. sources' = sources
            BY <2>1, <2>3, <3>1 DEF Idle
        <3> QED BY <2>1, <3>2 DEF Shown
    <2> QED BY <1>0, <2>1, <2>2, <2>3, ShowingFrame, ShowingMeans
<1>11. CASE \/ Editor \/ AskNothing \/ AskStale \/ AskTooLate \/ Ignore \/ Exit("exit") \/ Exit("end")
            \/ Report \/ Stop \/ UNCHANGED serverVars
    <2>1. CASE Editor
        <3>1. UNCHANGED <<scheduler, analyzer, shown>>
            BY <1>0, <2>1, EditorSends DEF Sends
        <3> QED BY <1>0, <3>1, ShowingMeans
                DEF scheduler, analyzer, ShowingIs, Analysing, Newest, Idle, Shown
    <2>2. CASE \/ AskNothing \/ AskStale \/ AskTooLate \/ Ignore \/ Exit("exit") \/ Exit("end")
               \/ Report \/ Stop \/ UNCHANGED serverVars
        <3>1. UNCHANGED <<documents, serverPending, active, generation, published, shutdown, shown>>
            BY <2>2 DEF AskNothing, AskStale, AskTooLate, Ignore, Exit, Serve, Report, Stop,
                        serverVars, scheduler
        <3>2. UNCHANGED sources
            <4>1. CASE AskNothing \/ AskStale \/ AskTooLate \/ Ignore \/ Exit("exit") \/ Exit("end")
                BY <1>0, <4>1, HandlingTakes DEF Handling, analyzer
            <4>2. CASE Report \/ Stop \/ UNCHANGED serverVars
                BY <4>2 DEF Report, Stop, serverVars, analyzer
            <4> QED BY <2>2, <4>1, <4>2
        <3> QED BY <1>0, <3>1, <3>2, ShowingMeans DEF ShowingIs, Analysing, Newest, Idle, Shown
    <2> QED BY <1>11, <2>1, <2>2
<1> QED BY <1>1, <1>2, <1>3, <1>4, <1>5, <1>6, <1>7, <1>8, <1>9, <1>10, <1>11, ServerCases
        DEF Handling, Completing

-----------------------------------------------------------------------------
(* One answer for every query.                                             *)

\* A shutdown leaves no query waiting, and later steps add none.
LEMMA ClosedStep ==
    ASSUME ServerStep
    PROVE  Closed'
<1>0. ServerTyped /\ Closed
    BY DEF ServerStep, ServerInv
<1>1. CASE Shutdown
    <2>1. serverPending' = <<>> /\ active' = MarkCancelled(active, Requests)
        BY <1>1 DEF Shutdown
    <2>2. ASSUME active' # <<>>, active'[1].method = "query" PROVE active'[1].cancelled = TRUE
        <3>1. active # <<>> /\ active[1].method = "query"
            BY <1>0, <2>1, <2>2, MarkedActive DEF SameActive
        <3>2. active[1] \in Queries
            BY <1>0, <3>1, ActiveJob, JobKinds
        <3>3. active[1].id \in Requests
            BY <3>2 DEF Queries
        <3> QED BY <1>0, <2>1, <3>1, <3>3, MarkedActive
    <2> QED BY <2>1, <2>2 DEF Closed
<1>2. ASSUME UNCHANGED <<serverPending, shutdown>>, UNCHANGED active \/ active' = <<>> PROVE Closed'
    <2>1. CASE UNCHANGED active
        BY <1>0, <1>2, <2>1 DEF Closed
    <2>2. CASE active' = <<>>
        BY <1>0, <1>2, <2>2 DEF Closed
    <2> QED BY <1>2, <2>1, <2>2
<1>3. CASE \/ DidOpen \/ DidChange \/ DidClose \/ WorkspaceChanged
           \/ AskNothing \/ AskStale \/ Ask \/ CancelRequest
    <2>1. ~shutdown'
        BY <1>3 DEF DidOpen, DidChange, DidClose, WorkspaceChanged, AskNothing, AskStale, Ask,
                    CancelRequest, Serve
    <2> QED BY <2>1 DEF Closed
<1>4. CASE AskTooLate \/ Ignore \/ Exit("exit") \/ Exit("end") \/ Transact \/ Report \/ Stop
           \/ UNCHANGED serverVars
    <2>1. UNCHANGED <<serverPending, shutdown, active>>
        BY <1>4 DEF AskTooLate, Ignore, Exit, Transact, Report, Stop, serverVars, scheduler
    <2> QED BY <1>2, <2>1
<1>5. CASE Editor
    BY <1>0, <1>2, <1>5, EditorSends DEF Sends, scheduler
<1>6. CASE Completing
    BY <1>0, <1>2, <1>6, CompletingTakes
<1>7. CASE EndTurn
    <2>1. (Dispatching \/ Waiting) /\ UNCHANGED shutdown
        BY <1>7, Ends
    <2>2. CASE Waiting
        BY <1>2, <2>1, <2>2 DEF Waiting
    <2>3. CASE Dispatching
        <3>1. ~shutdown'
            BY <2>1, <2>3 DEF Dispatching
        <3> QED BY <3>1 DEF Closed
    <2> QED BY <2>1, <2>2, <2>3
<1> QED BY <1>1, <1>3, <1>4, <1>5, <1>6, <1>7, ServerCases DEF Handling

\* A query leaves the events when it is taken, and only then.
LEMMA TransitShorter ==
    ASSUME ServerTyped, SentOnce, Takes, UNCHANGED asked
    PROVE  /\ SentOnce'
           /\ \A r \in Requests :
                IF events[1].is = "query" /\ events[1].id = r
                THEN ~Taken(r) /\ Taken(r)'
                ELSE Taken(r)' <=> Taken(r)
<1>0. /\ Sequence(events) /\ Sequence(events') /\ DOMAIN events = 1..Len(events)
      /\ DOMAIN events' = 1..Len(events') /\ Shorter(events', events)
    BY DEF ServerTyped, Takes, Shorter, Sequence
<1>1. /\ 1 \in 1..Len(events)
      /\ \A i \in 1..Len(events') : i + 1 \in 1..Len(events) /\ events'[i] = events[i + 1]
      /\ \A i \in 1..Len(events) : i = 1 \/ (i - 1 \in 1..Len(events') /\ events'[i - 1] = events[i])
    BY <1>0, ShorterIs
<1>2. SentOnce'
    <2>1. ASSUME NEW i \in 1..Len(events'), NEW j \in 1..Len(events'),
                 events'[i].is = "query", events'[j].is = "query", events'[i].id = events'[j].id
          PROVE  i = j
        <3>1. /\ i + 1 \in 1..Len(events) /\ events'[i] = events[i + 1]
              /\ j + 1 \in 1..Len(events) /\ events'[j] = events[j + 1]
            BY <1>1
        <3>2. i + 1 = j + 1
            BY <2>1, <3>1 DEF SentOnce
        <3> QED BY <3>2
    <2>2. \A i \in 1..Len(events') : events'[i].is = "query" => events'[i].id \in asked'
        BY <1>1 DEF SentOnce
    <2> QED BY <2>1, <2>2 DEF SentOnce
<1>3. ASSUME NEW r \in Requests, ~(events[1].is = "query" /\ events[1].id = r)
      PROVE  Taken(r)' <=> Taken(r)
    <2>1. ASSUME NEW i \in 1..Len(events'), events'[i].is = "query", events'[i].id = r
          PROVE  InTransit(r)
        <3>1. i + 1 \in 1..Len(events) /\ events'[i] = events[i + 1]
            BY <1>1
        <3> QED BY <1>0, <2>1, <3>1 DEF InTransit
    <2>2. ASSUME NEW i \in 1..Len(events), events[i].is = "query", events[i].id = r
          PROVE  InTransit(r)'
        <3>1. i - 1 \in 1..Len(events') /\ events'[i - 1] = events[i]
            BY <1>1, <1>3, <2>2
        <3> QED BY <1>0, <2>2, <3>1 DEF InTransit
    <2>3. InTransit(r)' <=> InTransit(r)
        BY <1>0, <2>1, <2>2 DEF InTransit
    <2> QED BY <2>3 DEF Taken
<1>4. ASSUME NEW r \in Requests, events[1].is = "query", events[1].id = r
      PROVE  ~Taken(r) /\ Taken(r)'
    <2>1. InTransit(r) /\ r \in asked
        BY <1>0, <1>1, <1>4 DEF InTransit, SentOnce
    <2>2. ASSUME NEW i \in 1..Len(events'), events'[i].is = "query", events'[i].id = r PROVE FALSE
        <3>1. i + 1 = 1
            BY <1>1, <1>4, <2>2 DEF SentOnce
        <3> QED BY <3>1
    <2>3. ~InTransit(r)'
        BY <1>0, <2>2 DEF InTransit
    <2> QED BY <2>1, <2>3 DEF Taken
<1> QED BY <1>2, <1>3, <1>4

\* What is added and no query leaves the queries alone.
LEMMA TransitLonger ==
    ASSUME ServerTyped, SentOnce, NEW m, Longer(events', events, m),
           \/ m.is # "query" /\ UNCHANGED asked
           \/ m.is = "query" /\ m.id \notin asked /\ asked' = asked \cup {m.id}
    PROVE  SentOnce' /\ \A r \in Requests : Taken(r)' <=> Taken(r)
<1>0. /\ Sequence(events) /\ Sequence(events') /\ DOMAIN events = 1..Len(events)
      /\ DOMAIN events' = 1..Len(events')
    BY DEF ServerTyped, Longer, Sequence
<1>1. /\ Len(events') \in 1..Len(events') /\ events'[Len(events')] = m
      /\ \A i \in 1..Len(events) : i \in 1..Len(events') /\ i # Len(events') /\ events'[i] = events[i]
      /\ \A i \in 1..Len(events') : i = Len(events') \/ i \in 1..Len(events)
    BY <1>0, LongerIs
<1> DEFINE n == Len(events')
<1> HIDE DEF n
<1>2. /\ n \in 1..n /\ events'[n] = m /\ DOMAIN events' = 1..n
      /\ \A i \in 1..Len(events) : i \in 1..n /\ i # n /\ events'[i] = events[i]
      /\ \A i \in 1..n : i = n \/ i \in 1..Len(events)
    BY <1>0, <1>1 DEF n
<1>3. SentOnce'
    <2>1. ASSUME NEW i \in 1..n, NEW j \in 1..n,
                 events'[i].is = "query", events'[j].is = "query", events'[i].id = events'[j].id
          PROVE  i = j
        <3>1. CASE i \in 1..Len(events) /\ j \in 1..Len(events)
            BY <1>2, <2>1, <3>1 DEF SentOnce
        <3>2. CASE i = n /\ j \in 1..Len(events)
            BY <1>2, <2>1, <3>2 DEF SentOnce
        <3>3. CASE j = n /\ i \in 1..Len(events)
            BY <1>2, <2>1, <3>3 DEF SentOnce
        <3> QED BY <1>2, <3>1, <3>2, <3>3
    <2>2. \A i \in 1..n : events'[i].is = "query" => events'[i].id \in asked'
        BY <1>2 DEF SentOnce
    <2> QED BY <2>1, <2>2 DEF SentOnce, n
<1>4. ASSUME NEW r \in Requests PROVE Taken(r)' <=> Taken(r)
    <2>1. CASE m.is # "query" \/ m.id # r
        <3>1. InTransit(r)' <=> InTransit(r)
            BY <1>0, <1>2, <2>1 DEF InTransit
        <3> QED BY <2>1, <3>1 DEF Taken
    <2>2. CASE m.is = "query" /\ m.id = r
        <3>1. InTransit(r)'
            BY <1>2, <2>2 DEF InTransit
        <3> QED BY <2>2, <3>1 DEF Taken
    <2> QED BY <2>1, <2>2
<1> QED BY <1>3, <1>4

\* The editor sends every query once.
LEMMA EditorAsks ==
    ASSUME ServerTyped, Editor
    PROVE  \E m : /\ Longer(events', events, m)
                  /\ \/ m.is # "query" /\ UNCHANGED asked
                     \/ m.is = "query" /\ m.id \notin asked /\ asked' = asked \cup {m.id}
<1> DEFINE Asked(m) == \/ m.is # "query" /\ UNCHANGED asked
                       \/ m.is = "query" /\ m.id \notin asked /\ asked' = asked \cup {m.id}
<1>1. ASSUME NEW m, Send(m), Asked(m) PROVE \E x : Longer(events', events, x) /\ Asked(x)
    <2>1. Longer(events', events, m)
        BY <1>1, EventsAppend DEF Send, ServerTyped
    <2> QED BY <1>1, <2>1
<1>2. ASSUME NEW u \in Uris, SendOpen(u) PROVE \E m : Send(m) /\ Asked(m)
    <2> DEFINE m == [is |-> "open", uri |-> u, version |-> 1]
    <2>1. Send(m) /\ Asked(m)
        BY <1>2 DEF SendOpen
    <2> QED BY <2>1
<1>3. ASSUME NEW u \in Uris, SendChange(u) PROVE \E m : Send(m) /\ Asked(m)
    <2>1. PICK version \in {editor[u], editor[u] + 1} :
                Send([is |-> "change", uri |-> u, version |-> version])
        BY <1>3 DEF SendChange
    <2> DEFINE m == [is |-> "change", uri |-> u, version |-> version]
    <2>2. Send(m) /\ Asked(m)
        BY <1>3, <2>1 DEF SendChange
    <2> QED BY <2>2
<1>4. ASSUME NEW u \in Uris, SendClose(u) PROVE \E m : Send(m) /\ Asked(m)
    <2> DEFINE m == [is |-> "close", uri |-> u]
    <2>1. Send(m) /\ Asked(m)
        BY <1>4 DEF SendClose
    <2> QED BY <2>1
<1>5. ASSUME NEW r \in Requests, NEW k \in Kinds, NEW u \in Uris, SendQuery(r, k, u)
      PROVE  \E m : Send(m) /\ Asked(m)
    <2>1. PICK p \in IF k = "call" THEN 0..generation ELSE {0} :
                Send([is |-> "query", id |-> r, kind |-> k, uri |-> u, prepared |-> p])
        BY <1>5 DEF SendQuery
    <2> DEFINE m == [is |-> "query", id |-> r, kind |-> k, uri |-> u, prepared |-> p]
    <2>2. Send(m) /\ Asked(m)
        BY <1>5, <2>1 DEF SendQuery
    <2> QED BY <2>2
<1>6. ASSUME NEW r \in Requests, SendCancel(r) PROVE \E m : Send(m) /\ Asked(m)
    <2> DEFINE m == [is |-> "cancel", id |-> r]
    <2>1. Send(m) /\ Asked(m)
        BY <1>6 DEF SendCancel
    <2> QED BY <2>1
<1>7. ASSUME NEW what \in {"workspace", "shutdown", "exit", "end"}, SendOther(what)
      PROVE  \E m : Send(m) /\ Asked(m)
    <2> DEFINE m == [is |-> what]
    <2>1. Send(m) /\ Asked(m)
        BY <1>7 DEF SendOther
    <2> QED BY <2>1
<1>8. PICK m : Send(m) /\ Asked(m)
    BY <1>2, <1>3, <1>4, <1>5, <1>6, <1>7 DEF Editor
<1> HIDE DEF Asked
<1>9. PICK x : Longer(events', events, x) /\ Asked(x)
    BY <1>1, <1>8
<1> QED BY <1>9 DEF Asked

\* The queries in a queue.
HasQuery(q, r) == \E i \in 1..Len(q) : q[i].method = "query" /\ q[i].id = r

\* Queued, for any queue.
LEMMA QueuedIs ==
    ASSUME NEW r
    PROVE  (Queued(r) <=> HasQuery(serverPending, r)) /\ (Queued(r)' <=> HasQuery(serverPending', r))
  BY DEF Queued, HasQuery

\* A job that is no query leaves those of the queue.
LEMMA QueriesKept ==
    ASSUME NEW q \in Seq(Jobs), NEW job \in Jobs, job.method # "query", NEW r
    PROVE  HasQuery(QueueJob(q, job), r) <=> HasQuery(q, r)
<1> DEFINE Q == QueueJob(q, job)
<1>1. EndsWith(Q, q, job)
    BY QueueJobEntries
<1> HIDE DEF Q
<1>2. /\ Len(Q) \in Nat \ {0} /\ Same(Q[Len(Q)], job)
      /\ \A i \in 1..(Len(Q) - 1) : \E k \in 1..Len(q) : Q[i] = q[k]
      /\ \A k \in 1..Len(q) : q[k].method = "query" => \E i \in 1..(Len(Q) - 1) : Q[i] = q[k]
    BY <1>1 DEF EndsWith
<1>3. /\ \A i \in 1..Len(Q) : i = Len(Q) \/ i \in 1..(Len(Q) - 1)
      /\ \A i \in 1..(Len(Q) - 1) : i \in 1..Len(Q)
    BY <1>2
<1>4. Q[Len(Q)].method # "query"
    BY <1>2 DEF Same
<1>5. ASSUME HasQuery(Q, r) PROVE HasQuery(q, r)
    <2>1. PICK i \in 1..Len(Q) : Q[i].method = "query" /\ Q[i].id = r
        BY <1>5 DEF HasQuery
    <2>2. i \in 1..(Len(Q) - 1)
        BY <1>3, <1>4, <2>1
    <2>3. PICK k \in 1..Len(q) : Q[i] = q[k]
        BY <1>2, <2>2
    <2> QED BY <2>1, <2>3 DEF HasQuery
<1>6. ASSUME HasQuery(q, r) PROVE HasQuery(Q, r)
    <2>1. PICK k \in 1..Len(q) : q[k].method = "query" /\ q[k].id = r
        BY <1>6 DEF HasQuery
    <2>2. PICK i \in 1..(Len(Q) - 1) : Q[i] = q[k]
        BY <1>2, <2>1
    <2> QED BY <1>3, <2>1, <2>2 DEF HasQuery
<1> QED BY <1>5, <1>6 DEF Q

\* Neither does the removal of a last job that is no query.
LEMMA QueriesInFront ==
    ASSUME NEW q \in Seq(Jobs), q # <<>>, Last(q).method # "query", NEW r
    PROVE  HasQuery(Front(q), r) <=> HasQuery(q, r)
<1>1. Len(q) \in Nat \ {0}
    OBVIOUS
<1>2. /\ Len(Front(q)) = Len(q) - 1 /\ \A n \in 1..(Len(q) - 1) : Front(q)[n] = q[n]
      /\ q[Len(q)].method # "query"
    BY FrontIs
<1>3. /\ \A i \in 1..Len(q) : i = Len(q) \/ i \in 1..(Len(q) - 1)
      /\ \A i \in 1..(Len(q) - 1) : i \in 1..Len(q)
    BY <1>1
<1> QED BY <1>2, <1>3 DEF HasQuery

\* A query that is added is one more.
LEMMA QueryAdded ==
    ASSUME NEW q \in Seq(Jobs), NEW job \in Queries, NEW r
    PROVE  HasQuery(Append(q, job), r) <=> HasQuery(q, r) \/ job.id = r
<1> DEFINE Q == Append(q, job)
<1>0. job \in Jobs /\ job.method = "query"
    BY DEF Jobs, Queries
<1>1. /\ Len(q) \in Nat /\ Len(Q) = Len(q) + 1 /\ Q[Len(q) + 1] = job
      /\ \A i \in 1..Len(q) : Q[i] = q[i]
    BY <1>0, AppendIs
<1>2. /\ Len(q) + 1 \in 1..Len(Q)
      /\ \A i \in 1..Len(Q) : i = Len(q) + 1 \/ i \in 1..Len(q)
      /\ \A i \in 1..Len(q) : i \in 1..Len(Q)
    BY <1>1
<1> HIDE DEF Q
<1>3. HasQuery(Q, r) <=> HasQuery(q, r) \/ job.id = r
    BY <1>0, <1>1, <1>2 DEF HasQuery
<1> QED BY <1>3 DEF Q

\* The withdrawn query goes, and no other one.
LEMMA QueryWithdrawn ==
    ASSUME NEW q \in Seq(Jobs), Orderly(q), NEW r, NEW x
    PROVE  HasQuery(Withdraw(q, x), r) <=> HasQuery(q, r) /\ r # x
<1> DEFINE Q == Withdraw(q, x)
<1>1. /\ \A i \in 1..Len(Q) : \E k \in 1..Len(q) : Same(Q[i], q[k]) /\ ~Withdrawn(q[k], x)
      /\ \A k \in 1..Len(q) : q[k].method = "query" /\ ~Withdrawn(q[k], x) =>
            \E i \in 1..Len(Q) : Same(Q[i], q[k])
    BY WithdrawEntries
<1> HIDE DEF Q
<1>2. ASSUME HasQuery(Q, r) PROVE HasQuery(q, r) /\ r # x
    <2>1. PICK i \in 1..Len(Q) : Q[i].method = "query" /\ Q[i].id = r
        BY <1>2 DEF HasQuery
    <2>2. PICK k \in 1..Len(q) : Same(Q[i], q[k]) /\ ~Withdrawn(q[k], x)
        BY <1>1
    <2>3. q[k].method = "query" /\ q[k].id = r
        BY <2>1, <2>2 DEF Same
    <2> QED BY <2>2, <2>3 DEF HasQuery, Withdrawn
<1>3. ASSUME HasQuery(q, r), r # x PROVE HasQuery(Q, r)
    <2>1. PICK k \in 1..Len(q) : q[k].method = "query" /\ q[k].id = r
        BY <1>3 DEF HasQuery
    <2>2. PICK i \in 1..Len(Q) : Same(Q[i], q[k])
        BY <1>1, <1>3, <2>1 DEF Withdrawn
    <2>3. Q[i].method = "query" /\ Q[i].id = r
        BY <2>1, <2>2 DEF Same
    <2> QED BY <2>3 DEF HasQuery
<1> QED BY <1>2, <1>3 DEF Q

\* The queue and the active job behind it.
LEMMA JoinedIs ==
    ASSUME ServerTyped
    PROVE  LET w == serverPending \o active
               n == Len(serverPending)
           IN  /\ DOMAIN w = 1..(n + Len(active)) /\ \A i \in 1..n : w[i] = serverPending[i]
               /\ active # <<>> => Len(active) = 1 /\ w[n + 1] = active[1]
               /\ active = <<>> => Len(active) = 0
<1> DEFINE n == Len(serverPending)
           w == serverPending \o active
<1>1. serverPending \in Seq(Jobs) /\ active \in Seq(Jobs) /\ n \in Nat
    BY DEF ServerTyped
<1>2. /\ DOMAIN w = 1..(n + Len(active)) /\ \A i \in 1..n : w[i] = serverPending[i]
      /\ active # <<>> => Len(active) = 1 /\ w[n + 1] = active[1]
      /\ active = <<>> => Len(active) = 0
    <2>1. w \in Seq(Jobs) /\ Len(w) = n + Len(active) /\ Len(active) \in Nat
        BY <1>1
    <2>2. \A i \in 1..n : w[i] = serverPending[i]
        BY <1>1
    <2>3. DOMAIN w = 1..(n + Len(active))
        <3>1. DOMAIN w = 1..Len(w)
            BY <2>1, LenProperties
        <3> QED BY <2>1, <3>1
    <2>4. ASSUME active # <<>> PROVE Len(active) = 1 /\ w[n + 1] = active[1]
        <3>1. Len(active) = 1
            BY <2>4, ActiveJob
        <3>2. n + 1 \in 1..(n + Len(active)) /\ ~(n + 1 <= n) /\ (n + 1) - n = 1
            BY <1>1, <3>1
        <3>3. w[n + 1] = active[(n + 1) - n]
            BY <1>1, <3>2, ConcatProperties
        <3> QED BY <3>1, <3>2, <3>3
    <2> QED BY <2>1, <2>2, <2>3, <2>4
<1> QED BY <1>2

\* Where a cancellation finds a query.
LEMMA AskingIs ==
    ASSUME ServerTyped, Ordered, NEW r
    PROVE  /\ Queued(r) \/ Live(r) => \E i : Asking(r, serverPending \o active) = {i}
           /\ ~Queued(r) /\ ~Live(r) => Asking(r, serverPending \o active) = {}
<1> DEFINE n == Len(serverPending)
           w == serverPending \o active
           Here(i) == i \in 1..n /\ serverPending[i].method = "query" /\ serverPending[i].id = r
           There(i) == i = n + 1 /\ Live(r)
<1>1. /\ serverPending \in Seq(Jobs) /\ active \in Seq(Jobs) /\ n \in Nat /\ Orderly(serverPending)
      /\ \A i \in 1..n : serverPending[i] \in Jobs
    BY DEF ServerTyped, Ordered
<1>2. /\ DOMAIN w = 1..(n + Len(active)) /\ \A i \in 1..n : w[i] = serverPending[i]
      /\ active # <<>> => Len(active) = 1 /\ w[n + 1] = active[1]
      /\ active = <<>> => Len(active) = 0
    BY JoinedIs
<1> HIDE DEF w, n
<1>3. ASSUME NEW i PROVE i \in Asking(r, w) <=> Here(i) \/ There(i)
    <2>1. CASE i \in 1..n
        <3>1. i \in DOMAIN w /\ w[i] = serverPending[i] /\ i # n + 1
            BY <1>1, <1>2, <2>1
        <3>2. w[i].method = "query" => w[i].cancelled = FALSE
            BY <1>1, <2>1, <3>1 DEF Orderly, n
        <3> QED BY <2>1, <3>1, <3>2 DEF Asking, IsQuery
    <2>2. CASE i = n + 1
        <3>1. i \notin 1..n
            BY <1>1, <2>2
        <3>2. CASE active = <<>>
            <4>1. i \notin DOMAIN w
                BY <1>1, <1>2, <2>2, <3>1, <3>2
            <4> QED BY <2>2, <3>1, <3>2, <4>1 DEF Asking, Live, Running
        <3>3. CASE active # <<>>
            <4>1. i \in DOMAIN w /\ w[i] = active[1] /\ active[1] \in Jobs
                BY <1>1, <1>2, <2>2, <3>3, ActiveJob
            <4>2. active[1].method = "query" => active[1].cancelled \in BOOLEAN
                BY <4>1, JobKinds DEF Queries
            <4>3. i \in Asking(r, w) <=> active[1].method = "query" /\ active[1].id = r /\ ~active[1].cancelled
                BY <4>1 DEF Asking, IsQuery
            <4>4. \A x \in BOOLEAN : ~x <=> x # TRUE
                OBVIOUS
            <4>5. i \in Asking(r, w) <=> Live(r)
                BY <3>3, <4>2, <4>3, <4>4, Zenon DEF Live, Running
            <4>6. ~Here(i) /\ (There(i) <=> Live(r))
                BY <2>2, <3>1
            <4> HIDE DEF Here, There
            <4> QED BY <4>5, <4>6
        <3> QED BY <3>2, <3>3
    <2>3. CASE i \notin 1..n /\ i # n + 1
        <3> DEFINE m == Len(active)
        <3>0. m = 0 \/ m = 1
            BY <1>2
        <3>1. DOMAIN w = 1..(n + m)
            BY <1>2
        <3> HIDE DEF m
        <3>2. i \notin 1..(n + m)
            BY <1>1, <2>3, <3>0
        <3>3. i \notin DOMAIN w
            BY <3>1, <3>2
        <3> QED BY <2>3, <3>3 DEF Asking
    <2> QED BY <2>1, <2>2, <2>3
<1>4. Queued(r) <=> \E i : Here(i)
    BY DEF Queued, n
<1>5. \A i, k : Here(i) /\ Here(k) => i = k
    <2>1. ASSUME NEW i, NEW k, Here(i), Here(k), i # k PROVE FALSE
        <3>1. i < k \/ k < i
            BY <1>1, <2>1
        <3> QED BY <1>1, <2>1, <3>1 DEF Orderly, Before, n
    <2> QED BY <2>1
<1>6. \A i : Here(i) => ~Live(r)
    BY DEF Live, Running, Ordered, Before, n
<1> HIDE DEF Here
<1>7. ASSUME NEW k, Here(k) \/ There(k) PROVE Asking(r, w) = {k}
    <2>1. \A i : i \in Asking(r, w) <=> i = k
        BY <1>3, <1>5, <1>6, <1>7
    <2> QED BY <2>1
<1>8. Queued(r) \/ Live(r) => \E k : Here(k) \/ There(k)
    BY <1>4
<1>9. ~Queued(r) /\ ~Live(r) => Asking(r, w) = {}
    BY <1>3, <1>4
<1> QED BY <1>7, <1>8, <1>9 DEF w

\* An answer is one more for its query.
LEMMA SettledOnce ==
    ASSUME ServerTyped, NEW x \in Requests, NEW a \in Answers,
           answers' = [answers EXCEPT ![x] = Append(@, a)]
    PROVE  /\ Len(answers'[x]) = Len(answers[x]) + 1
           /\ \A r \in Requests : r # x => answers'[r] = answers[r]
<1>1. answers \in [Requests -> Seq(Answers)]
    BY DEF ServerTyped
<1>2. answers'[x] = Append(answers[x], a) /\ \A r \in Requests : r # x => answers'[r] = answers[r]
    BY <1>1
<1>3. answers[x] \in Seq(Answers)
    BY <1>1
<1> QED BY <1>2, <1>3, AppendIs

\* What leaves a query where it was.
LEMMA OnceFrame ==
    ASSUME NEW r, OncePerQuery(r), Taken(r)' <=> Taken(r), answers'[r] = answers[r],
           Queued(r)' <=> Queued(r), Live(r)' <=> Live(r), Running(r)' => Running(r)
    PROVE  OncePerQuery(r)'
<1>1. Len(answers'[r]) = Len(answers[r])
    OBVIOUS
<1> QED BY <1>1, Zenon DEF OncePerQuery

\* What answers a query that waited.
LEMMA OnceAnswered ==
    ASSUME NEW r, OncePerQuery(r), Queued(r) \/ Live(r), Taken(r)' <=> Taken(r),
           Len(answers'[r]) = Len(answers[r]) + 1, ~Queued(r)', ~Live(r)'
    PROVE  OncePerQuery(r)'
<1>1. Live(r) => Running(r)
    BY DEF Live
<1>2. Taken(r) /\ Len(answers[r]) = 0
    BY <1>1, Zenon DEF OncePerQuery
<1>3. Len(answers'[r]) = 1
    BY <1>2
<1> QED BY <1>2, <1>3, Zenon DEF OncePerQuery

\* Nothing but the mark of the active job changes: of the queries in ids.
LEMMA MarkedLive ==
    ASSUME ServerTyped, NEW ids, active' = MarkCancelled(active, ids), NEW r
    PROVE  /\ Running(r)' <=> Running(r)
           /\ Live(r)' <=> Live(r) /\ r \notin ids
<1>1. /\ SameActive
      /\ active # <<>> /\ active[1].method = "query" =>
           active'[1].cancelled = IF active[1].id \in ids THEN TRUE ELSE active[1].cancelled
    BY MarkedActive
<1>2. Running(r)' <=> Running(r)
    BY <1>1 DEF Running, SameActive
<1>3. ASSUME Running(r)
      PROVE  active'[1].cancelled = IF r \in ids THEN TRUE ELSE active[1].cancelled
    BY <1>1, <1>3 DEF Running
<1>4. CASE r \in ids
    BY <1>2, <1>3, <1>4, Zenon DEF Live
<1>5. CASE r \notin ids
    BY <1>2, <1>3, <1>5, Zenon DEF Live
<1> QED BY <1>4, <1>5

\* An active job that stays where it was is as live as before.
LEMMA LiveFrame ==
    ASSUME NEW r, UNCHANGED active
    PROVE  (Running(r)' <=> Running(r)) /\ (Live(r)' <=> Live(r))
  BY DEF Running, Live

\* The end of a job answers its query unless that was cancelled.
LEMMA OnceCompleting ==
    ASSUME ServerStep, Completing, NEW r \in Requests
    PROVE  OncePerQuery(r)'
<1>0. ServerTyped /\ Ordered /\ AsksOnce /\ Closed /\ OncePerQuery(r) /\ SentOnce
    BY DEF ServerStep, ServerInv, AsksOnce
<1>1. /\ Takes /\ events[1].is = "reply" /\ active # <<>> /\ active' = <<>>
      /\ UNCHANGED <<serverPending, asked>>
    BY <1>0, CompletingTakes DEF sending
<1>2. Taken(r)' <=> Taken(r)
    BY <1>0, <1>1, TransitShorter
<1>3. (Queued(r)' <=> Queued(r)) /\ ~Running(r)' /\ ~Live(r)'
    BY <1>1 DEF Queued, Running, Live
<1>4. active[1] \in Jobs
    BY <1>0, <1>1, ActiveJob
<1>5. ASSUME ~Live(r), UNCHANGED answers PROVE OncePerQuery(r)'
    BY <1>0, <1>2, <1>3, <1>5, OnceFrame
<1>6. CASE CompleteStopped
    <2>1. UNCHANGED answers /\ shutdown
        BY <1>6 DEF CompleteStopped
    <2>2. ~Live(r)
        BY <1>0, <2>1 DEF Closed, Live, Running
    <2> QED BY <1>5, <2>1, <2>2
<1>7. CASE CompleteUpdate
    <2>1. UNCHANGED answers /\ active[1].method # "query"
        BY <1>7 DEF CompleteUpdate, IsQuery, Job
    <2>2. ~Live(r)
        BY <2>1 DEF Live, Running
    <2> QED BY <1>5, <2>1, <2>2
<1>8. CASE CompleteQuery
    <2>1. /\ active[1].method = "query"
          /\ IF active[1].cancelled THEN UNCHANGED answers
             ELSE Settle(active[1].id, IF Modified THEN "modified" ELSE "result")
        BY <1>8 DEF CompleteQuery, IsQuery, Job
    <2>2. active[1] \in Queries
        BY <1>4, <2>1, JobKinds
    <2>3. active[1].id \in Requests /\ active[1].cancelled \in BOOLEAN
        BY <2>2 DEF Queries
    <2>4. CASE active[1].cancelled
        <3>1. UNCHANGED answers
            BY <2>1, <2>4
        <3>2. active[1].cancelled = TRUE
            BY <2>3, <2>4, Zenon
        <3>3. ~Live(r)
            BY <3>2 DEF Live
        <3> QED BY <1>5, <3>1, <3>3
    <2>5. CASE ~active[1].cancelled
        <3>1. \E a \in Answers : answers' = [answers EXCEPT ![active[1].id] = Append(@, a)]
            <4>1. Settle(active[1].id, IF Modified THEN "modified" ELSE "result")
                BY <2>1, <2>5
            <4>2. (IF Modified THEN "modified" ELSE "result") \in Answers
                BY DEF Answers
            <4> QED BY <4>1, <4>2 DEF Settle
        <3>2. /\ Len(answers'[active[1].id]) = Len(answers[active[1].id]) + 1
              /\ r # active[1].id => answers'[r] = answers[r]
            BY <1>0, <2>3, <3>1, SettledOnce
        <3>3. CASE r = active[1].id
            <4>1. active[1].cancelled # TRUE
                BY <2>5, Zenon
            <4>2. Live(r)
                BY <1>1, <2>1, <3>3, <4>1 DEF Live, Running
            <4>3. ~Queued(r)
                BY <1>0, <1>1, <2>1, <3>3 DEF Ordered, Before, Queued
            <4> QED BY <1>0, <1>2, <1>3, <3>2, <3>3, <4>2, <4>3, OnceAnswered
        <3>4. CASE r # active[1].id
            <4>1. ~Live(r)
                BY <3>4 DEF Live, Running
            <4> QED BY <1>0, <1>2, <1>3, <3>2, <3>4, <4>1, OnceFrame
        <3> QED BY <3>3, <3>4
    <2> QED BY <2>4, <2>5
<1> QED BY <1>6, <1>7, <1>8 DEF Completing

\* A query that is taken: it is answered at once or queued.
LEMMA OnceTaken ==
    ASSUME ServerStep, AskNothing \/ AskStale \/ Ask \/ AskTooLate, NEW r \in Requests
    PROVE  OncePerQuery(r)'
<1>0. ServerInv /\ ServerTyped /\ AsksOnce /\ OncePerQuery(r) /\ SentOnce /\ serverPending \in Seq(Jobs)
    BY DEF ServerStep, ServerInv, AsksOnce, ServerTyped
<1> DEFINE x == events[1].id
<1>1. /\ Takes /\ UNCHANGED <<asked, active>>
    <2>1. Takes /\ UNCHANGED asked
        BY <1>0, HandlingTakes DEF Handling, sending
    <2>2. UNCHANGED active
        BY DEF AskNothing, AskStale, Ask, AskTooLate
    <2> QED BY <2>1, <2>2
<1>2. events[1].is = "query" /\ x \in Requests
    BY <1>1 DEF Takes, Documented, AskNothing, AskStale, Ask, AskTooLate, Serve, Handle
<1>3. IF x = r THEN ~Taken(r) /\ Taken(r)' ELSE Taken(r)' <=> Taken(r)
    BY <1>0, <1>1, <1>2, TransitShorter
<1>4. (Running(r)' <=> Running(r)) /\ (Live(r)' <=> Live(r))
    BY <1>1, LiveFrame
<1>5. ASSUME x = r
      PROVE  ~Queued(r) /\ ~Live(r) /\ ~Live(r)' /\ Len(answers[r]) = 0
    <2>1. ~Queued(r) /\ ~Running(r)
        BY <1>0, <1>1, <1>2, <1>5, NotYetAsked
    <2>2. ~Live(r)
        BY <2>1 DEF Live
    <2>3. Len(answers[r]) = 0
        BY <1>0, <1>3, <1>5, Zenon DEF OncePerQuery
    <2> QED BY <1>4, <2>1, <2>2, <2>3
<1> HIDE DEF x
<1>6. CASE AskNothing \/ AskStale \/ AskTooLate
    <2>1. UNCHANGED serverPending
        BY <1>6 DEF AskNothing, AskStale, AskTooLate
    <2>2. \E a \in Answers : answers' = [answers EXCEPT ![x] = Append(@, a)]
        BY <1>1, <1>6 DEF AskNothing, AskStale, AskTooLate, Settle, Answers, Takes, x
    <2>3. Len(answers'[x]) = Len(answers[x]) + 1 /\ (r # x => answers'[r] = answers[r])
        BY <1>0, <1>2, <2>2, SettledOnce
    <2>4. Queued(r)' <=> Queued(r)
        BY <2>1 DEF Queued
    <2>5. CASE x = r
        <3>0. Len(answers'[r]) = Len(answers[r]) + 1 /\ Len(answers[r]) = 0
            BY <1>5, <2>3, <2>5
        <3>1. Len(answers'[r]) = 1
            BY <3>0
        <3> QED BY <1>3, <1>5, <2>4, <2>5, <3>1, Zenon DEF OncePerQuery
    <2>6. CASE x # r
        BY <1>0, <1>3, <1>4, <2>3, <2>4, <2>6, OnceFrame
    <2> QED BY <2>5, <2>6
<1>7. CASE Ask
    <2>1. PICK job \in Queries : serverPending' = Append(serverPending, job) /\ job.id = x /\ UNCHANGED answers
        BY <1>0, <1>7, Asks DEF x
    <2>2. Queued(r)' <=> Queued(r) \/ x = r
        BY <1>0, <2>1, QueryAdded, QueuedIs
    <2>3. CASE x = r
        <3>1. Len(answers'[r]) = 0
            BY <1>5, <2>1, <2>3
        <3> QED BY <1>3, <2>2, <2>3, <3>1, Zenon DEF OncePerQuery
    <2>4. CASE x # r
        BY <1>0, <1>3, <1>4, <2>1, <2>2, <2>4, OnceFrame
    <2> QED BY <2>3, <2>4
<1> QED BY <1>6, <1>7

\* A cancellation answers the query it names, a shutdown all that wait.
LEMMA OnceCancelled ==
    ASSUME ServerStep, CancelRequest \/ Shutdown, NEW r \in Requests
    PROVE  OncePerQuery(r)'
<1>0. /\ ServerTyped /\ Ordered /\ AsksOnce /\ OncePerQuery(r) /\ SentOnce
      /\ serverPending \in Seq(Jobs) /\ Orderly(serverPending)
      /\ answers \in [Requests -> Seq(Answers)]
    BY DEF ServerStep, ServerInv, AsksOnce, ServerTyped, Ordered
<1>1. Takes /\ UNCHANGED asked /\ events[1].is # "query"
    <2>1. Takes /\ UNCHANGED asked
        BY <1>0, HandlingTakes DEF Handling, sending
    <2> QED BY <2>1 DEF CancelRequest, Shutdown, Serve, Handle, Takes
<1>2. Taken(r)' <=> Taken(r)
    BY <1>0, <1>1, TransitShorter
<1>3. Asking(r, serverPending \o active) = {} <=> ~Queued(r) /\ ~Live(r)
    <2>1. \A i : {i} # {}
        OBVIOUS
    <2> QED BY <1>0, <2>1, AskingIs
<1>4. ASSUME NEW a \in Answers, ~Queued(r)', ~Live(r)', Running(r)' => Running(r),
             answers'[r] = IF Asking(r, serverPending \o active) = {} THEN answers[r]
                           ELSE Append(answers[r], a)
      PROVE  OncePerQuery(r)'
    <2>1. CASE Queued(r) \/ Live(r)
        <3>1. answers'[r] = Append(answers[r], a)
            BY <1>3, <1>4, <2>1
        <3>2. Len(answers'[r]) = Len(answers[r]) + 1
            BY <1>0, <3>1, AppendIs
        <3> QED BY <1>0, <1>2, <1>4, <2>1, <3>2, OnceAnswered
    <2>2. CASE ~Queued(r) /\ ~Live(r)
        <3>1. answers'[r] = answers[r]
            BY <1>3, <1>4, <2>2
        <3> QED BY <1>0, <1>2, <1>4, <2>2, <3>1, OnceFrame
    <2> QED BY <2>1, <2>2
<1>5. CASE CancelRequest
    <2>1. PICK x \in Requests :
              /\ serverPending' = Withdraw(serverPending, x)
              /\ active' = MarkCancelled(active, {x})
              /\ answers' = IF Asking(x, serverPending \o active) = {} THEN answers
                            ELSE [answers EXCEPT ![x] = Append(@, "cancelled")]
        BY <1>0, <1>5, Cancels
    <2>2. Queued(r)' <=> Queued(r) /\ r # x
        BY <1>0, <2>1, QueryWithdrawn, QueuedIs
    <2>3. /\ Running(r)' <=> Running(r)
          /\ Live(r)' <=> Live(r) /\ r # x
        <3>1. Live(r)' <=> Live(r) /\ r \notin {x}
            BY <1>0, <2>1, MarkedLive
        <3>2. Running(r)' <=> Running(r)
            BY <1>0, <2>1, MarkedLive
        <3> QED BY <3>1, <3>2
    <2>4. CASE r = x
        <3>1. answers'[r] = IF Asking(r, serverPending \o active) = {} THEN answers[r]
                            ELSE Append(answers[r], "cancelled")
            BY <1>0, <2>1, <2>4
        <3>2. "cancelled" \in Answers
            BY DEF Answers
        <3> QED BY <1>4, <2>2, <2>3, <2>4, <3>1, <3>2
    <2>5. CASE r # x
        <3>1. answers'[r] = answers[r]
            BY <1>0, <2>1, <2>5
        <3> QED BY <1>0, <1>2, <2>2, <2>3, <2>5, <3>1, OnceFrame
    <2> QED BY <2>4, <2>5
<1>6. CASE Shutdown
    <2>1. /\ serverPending' = <<>> /\ active' = MarkCancelled(active, Requests)
          /\ answers'[r] = IF Asking(r, serverPending \o active) = {} THEN answers[r]
                           ELSE Append(answers[r], "closing")
        BY <1>6 DEF Shutdown
    <2>2. ~Queued(r)'
        <3>1. Len(<<>>) = 0
            OBVIOUS
        <3> QED BY <2>1, <3>1 DEF Queued
    <2>3. (Running(r)' <=> Running(r)) /\ ~Live(r)'
        BY <1>0, <2>1, MarkedLive
    <2>4. "closing" \in Answers
        BY DEF Answers
    <2> QED BY <1>4, <2>1, <2>2, <2>3, <2>4
<1> QED BY <1>5, <1>6

\* The messages that are about no query: what they queue is none either.
LEMMA QueriesStay ==
    ASSUME ServerStep, NEW r,
           \/ DidOpen \/ DidChange \/ DidClose \/ WorkspaceChanged
           \/ Ignore \/ Exit("exit") \/ Exit("end")
    PROVE  (Queued(r)' <=> Queued(r)) /\ UNCHANGED <<active, answers>>
<1>0. ServerTyped /\ serverPending \in Seq(Jobs)
    BY DEF ServerStep, ServerInv, ServerTyped
<1>1. CASE DidOpen \/ DidChange
    <2>1. PICK job \in Updates :
             serverPending' = QueueJob(serverPending, job) /\ UNCHANGED <<active, answers>>
        BY <1>0, <1>1, Editing
    <2>2. job \in Jobs /\ job.method # "query"
        BY DEF Jobs, Updates
    <2>3. HasQuery(serverPending', r) <=> HasQuery(serverPending, r)
        BY <1>0, <2>1, <2>2, QueriesKept
    <2> QED BY <2>1, <2>3, QueuedIs
<1>2. CASE DidClose
    <2>1. PICK job \in Closes :
             serverPending' = Append(serverPending, job) /\ UNCHANGED <<active, answers>>
        BY <1>0, <1>2, ClosesDocument
    <2>2. job \in Jobs /\ job.method # "query" /\ job.method # "update"
        BY DEF Jobs, Closes
    <2>3. serverPending' = QueueJob(serverPending, job)
        BY <2>1, <2>2, OthersAppended
    <2>4. HasQuery(serverPending', r) <=> HasQuery(serverPending, r)
        BY <1>0, <2>2, <2>3, QueriesKept
    <2> QED BY <2>1, <2>4, QueuedIs
<1>3. CASE WorkspaceChanged
    <2>1. PICK job \in Workspaces, q \in Seq(Jobs) :
              /\ serverPending' = Append(q, job)
              /\ \/ q = serverPending
                 \/ /\ q = Front(serverPending) /\ serverPending # <<>>
                    /\ Last(serverPending).method = "workspace"
              /\ UNCHANGED <<active, answers>>
        BY <1>0, <1>3, Reworking
    <2>2. job \in Jobs /\ job.method # "query" /\ job.method # "update"
        BY DEF Jobs, Workspaces
    <2>3. serverPending' = QueueJob(q, job)
        BY <2>1, <2>2, OthersAppended
    <2>4. HasQuery(serverPending', r) <=> HasQuery(q, r)
        BY <2>1, <2>2, <2>3, QueriesKept
    <2>5. HasQuery(q, r) <=> HasQuery(serverPending, r)
        BY <1>0, <2>1, QueriesInFront
    <2> QED BY <2>1, <2>4, <2>5, QueuedIs
<1>4. CASE Ignore \/ Exit("exit") \/ Exit("end")
    <2>1. UNCHANGED <<serverPending, active, answers>>
        BY <1>4 DEF Ignore, Exit, scheduler
    <2> QED BY <2>1 DEF Queued
<1> QED BY <1>1, <1>2, <1>3, <1>4

\* A query that is dispatched is running instead of queued.
LEMMA OnceDispatched ==
    ASSUME ServerStep, Dispatching, UNCHANGED <<events, asked, answers>>, NEW r \in Requests
    PROVE  OncePerQuery(r)'
<1>0. /\ ServerTyped /\ Ordered /\ OncePerQuery(r) /\ Orderly(serverPending)
      /\ serverPending \in Seq(Jobs)
    BY DEF ServerStep, ServerInv, AsksOnce, ServerTyped, Ordered
<1> DEFINE Q == Tail(serverPending)
           job == serverPending[1]
<1>1. /\ active = <<>> /\ active' = <<job>> /\ serverPending' = Q /\ 1 \in 1..Len(serverPending)
      /\ \A i \in 1..Len(Q) : i + 1 \in 1..Len(serverPending) /\ Q[i] = serverPending[i + 1]
      /\ \A i \in 1..Len(serverPending) :
            i = 1 \/ (i - 1 \in 1..Len(Q) /\ Q[i - 1] = serverPending[i])
      /\ Len(Q) \in Nat
    <2>1. active = <<>> /\ serverPending # <<>> /\ active' = <<Head(serverPending)>> /\ serverPending' = Q
        BY DEF Dispatching
    <2> QED BY <1>0, <2>1, HeadIs
<1>2. active' # <<>> /\ active'[1] = job
    BY <1>1
<1> HIDE DEF Q
<1>3. Taken(r)' <=> Taken(r)
    BY DEF Taken, InTransit
<1>4. ~Running(r) /\ ~Live(r)
    BY <1>1 DEF Running, Live
<1>5. CASE job.method = "query" /\ job.id = r
    <2>1. Queued(r)
        BY <1>1, <1>5 DEF Queued
    <2>2. Live(r)'
        <3>1. job.cancelled = FALSE
            BY <1>0, <1>1, <1>5 DEF Orderly
        <3> QED BY <1>2, <1>5, <3>1 DEF Live, Running
    <2>3. Len(answers'[r]) = Len(answers[r])
        OBVIOUS
    <2> QED BY <1>0, <1>3, <1>4, <2>1, <2>2, <2>3, Zenon DEF OncePerQuery
<1>6. CASE ~(job.method = "query" /\ job.id = r)
    <2>1. ~Running(r)' /\ ~Live(r)'
        BY <1>2, <1>6 DEF Running, Live
    <2> HIDE DEF job
    <2>2. \A i \in 1..Len(serverPending) :
              i = 1 => ~(serverPending[i].method = "query" /\ serverPending[i].id = r)
        BY <1>6 DEF job
    <2>3. Queued(r)' => Queued(r)
        BY <1>1 DEF Queued
    <2>4. Queued(r) => Queued(r)'
        BY <1>1, <2>2 DEF Queued
    <2> QED BY <1>0, <1>3, <1>4, <2>1, <2>3, <2>4, OnceFrame
<1> QED BY <1>5, <1>6

\* After every step each query is in one place.
LEMMA AsksOnceStep ==
    ASSUME ServerStep
    PROVE  AsksOnce'
<1>0. ServerTyped /\ SentOnce /\ \A r \in Requests : OncePerQuery(r)
    BY DEF ServerStep, ServerInv, AsksOnce
<1>1. ASSUME \A r \in Requests : Taken(r)' <=> Taken(r), UNCHANGED <<serverPending, active, answers>>
      PROVE  \A r \in Requests : OncePerQuery(r)'
    <2>1. ASSUME NEW r \in Requests PROVE OncePerQuery(r)'
        <3>1. Queued(r)' <=> Queued(r)
            BY <1>1 DEF Queued
        <3>2. (Running(r)' <=> Running(r)) /\ (Live(r)' <=> Live(r))
            BY <1>1, LiveFrame
        <3> QED BY <1>0, <1>1, <3>1, <3>2, OnceFrame
    <2> QED BY <2>1
<1>2. CASE Editor
    <2>1. PICK m : /\ Longer(events', events, m)
                   /\ \/ m.is # "query" /\ UNCHANGED asked
                      \/ m.is = "query" /\ m.id \notin asked /\ asked' = asked \cup {m.id}
        BY <1>0, <1>2, EditorAsks
    <2>2. SentOnce' /\ \A r \in Requests : Taken(r)' <=> Taken(r)
        BY <1>0, <2>1, TransitLonger
    <2>3. UNCHANGED <<serverPending, active, answers>>
        BY <1>0, <1>2, EditorSends DEF Sends, scheduler
    <2> QED BY <1>1, <2>2, <2>3 DEF AsksOnce
<1>3. CASE Report
    <2>1. /\ reply # <<>> /\ Longer(events', events, reply[1])
          /\ UNCHANGED <<serverPending, active, answers, asked>>
        BY <1>0, <1>3, ReportAdds DEF scheduler, sending
    <2>2. reply[1].is # "query"
        <3>1. ReplyRight(reply[1])
            BY <2>1, Replied DEF ServerStep
        <3> QED BY <3>1 DEF ReplyRight
    <2>3. SentOnce' /\ \A r \in Requests : Taken(r)' <=> Taken(r)
        BY <1>0, <2>1, <2>2, TransitLonger
    <2> QED BY <1>1, <2>1, <2>3 DEF AsksOnce
<1>4. CASE Handling \/ Completing
    <2>1. Takes /\ UNCHANGED asked
        BY <1>0, <1>4, HandlingTakes, CompletingTakes DEF sending
    <2>2. SentOnce'
        BY <1>0, <2>1, TransitShorter
    <2>3. ASSUME NEW r \in Requests PROVE OncePerQuery(r)'
        <3>1. CASE AskNothing \/ AskStale \/ Ask \/ AskTooLate
            BY <3>1, OnceTaken
        <3>2. CASE CancelRequest \/ Shutdown
            BY <3>2, OnceCancelled
        <3>3. CASE Completing
            BY <3>3, OnceCompleting
        <3>4. CASE \/ DidOpen \/ DidChange \/ DidClose \/ WorkspaceChanged
                   \/ Ignore \/ Exit("exit") \/ Exit("end")
            <4>1. (Queued(r)' <=> Queued(r)) /\ UNCHANGED <<active, answers>>
                BY <3>4, QueriesStay
            <4>2. (Running(r)' <=> Running(r)) /\ (Live(r)' <=> Live(r))
                BY <4>1, LiveFrame
            <4>3. events[1].is # "query"
                BY <2>1, <3>4 DEF DidOpen, DidChange, DidClose, WorkspaceChanged, Ignore, Exit,
                                  Serve, Handle, Takes
            <4>4. Taken(r)' <=> Taken(r)
                BY <1>0, <2>1, <4>3, TransitShorter
            <4> QED BY <1>0, <4>1, <4>2, <4>4, OnceFrame
        <3> QED BY <1>4, <3>1, <3>2, <3>3, <3>4 DEF Handling
    <2> QED BY <2>2, <2>3 DEF AsksOnce
<1>5. CASE EndTurn
    <2>1. (Dispatching \/ Waiting) /\ UNCHANGED <<events, sending, answers>>
        BY <1>5, Ends
    <2>2. SentOnce' /\ (\A r \in Requests : Taken(r)' <=> Taken(r)) /\ UNCHANGED asked
        BY <1>0, <2>1 DEF SentOnce, Taken, InTransit, sending
    <2>3. CASE Waiting
        BY <1>1, <2>1, <2>2, <2>3 DEF AsksOnce, Waiting
    <2>4. CASE Dispatching
        BY <2>1, <2>2, <2>4, OnceDispatched DEF AsksOnce
    <2> QED BY <2>1, <2>3, <2>4
<1>6. CASE Transact \/ Stop \/ UNCHANGED serverVars
    <2>1. UNCHANGED <<events, asked, serverPending, active, answers>>
        BY <1>6 DEF Transact, Stop, serverVars, scheduler, channels, sending
    <2>2. SentOnce' /\ (\A r \in Requests : Taken(r)' <=> Taken(r))
        BY <1>0, <2>1 DEF SentOnce, Taken, InTransit
    <2> QED BY <1>1, <2>1, <2>2 DEF AsksOnce
<1> QED BY <1>2, <1>3, <1>4, <1>5, <1>6, ServerCases

-----------------------------------------------------------------------------
(* The invariant holds.                                                    *)

\* The invariant holds at first.
LEMMA ServerStarts ==
    ASSUME ServerInit
    PROVE  ServerInv
<1> DEFINE opened == [u \in Opened |-> [version |-> 1, text |-> 1]]
           first == Cardinality(Opened)
<1>0. first \in Nat
    BY OpenedAssumption, FS_CardinalityType
<1>1. /\ documents = opened /\ serverPending = <<>> /\ active = <<>>
      /\ generation = first /\ revision = first /\ published = Opened /\ shutdown = FALSE
      /\ events = <<>> /\ jobChannel = <<>> /\ reply = <<>>
      /\ buffers = opened /\ sources = {} /\ current = first
      /\ editor = [u \in Opened |-> 1] /\ asked = {}
      /\ shown = [u \in Uris |-> IF u \in Opened THEN opened ELSE NoView]
      /\ answers = [r \in Requests |-> <<>>]
    BY DEF ServerInit
<1>2. Len(<<>>) = 0 /\ <<>> \in Seq(Jobs) /\ <<>> \in Seq(Answers) /\ \A i \in 1..0 : FALSE
    OBVIOUS
<1>3. opened \in Maps
    <2>1. [version |-> 1, text |-> 1] \in Entries
        BY DEF Entries, DocVersions
    <2>2. opened \in [Opened -> Entries] /\ Opened \in SUBSET Uris
        BY <2>1, OpenedAssumption
    <2> QED BY <2>2 DEF Maps
<1>4. ServerTyped
    <2>1. Sequence(events)
        <3>1. <<>> = [i \in 1..0 |-> <<>>[i]]
            OBVIOUS
        <3> QED BY <1>1, <1>2, <3>1 DEF Sequence
    <2>2. /\ editor = [u \in DOMAIN editor |-> editor[u]]
          /\ \A u \in DOMAIN editor : editor[u] \in DocVersions
        BY <1>1 DEF DocVersions
    <2>3. DOMAIN shown = Uris /\ shown = [u \in Uris |-> shown[u]]
        BY <1>1
    <2>4. answers \in [Requests -> Seq(Answers)]
        BY <1>1, <1>2
    <2>5. /\ serverPending \in Seq(Jobs) /\ active \in Seq(Jobs) /\ Len(active) <= 1
          /\ generation \in Nat /\ current \in Nat /\ sources \subseteq Uris
          /\ \A i \in 1..Len(events) : Documented(events[i])
        BY <1>0, <1>1, <1>2
    <2>6. documents \in Maps /\ buffers \in Maps
        BY <1>1, <1>3
    <2> QED BY <2>1, <2>2, <2>3, <2>4, <2>5, <2>6 DEF ServerTyped
<1>5. Flight
    BY <1>1, <1>2 DEF Flight, Sent, NoReply
<1>6. Chained
    <2>1. ASSUME NEW u \in Uris PROVE Leads(serverPending, u, At(Base, u), At(documents, u))
        <3>1. Base = documents /\ At(documents, u) \in States
            BY <1>1, <1>3, HeldIs DEF Base
        <3> QED BY <1>1, <3>1, LeadsEmpty
    <2> QED BY <2>1 DEF Chained
<1>7. Ordered
    BY <1>1, <1>2 DEF Ordered, Orderly
<1>8. Showing
    <2>1. View(documents, sources) = opened
        BY <1>1 DEF View
    <2>2. shown = Shown
        BY <1>1, <2>1 DEF Shown
    <2>3. Idle
        BY <1>1, <1>2 DEF Idle
    <2>4. \A u \in Uris \ published : shown[u] = NoView
        BY <1>1
    <2> QED BY <2>2, <2>3, <2>4, ShowingMeans DEF ShowingIs
<1>9. AsksOnce
    <2>1. \A r \in Requests : ~Taken(r) /\ Len(answers[r]) = 0 /\ ~Queued(r) /\ ~Running(r)
        BY <1>1, <1>2 DEF Taken, Queued, Running
    <2>2. SentOnce
        BY <1>1, <1>2 DEF SentOnce
    <2> QED BY <2>1, <2>2 DEF AsksOnce, OncePerQuery
<1>10. Closed
    BY <1>1 DEF Closed
<1> QED BY <1>4, <1>5, <1>6, <1>7, <1>8, <1>9, <1>10 DEF ServerInv

\* Every step keeps the invariant.
LEMMA ServerNextInv == ServerInv /\ [ServerNext]_serverVars => ServerInv'
<1> SUFFICES ASSUME ServerStep PROVE ServerInv'
    BY DEF ServerStep
<1> QED BY TypedStep, FlightStep, ChainedStep, OrderedStep, ShowingStep, AsksOnceStep, ClosedStep
        DEF ServerInv

\* The invariant holds of every behaviour.
LEMMA ServerInvariant == ServerSpec => []ServerInv
<1>1. ServerInit => ServerInv
    BY ServerStarts
<1>2. ServerInv /\ [ServerNext]_serverVars => ServerInv'
    BY ServerNextInv
<1> QED BY <1>1, <1>2, PTL DEF ServerSpec

\* No request changes nothing.
LEMMA ReplayNone ==
    ASSUME NEW held
    PROVE  Replay(held, <<>>) = held
<1> DEFINE h == [n \in 0..0 |-> held]
           q == <<>>
<1>1. Len(q) = 0 /\ h = [n \in 0..0 |-> h[n]] /\ h[0] = held
    OBVIOUS
<1> HIDE DEF h, q
<1>2. Replay(h[0], q) = h[Len(q)]
    <2>1. \A n \in 1..Len(q) : FALSE
        BY <1>1
    <2> QED BY <1>1, <2>1, ReplaySteps
<1> QED BY <1>1, <1>2 DEF q

\* One request is applied once.
LEMMA ReplayOne ==
    ASSUME NEW held, NEW job
    PROVE  Replay(held, <<job>>) = Apply(held, job)
<1> DEFINE h == [n \in 0..1 |-> IF n = 0 THEN held ELSE Apply(held, job)]
           q == <<job>>
<1>1. Len(q) = 1 /\ q[1] = job
    OBVIOUS
<1>2. h = [n \in 0..1 |-> h[n]] /\ h[0] = held /\ h[1] = Apply(held, job)
    OBVIOUS
<1> HIDE DEF h, q
<1>3. \A n \in 1..1 : n = 1 /\ n - 1 = 0
    OBVIOUS
<1>4. \A n \in 1..Len(q) : h[n] = Apply(h[n - 1], q[n])
    BY <1>1, <1>2, <1>3
<1>5. Replay(h[0], q) = h[Len(q)]
    <2>1. Len(q) \in Nat /\ h = [n \in 0..Len(q) |-> h[n]]
        BY <1>1, <1>2
    <2> QED BY <1>4, <2>1, ReplaySteps
<1> QED BY <1>1, <1>2, <1>5 DEF q

\* A query is answered once, or waits for its one answer.
LEMMA InvAnswered == ServerInv => AnsweredOnce
<1> SUFFICES ASSUME ServerInv, NEW r \in Requests
             PROVE  Len(answers[r]) + Cardinality(Asking(r, serverPending \o active))
                        = (IF r \in asked /\ ~InTransit(r) THEN 1 ELSE 0)
    BY DEF AnsweredOnce
<1> DEFINE A == Asking(r, serverPending \o active)
<1>1. /\ ServerTyped /\ Ordered /\ OncePerQuery(r)
      /\ Live(r) => Running(r)
    BY DEF ServerInv, AsksOnce, Live
<1>2. /\ Queued(r) \/ Live(r) => \E i : A = {i}
      /\ ~Queued(r) /\ ~Live(r) => A = {}
    BY <1>1, AskingIs
<1> HIDE DEF A
<1>3. Queued(r) \/ Live(r) => Cardinality(A) = 1
    BY <1>2, FS_Singleton
<1>4. ~Queued(r) /\ ~Live(r) => Cardinality(A) = 0
    BY <1>2, FS_EmptySet
<1>5. CASE Taken(r) /\ Len(answers[r]) = 1 /\ ~Queued(r) /\ ~Live(r)
    BY <1>4, <1>5 DEF Taken, A
<1>6. CASE Taken(r) /\ Len(answers[r]) = 0 /\ (Queued(r) \/ Live(r))
    BY <1>3, <1>6 DEF Taken, A
<1>7. CASE ~Taken(r) /\ Len(answers[r]) = 0 /\ ~Queued(r) /\ ~Running(r)
    BY <1>1, <1>4, <1>7 DEF Taken, A
<1> QED BY <1>1, <1>5, <1>6, <1>7 DEF OncePerQuery

\* The queue brings what the analyzer will hold to the documents.
LEMMA InvReplayed == ServerInv => EditsReplayed
<1> SUFFICES ASSUME ServerInv, ~shutdown
             PROVE  Replay(Replay(buffers, [i \in DOMAIN jobChannel |-> jobChannel[i].job]),
                           serverPending) = documents
    BY DEF EditsReplayed
<1> DEFINE q == [i \in DOMAIN jobChannel |-> jobChannel[i].job]
<1>1. /\ ServerTyped /\ Chained /\ serverPending \in Seq(Jobs) /\ buffers \in Maps /\ documents \in Maps
    BY DEF ServerInv, ServerTyped
<1>2. Replay(buffers, q) = Base /\ Base \in Maps
    <2>1. CASE jobChannel = <<>>
        <3>1. q = <<>>
            BY <2>1
        <3>2. Replay(buffers, <<>>) = buffers
            BY <1>1, ReplayNone
        <3> QED BY <1>1, <2>1, <3>1, <3>2 DEF Base
    <2>2. CASE jobChannel # <<>>
        <3> DEFINE job == jobChannel[1].job
        <3>1. job \in Jobs /\ jobChannel = <<jobChannel[1]>>
            BY <2>2, Worked
        <3>2. q = <<job>>
            BY <3>1
        <3> HIDE DEF job
        <3>3. Replay(buffers, <<job>>) = Apply(buffers, job)
            BY <1>1, <3>1, ReplayOne
        <3>4. Apply(buffers, job) \in Maps
            BY <1>1, <3>1, ApplyIs
        <3> QED BY <2>2, <3>2, <3>3, <3>4 DEF Base, job
    <2> QED BY <2>1, <2>2
<1>3. \A u \in Uris : Leads(serverPending, u, At(Base, u), At(documents, u))
    BY <1>1 DEF Chained
<1> QED BY <1>1, <1>2, <1>3, LeadsReplay

\* The job with the worker is about the text the analyzer holds.
LEMMA InvFaithful == ServerInv => QueryFaithful
<1> SUFFICES ASSUME ServerInv, NEW i \in DOMAIN jobChannel, IsQuery(jobChannel[i].job)
             PROVE  /\ jobChannel[i].revision = current
                    /\ jobChannel[i].job.kind \in Positional =>
                          /\ jobChannel[i].job.uri \in DOMAIN buffers
                          /\ buffers[jobChannel[i].job.uri].text = jobChannel[i].job.text
    BY DEF QueryFaithful
<1>1. jobChannel # <<>>
    <2>1. DOMAIN <<>> = {}
        OBVIOUS
    <2> QED BY <2>1
<1>2. Sending
    BY <1>1 DEF ServerInv, Flight, Sent
<1>3. PICK job \in Jobs :
          /\ jobChannel = <<[job |-> job, revision |-> current]>>
          /\ job.method = "query" /\ job.kind \in Positional =>
                job.uri \in DOMAIN buffers /\ buffers[job.uri].text = job.text
    BY <1>2 DEF Sending
<1>4. i = 1 /\ jobChannel[1].job = job /\ jobChannel[1].revision = current
    BY <1>3
<1> QED BY <1>3, <1>4 DEF IsQuery

\* With nothing but queries left, what is shown is the newest state.
LEMMA InvSettles == ServerInv => DiagnosticsSettle
<1> SUFFICES ASSUME ServerInv, Settled
             PROVE  shown = [u \in Uris |-> IF u \in DOMAIN View(documents, sources)
                                            THEN View(documents, sources) ELSE NoView]
    BY DEF DiagnosticsSettle
<1> DEFINE w == serverPending \o active
           n == Len(serverPending)
<1>1. /\ ServerTyped /\ serverPending \in Seq(Jobs) /\ active \in Seq(Jobs) /\ n \in Nat
      /\ Showing /\ ~shutdown /\ \A i \in DOMAIN w : w[i].method = "query"
    BY DEF ServerInv, ServerTyped, Settled, IsQuery
<1>2. /\ DOMAIN w = 1..(n + Len(active)) /\ \A i \in 1..n : w[i] = serverPending[i]
      /\ active # <<>> => Len(active) = 1 /\ w[n + 1] = active[1]
    BY <1>1, JoinedIs
<1>3. Len(active) \in Nat
    BY <1>1
<1> HIDE DEF w, n
<1>4. \A i \in 1..n : serverPending[i].method = "query"
    <2>1. \A i \in 1..n : i \in 1..(n + Len(active))
        BY <1>1, <1>3
    <2> QED BY <1>1, <1>2, <2>1
<1>5. active # <<>> => active[1].method = "query"
    <2>1. Len(active) = 1 => n + 1 \in 1..(n + Len(active))
        BY <1>1
    <2> QED BY <1>1, <1>2, <2>1
<1>6. ~Analysing
    BY <1>4, <1>5 DEF Analysing, Newest, n
<1> QED BY <1>1, <1>6 DEF Showing

\* The query is never answered twice and never lost: AnsweredOnce for every
\* number of documents, queries and messages.
THEOREM AnswersOnce == ServerSpec => []AnsweredOnce
  BY ServerInvariant, InvAnswered, PTL

\* The jobs of the queue bring the analyzer to the documents of the server.
THEOREM EditsReachAnalyzer == ServerSpec => []EditsReplayed
  BY ServerInvariant, InvReplayed, PTL

\* A query runs on the text its positions were computed from.
THEOREM QueriesFaithful == ServerSpec => []QueryFaithful
  BY ServerInvariant, InvFaithful, PTL

\* When nothing is left to analyse, the diagnostics are those of what is open.
THEOREM DiagnosticsCurrent == ServerSpec => []DiagnosticsSettle
  BY ServerInvariant, InvSettles, PTL

-----------------------------------------------------------------------------
(* What the reports of the server are computed from.                       *)

\* What is open in a view of documents are the documents.
LEMMA OpenInView ==
    ASSUME NEW held \in Maps, NEW more
    PROVE  OpenIn(View(held, more)) = held
<1> DEFINE v == View(held, more)
           D == {u \in DOMAIN v : v[u].version # 0}
<1>1. DOMAIN v = DOMAIN held \cup more
    BY DEF View
<1>2. \A u \in DOMAIN held : v[u] = held[u] /\ held[u] \in Entries
    BY InMaps DEF View
<1>3. \A u \in DOMAIN v : u \notin DOMAIN held => v[u].version = 0
    BY DEF View
<1>4. \A x \in Entries : x.version # 0
    BY DEF Entries, DocVersions
<1> HIDE DEF v
<1>5. D = DOMAIN held
    BY <1>1, <1>2, <1>3, <1>4
<1>6. held = [u \in DOMAIN held |-> held[u]]
    BY InMaps
<1>7. [u \in D |-> v[u]] = held
    BY <1>2, <1>5, <1>6
<1> QED BY <1>7 DEF OpenIn, Restrict, v

\* An answer that is added is the last one.
LEMMA Lengthened ==
    ASSUME NEW s \in Seq(Answers), NEW a \in Answers, NEW b \in Answers
    PROVE  Append(s, a) # s /\ (Append(s, a) = Append(s, b) => a = b)
<1>1. /\ Len(Append(s, a)) = Len(s) + 1 /\ Append(s, a)[Len(s) + 1] = a
      /\ Append(s, b)[Len(s) + 1] = b /\ Len(s) \in Nat
    BY AppendIs
<1>2. Len(Append(s, a)) # Len(s)
    BY <1>1
<1> QED BY <1>1, <1>2

\* The diagnostics that are shown anew.
LEMMA ShownCurrent ==
    ASSUME ServerStep, NEW u \in Uris, shown'[u] \notin {shown[u], NoView}
    PROVE  OpenIn(shown'[u]) = documents
<1>0. ServerInv /\ ServerTyped /\ documents \in Maps /\ DOMAIN shown = Uris
    BY DEF ServerStep, ServerInv, ServerTyped
<1>1. CASE DidClose
    <2>1. PICK job \in Closes : shown' = [shown EXCEPT ![job.uri] = NoView]
        BY <1>0, <1>1, ClosesDocument
    <2>2. job.uri \in Uris
        BY DEF Closes
    <2> QED BY <1>0, <2>1, <2>2
<1>2. CASE CompleteUpdate
    <2>1. ~Obsolete /\ PublishView(Result.view) /\ ~shutdown
        BY <1>2 DEF CompleteUpdate
    <2>2. Result.view = View(documents, sources)
        BY <1>0, <1>2, <2>1, CaughtUp DEF Completing
    <2>3. shown'[u] \in {Result.view, NoView, shown[u]}
        BY <2>1 DEF PublishView
    <2> QED BY <1>0, <2>2, <2>3, OpenInView
<1>3. CASE Editor
    BY <1>0, <1>3, EditorSends DEF Sends
<1>4. CASE \/ DidOpen \/ DidChange \/ WorkspaceChanged \/ AskNothing \/ AskStale \/ Ask \/ AskTooLate
           \/ CancelRequest \/ Shutdown \/ Ignore \/ Exit("exit") \/ Exit("end")
           \/ CompleteStopped \/ CompleteQuery \/ EndTurn \/ Transact \/ Report \/ Stop
           \/ UNCHANGED serverVars
    <2>1. UNCHANGED shown
        BY <1>4 DEF DidOpen, DidChange, EditDocument, WorkspaceChanged, AskNothing, AskStale, Ask,
                    AskTooLate,
                    CancelRequest, Shutdown, Ignore, Exit, CompleteStopped, CompleteQuery, EndTurn,
                    Transact, Report, Stop, serverVars
    <2> QED BY <2>1
<1> QED BY <1>1, <1>2, <1>3, <1>4, ServerCases DEF Handling, Completing

\* The answers that are results.
LEMMA ResultCurrent ==
    ASSUME ServerStep, NEW r \in Requests, answers'[r] = Append(answers[r], "result")
    PROVE  /\ Job.kind \in Volatile => OpenIn(Result.view) = documents
           /\ Job.kind = "syntax" /\ Job.uri \in DOMAIN documents => SameText
<1>0. /\ ServerInv /\ ServerTyped /\ documents \in Maps
      /\ answers \in [Requests -> Seq(Answers)] /\ answers[r] \in Seq(Answers) /\ "result" \in Answers
    BY DEF ServerStep, ServerInv, ServerTyped, Answers
<1>1. answers'[r] # answers[r]
    BY <1>0, Lengthened
<1>2. ASSUME NEW a \in Answers, a # "result" PROVE answers'[r] # Append(answers[r], a)
    BY <1>0, <1>2, Lengthened
<1>3. ASSUME NEW x \in Requests, NEW a \in Answers, answers' = [answers EXCEPT ![x] = Append(@, a)]
      PROVE  a = "result"
    <2>1. r = x /\ answers'[r] = Append(answers[r], a)
        BY <1>0, <1>1, <1>3
    <2> QED BY <1>2, <2>1
<1>4. CASE AskNothing \/ AskStale \/ AskTooLate
    <2>1. Takes
        BY <1>0, <1>4, HandlingTakes DEF Handling
    <2>2. Head(events).id \in Requests
        BY <1>4, <2>1 DEF Takes, Documented, AskNothing, AskStale, AskTooLate, Serve, Handle
    <2>3. \E a \in {"nothing", "refused", "modified"} :
              answers' = [answers EXCEPT ![Head(events).id] = Append(@, a)]
        BY <1>4 DEF AskNothing, AskStale, AskTooLate, Settle
    <2> QED BY <1>3, <2>2, <2>3 DEF Answers
<1>5. CASE CancelRequest
    <2>1. PICK x \in Requests :
              answers' = IF Asking(x, serverPending \o active) = {} THEN answers
                         ELSE [answers EXCEPT ![x] = Append(@, "cancelled")]
        BY <1>0, <1>5, Cancels
    <2> QED BY <1>1, <1>3, <2>1 DEF Answers
<1>6. CASE Shutdown
    <2>1. answers'[r] = answers[r] \/ answers'[r] = Append(answers[r], "closing")
        BY <1>6 DEF Shutdown
    <2> QED BY <1>1, <1>2, <2>1 DEF Answers
<1>7. CASE CompleteQuery
    <2>1. /\ active # <<>> /\ IsQuery(Job) /\ ~shutdown
          /\ UNCHANGED answers \/ Settle(Job.id, IF Modified THEN "modified" ELSE "result")
        BY <1>7 DEF CompleteQuery, CompleteJob
    <2>2. Job.id \in Requests
        <3>1. Job \in Queries
            BY <1>0, <2>1, ActiveJob, JobKinds DEF Job, IsQuery
        <3> QED BY <3>1 DEF Queries
    <2>3. ~Modified
        <3>1. ASSUME Modified PROVE FALSE
            <4>1. answers' = [answers EXCEPT ![Job.id] = Append(@, "modified")]
                BY <1>1, <2>1, <3>1 DEF Settle
            <4> QED BY <1>3, <2>2, <4>1 DEF Answers
        <3> QED BY <3>1
    <2>4. CASE Obsolete
        BY <2>3, <2>4 DEF Modified
    <2>5. CASE ~Obsolete
        <3>1. Result.view = View(documents, sources)
            BY <1>0, <1>7, <2>1, <2>5, CaughtUp DEF Completing
        <3>2. OpenIn(Result.view) = documents
            BY <1>0, <3>1, OpenInView
        <3>3. Job.uri \in DOMAIN documents => SameText
            BY <3>1 DEF View, SameText
        <3> QED BY <3>2, <3>3
    <2> QED BY <2>4, <2>5
<1>8. CASE Editor
    BY <1>0, <1>1, <1>8, EditorSends DEF Sends
<1>9. CASE \/ DidOpen \/ DidChange \/ DidClose \/ WorkspaceChanged \/ Ask
           \/ Ignore \/ Exit("exit") \/ Exit("end")
           \/ CompleteStopped \/ CompleteUpdate \/ EndTurn \/ Transact \/ Report \/ Stop
           \/ UNCHANGED serverVars
    <2>1. UNCHANGED answers
        BY <1>9 DEF DidOpen, DidChange, EditDocument, DidClose, WorkspaceChanged, Ask, Ignore, Exit,
                    CompleteStopped, CompleteUpdate, EndTurn, Transact, Report, Stop, serverVars
    <2> QED BY <1>1, <2>1
<1> QED BY <1>4, <1>5, <1>6, <1>7, <1>8, <1>9, ServerCases DEF Handling, Completing

\* Diagnostics, and answers that depend on the text, leave the server only while
\* the text they were computed from is still that of the documents.
THEOREM ReportsFromCurrent == ServerSpec => ReportsCurrent
<1> DEFINE Right ==
       /\ \A u \in Uris : shown'[u] \notin {shown[u], NoView} => OpenIn(shown'[u]) = documents
       /\ \A r \in Requests : answers'[r] = Append(answers[r], "result") =>
             /\ Job.kind \in Volatile => OpenIn(Result.view) = documents
             /\ Job.kind = "syntax" /\ Job.uri \in DOMAIN documents => SameText
<1>1. ServerInv /\ [ServerNext]_serverVars => [Right]_serverVars
    <2> SUFFICES ASSUME ServerStep PROVE Right
        BY DEF ServerStep
    <2> QED BY ShownCurrent, ResultCurrent
<1>2. ServerSpec => []ServerInv
    BY ServerInvariant
<1>3. ReportsCurrent <=> [][Right]_serverVars
    BY DEF ReportsCurrent
<1> QED BY <1>1, <1>2, <1>3, PTL DEF ServerSpec
=============================================================================
