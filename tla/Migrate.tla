------------------------------ MODULE Migrate ------------------------------
(***************************************************************************)
(* A deployment's one-shot migration runner (migrate.sh, compose.reg.yml)  *)
(* and the statements of migrations/*.sql it applies.                      *)
(*                                                                         *)
(* MariaDB commits each DDL statement by itself, so an interrupted file    *)
(* stays half applied; whether a file can be applied again depends on how  *)
(* its statements meet an object that is already there.                    *)
(***************************************************************************)
EXTENDS Integers, SequencesExt

CONSTANTS
    Interruptible, \* the files during which the runner may be killed
    MaxInterrupts  \* bound of the exploration

\* A statement makes an object out of others: IF NOT EXISTS keeps the object
\* that is there, a strict statement fails on it, an overwriting one remakes it.
IfAbsent(object, needs)  == [on |-> "kept", object |-> object, needs |-> needs]
Strict(object, needs)    == [on |-> "error", object |-> object, needs |-> needs]
Overwrite(object, needs) == [on |-> "remade", object |-> object, needs |-> needs]

Init001 == <<IfAbsent("users", {}), IfAbsent("sessions", {}), IfAbsent("posts", {}),
             IfAbsent("follows", {}), IfAbsent("likes", {}), IfAbsent("reposts", {}),
             IfAbsent("footprints", {}), IfAbsent("notifications", {})>>

Indexes002 == <<Strict("idx_likes_post_created", {"likes"}),
                Strict("idx_likes_created_post", {"likes"}),
                Strict("idx_posts_parent_created_id", {"posts"})>>

FeedNeeds == {"recommended_posts", "posts", "likes"}

Feed003 == <<IfAbsent("recommended_posts", {"posts"}),
             Overwrite("ranking", FeedNeeds),
             IfAbsent("refresh_recommended_posts", FeedNeeds)>>

Preaggregate004 == <<Overwrite("ranking", FeedNeeds),
                     Overwrite("refresh_recommended_posts", FeedNeeds)>>

Utf8mb4005 == <<Overwrite("charset", {}), Overwrite("users_charset", {"users"}),
                Overwrite("posts_charset", {"posts"}), Overwrite("sessions_charset", {"sessions"})>>

\* In the order of their names, which is the order of the shell's glob.
Files == <<Init001, Indexes002, Feed003, Preaggregate004, Utf8mb4005>>

Versions == 1..Len(Files)
Objects == {s.object : s \in UNION {Range(Files[v]) : v \in Versions}}

ASSUME MigrateAssumption == Interruptible \subseteq Versions /\ MaxInterrupts \in Nat

VARIABLES
    release,    \* the files shipped are those up to this one
    schema,     \* object |-> the file that last made it, 0: absent
    recorded,   \* rows of schema_migrations
    pc,         \* the runner: "ledger", "check", "apply", "record", or how it ended
    file,       \* f
    statement,  \* how far the client is in f
    api,        \* the api container runs
    bypassed,   \* history: api was started without migrate having completed
    interrupts

migrateVars == <<release, schema, recorded, pc, file, statement, api, bypassed, interrupts>>

Stopped == {"done", "failed"}

MigrateTypeOK ==
    /\ release \in Versions
    /\ schema \in [Objects -> {0} \cup Versions]
    /\ recorded \subseteq Versions
    /\ pc \in {"ledger", "check", "apply", "record"} \cup Stopped
    /\ file \in 1..release + 1
    /\ statement \in IF pc = "apply" THEN 1..Len(Files[file]) ELSE {1}
    /\ api \in BOOLEAN
    /\ bypassed \in BOOLEAN
    /\ interrupts \in 0..MaxInterrupts

MigrateInit ==
    /\ release \in Versions
    /\ schema = [o \in Objects |-> 0]
    /\ recorded = {}
    /\ pc = "ledger"
    /\ file = 1
    /\ statement = 1
    /\ api = FALSE
    /\ bypassed = FALSE
    /\ interrupts = 0

-----------------------------------------------------------------------------
\* CREATE TABLE IF NOT EXISTS schema_migrations
CreateLedger ==
    /\ pc = "ledger"
    /\ pc' = "check"
    /\ UNCHANGED <<release, schema, recorded, file, statement, api, bypassed, interrupts>>

\* mutant: the ledger is not looked at
CheckNothing ==
    /\ pc = "check" /\ file <= release
    /\ pc' = "apply"
    /\ UNCHANGED <<release, schema, recorded, file, statement, api, bypassed, interrupts>>

\* SELECT COUNT(*) FROM schema_migrations: a recorded file is skipped.
Check ==
    /\ pc = "check" /\ file <= release
    /\ IF file \in recorded THEN file' = file + 1 /\ UNCHANGED pc
                            ELSE pc' = "apply" /\ UNCHANGED file
    /\ UNCHANGED <<release, schema, recorded, statement, api, bypassed, interrupts>>

\* What statement s of file f leaves of schema t
Effect(t, s, f) == [t EXCEPT ![s.object] = IF s.on = "kept" /\ @ # 0 THEN @ ELSE f]

StatementFails(s) ==
    \/ s.on = "error" /\ schema[s.object] # 0
    \/ \E o \in s.needs : schema[o] = 0

\* The script ends: compose up starts api (service_completed_successfully) or
\* leaves things as they are.
Exit(how) ==
    /\ pc' = how /\ file' = 1 /\ statement' = 1
    /\ api' = (api \/ how = "done")
    /\ bypassed' = (bypassed /\ how # "done")

\* mutant: without set -e the script goes on when the client fails
ApplyWithoutSetE ==
    /\ pc = "apply"
    /\ LET s == Files[file][statement]
       IN  IF StatementFails(s) THEN statement' = 1 /\ pc' = "record" /\ UNCHANGED schema
           ELSE /\ schema' = Effect(schema, s, file)
                /\ IF statement < Len(Files[file])
                   THEN statement' = statement + 1 /\ UNCHANGED pc
                   ELSE statement' = 1 /\ pc' = "record"
    /\ UNCHANGED <<release, recorded, file, api, bypassed, interrupts>>

\* One statement of client < f.  The client stops at the first error, and
\* set -e then stops the script.
Apply ==
    /\ pc = "apply"
    /\ LET s == Files[file][statement]
       IN  IF StatementFails(s) THEN Exit("failed") /\ UNCHANGED schema
           ELSE /\ schema' = Effect(schema, s, file)
                /\ IF statement < Len(Files[file])
                   THEN statement' = statement + 1 /\ UNCHANGED pc
                   ELSE statement' = 1 /\ pc' = "record"
                /\ UNCHANGED <<file, api, bypassed>>
    /\ UNCHANGED <<release, recorded, interrupts>>

\* mutant: the ledger names the newest shipped file
RecordNewest ==
    /\ pc = "record"
    /\ recorded' = recorded \cup {release}
    /\ pc' = "check" /\ file' = file + 1
    /\ UNCHANGED <<release, schema, statement, api, bypassed, interrupts>>

\* INSERT INTO schema_migrations
Record ==
    /\ pc = "record"
    /\ recorded' = recorded \cup {file}
    /\ pc' = "check" /\ file' = file + 1
    /\ UNCHANGED <<release, schema, statement, api, bypassed, interrupts>>

\* The loop is over.
Finish ==
    /\ pc = "check" /\ file > release
    /\ Exit("done")
    /\ UNCHANGED <<release, schema, recorded, interrupts>>

\* The container is killed or loses the database between two statements.  A
\* statement that took effect without being answered is an interrupt after it.
Interrupt ==
    /\ pc \notin Stopped
    /\ file \in Interruptible /\ interrupts < MaxInterrupts
    /\ interrupts' = interrupts + 1
    /\ Exit("failed")
    /\ UNCHANGED <<release, schema, recorded>>

\* mutant: new files are deployed beside the running api
DeployBesideApi ==
    /\ pc \in Stopped
    /\ release' \in release..Len(Files)
    /\ pc' = "ledger"
    /\ UNCHANGED <<schema, recorded, file, statement, api, bypassed, interrupts>>

\* compose down, then up: with the same files or more of them (restart is "no":
\* nothing but an up runs the script again).
Deploy ==
    /\ pc \in Stopped
    /\ release' \in release..Len(Files)
    /\ pc' = "ledger"
    /\ api' = FALSE /\ bypassed' = FALSE
    /\ UNCHANGED <<schema, recorded, file, statement, interrupts>>

\* compose up alone, on the same files: the script runs beside what is running.
Up ==
    /\ pc \in Stopped
    /\ pc' = "ledger"
    /\ UNCHANGED <<release, schema, recorded, file, statement, api, bypassed, interrupts>>

\* compose up -d --no-deps api, at any time: depends_on is passed over.
SwitchVariant ==
    /\ api' = TRUE
    /\ bypassed' = (bypassed \/ ~api)
    /\ UNCHANGED <<release, schema, recorded, pc, file, statement, interrupts>>

Script == CreateLedger \/ Check \/ Apply \/ Record \/ Finish

MigrateNext == Script \/ Interrupt \/ Deploy \/ Up \/ SwitchVariant

\* The script runs on, and someone deploys again after a failure.
MigrateSpec ==
    /\ MigrateInit /\ [][MigrateNext]_migrateVars
    /\ WF_migrateVars(Script) /\ WF_migrateVars(pc = "failed" /\ Deploy)

-----------------------------------------------------------------------------
(* Properties. *)

\* migrate.sh:26-38: a file that schema_migrations names has taken effect with
\* every statement, whenever runs before it were cut short: what the statement
\* makes is there, and is of that file or a later one, unless the statement keeps
\* what it finds.
RecordedIsApplied ==
    \A v \in recorded : \A s \in Range(Files[v]) :
        schema[s.object] # 0 /\ (s.on # "kept" => schema[s.object] >= v)

\* Schema t after all of file n: the file's objects are its own, but for those that
\* were there and are kept.
Once(t, n) ==
    [o \in Objects |->
        IF \E s \in Range(Files[n]) : s.object = o /\ ~(s.on = "kept" /\ t[o] # 0) THEN n ELSE t[o]]

\* What applying files 1..n to an empty database once gives.
Fresh[n \in 0..Len(Files)] ==
    IF n = 0 THEN [o \in Objects |-> 0] ELSE Once(Fresh[n - 1], n)

\* migrations/003:19, 004:13: a completed run leaves the schema that one run
\* on an empty database leaves, whatever was interrupted, applied in part or
\* shipped later; above all the refresh event is that of the newest file.
Converges == pc = "done" => schema = Fresh[release]

\* compose.reg.yml:28-30: api, when compose up starts it, never runs on a schema
\* that lacks a file of the deployment, through later runs and failures too.  An
\* api started by switch-variant.sh:66 (--no-deps) while migrate has not completed
\* is the exception, until it does or the next deployment takes api down.
ApiSeesSchema == api /\ ~bypassed => 1..release \subseteq recorded

\* A file that is not recorded cannot be applied again: a strict statement of it
\* has made its object already.
Wedged == \E v \in Versions \ recorded : \E s \in Range(Files[v]) :
    s.on = "error" /\ schema[s.object] # 0

\* migrate.sh:26-38: deploying again after failures gets every release applied,
\* wherever runs were cut short, but for a file with a plain CREATE INDEX.
Recovers == []<>(pc = "done" \/ Wedged)

=============================================================================
