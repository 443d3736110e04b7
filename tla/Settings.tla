------------------------------ MODULE Settings ------------------------------
(***************************************************************************)
(* The settings table, the snapshot of it the process reads, and the       *)
(* first-run wizard (service/settings.go, api/setup.go, the keys command). *)
(* PutSetting writes one row and then reads the rows back one at a time to *)
(* make a new snapshot: concurrent requests reload over each other, and a  *)
(* read that fails leaves its part of the snapshot empty.  The wizard is a *)
(* series of such writes with API keys minted in between, in no            *)
(* transaction; setupMu keeps two wizards apart, and an active key alone   *)
(* counts as "set up".                                                     *)
(***************************************************************************)
EXTENDS Naturals, Sequences

CONSTANTS
  Actors,      \* requests in flight
  MaxSaves,    \* bound: writes of settings
  MaxApiKeys,  \* bound: keys ever made
  MaxMishaps   \* bound: failed statements

ASSUME SettingsAssumption == {MaxSaves, MaxApiKeys, MaxMishaps} \subseteq Nat

Knobs == {"name", "flags", "openai"}
ApiKeys == 1..MaxApiKeys

VARIABLES
  table,     \* of each knob: the number of the write in its row, 0 for none
  setupFlag, \* the setup_complete row
  made,      \* API keys ever made
  live,      \* those not revoked
  identity,  \* the instance_id row: how often it has been minted
  snapshot,  \* the process's copy; its "openai" is the embedder's key
  setupDone, \* cached positive answer of isSetupComplete
  token,     \* the process has a setup token
  job,       \* of each actor: [at, todo, seen, minted, alone]
  lock,      \* holders of setupMu
  saves, mishaps,
  shown,     \* keys whose secret was answered to somebody
  minters,   \* history: how many wizard runs have minted
  cut,       \* history: a wizard failed after its first key
  reopened,  \* history: every key was revoked while setup_complete was unset
  blurred    \* history: the last snapshot came of a failed read, of overlapping
             \* reloads, or missed a write whose answer was lost

settingsVars == <<table, setupFlag, made, live, identity, snapshot, setupDone, token, job, lock,
                  saves, mishaps, shown, minters, cut, reopened, blurred>>

processVars == <<setupDone, token, job, lock>>
keyVars == <<made, live, shown, minters, cut, reopened>>

NothingSeen == [k \in Knobs |-> 0]
NoJob == [at |-> "idle", todo |-> <<>>, seen |-> NothingSeen, minted |-> {},
          alone |-> TRUE]

SettingsTypeOK ==
  /\ table \in [Knobs -> 0..MaxSaves] /\ snapshot \in [Knobs -> 0..MaxSaves]
  /\ {setupFlag, setupDone, token, cut, reopened, blurred} \subseteq BOOLEAN
  /\ made \in 0..MaxApiKeys
  /\ live \subseteq 1..made /\ shown \subseteq 1..made
  /\ identity \in 1..(MaxMishaps + 1)
  /\ saves \in 0..MaxSaves /\ mishaps \in 0..MaxMishaps
  /\ minters \in 0..MaxApiKeys /\ lock \subseteq Actors
  /\ \A a \in Actors :
       /\ job[a].at \in {"idle", "work", "name", "flags", "openai", "store"}
       /\ job[a].seen \in [Knobs -> 0..MaxSaves]
       /\ job[a].minted \subseteq 1..made
       /\ job[a].alone \in BOOLEAN

\* A fresh instance after its first boot.
SettingsInit ==
  /\ table = NothingSeen /\ snapshot = NothingSeen
  /\ setupFlag = FALSE /\ setupDone = FALSE /\ token = TRUE
  /\ made = 0 /\ live = {} /\ shown = {} /\ minters = 0
  /\ identity = 1
  /\ job = [a \in Actors |-> NoJob] /\ lock = {}
  /\ saves = 0 /\ mishaps = 0
  /\ cut = FALSE /\ reopened = FALSE /\ blurred = FALSE

Mishap == mishaps < MaxMishaps /\ mishaps' = mishaps + 1

-----------------------------------------------------------------------------
(***************************************************************************)
(* Requests.                                                               *)
(***************************************************************************)

\* SetupComplete: the row, or any active key.
Complete == setupFlag \/ live # {}

\* GET setup/status: isSetupComplete caches a positive answer.
SetupStatus ==
  /\ Complete /\ ~setupDone
  /\ setupDone' = TRUE
  /\ UNCHANGED <<table, setupFlag, identity, snapshot, token, job, lock, saves, mishaps,
                 blurred, keyVars>>

\* Mutant: setup_complete is stored before the keys are made.
CompleteSetupFlagFirst(a) ==
  /\ job[a].at = "idle" /\ lock = {} /\ saves < MaxSaves
  /\ ~setupDone /\ ~Complete /\ token
  /\ job' = [job EXCEPT ![a] = [NoJob EXCEPT !.at = "work", !.todo = <<"done", "name", "mint", "mint">>]]
  /\ lock' = lock \cup {a}
  /\ UNCHANGED <<table, setupFlag, identity, snapshot, setupDone, token, saves, mishaps,
                 blurred, keyVars>>

\* completeSetup up to its first write: the lock, isSetupComplete, the token.
CompleteSetup(a) ==
  /\ job[a].at = "idle" /\ lock = {} /\ saves < MaxSaves
  /\ ~setupDone /\ ~Complete /\ token
  /\ job' = [job EXCEPT ![a] = [NoJob EXCEPT !.at = "work", !.todo = <<"name", "mint", "mint", "done">>]]
  /\ lock' = lock \cup {a}
  /\ UNCHANGED <<table, setupFlag, identity, snapshot, setupDone, token, saves, mishaps,
                 blurred, keyVars>>

\* putSettings, by a holder of a key, who gives two of the three fields; the wizard
\* gives the name alone.
PutSettings(a) ==
  /\ job[a].at = "idle" /\ live # {}
  /\ LET todo == <<"openai", "flags">> IN
       job' = [job EXCEPT ![a] = [NoJob EXCEPT !.at = "work", !.todo = todo]]
  /\ UNCHANGED <<table, setupFlag, identity, snapshot, setupDone, token, lock, saves, mishaps,
                 blurred, keyVars>>

Reloading(b) == job[b].at \in {"name", "flags", "openai", "store"}

\* Every reload under way has read, or may have read, another table.
Disturbed(jobs) == [b \in Actors |-> [jobs[b] EXCEPT !.alone = @ /\ ~Reloading(b)]]

\* A request that fails answers an error; what it did stays done.
Ended(a) == [job EXCEPT ![a] = NoJob]
Abort(a) ==
  /\ lock' = lock \ {a}
  /\ cut' = (cut \/ job[a].minted # {})

Upsert(knob) ==
  /\ saves < MaxSaves /\ saves' = saves + 1
  /\ IF knob = "done"
     THEN setupFlag' = TRUE /\ UNCHANGED table
     ELSE table' = [table EXCEPT ![knob] = saves'] /\ UNCHANGED setupFlag

NextKnob(a) == Head(job[a].todo)
AtWork(a, words) == job[a].at = "work" /\ job[a].todo # <<>> /\ NextKnob(a) \in words

\* PutSetting: the row, and the reload begins.
Save(a) ==
  /\ AtWork(a, Knobs \cup {"done"})
  /\ Upsert(NextKnob(a))
  /\ job' = [Disturbed(job) EXCEPT
       ![a] = [job[a] EXCEPT !.at = "name", !.todo = Tail(@), !.alone = \A b \in Actors : ~Reloading(b)]]
  /\ UNCHANGED <<identity, snapshot, setupDone, token, lock, mishaps, blurred, keyVars>>

\* The statement fails, or its answer is lost: no reload follows.
SaveFails(a) ==
  /\ AtWork(a, Knobs \cup {"done"}) /\ Mishap
  /\ Abort(a)
  /\ \/ job' = Ended(a) /\ UNCHANGED <<saves, setupFlag, table, blurred>>
     \/ job' = Disturbed(Ended(a)) /\ Upsert(NextKnob(a)) /\ blurred' = TRUE
  /\ UNCHANGED <<identity, snapshot, setupDone, token, made, live, shown, minters, reopened>>

\* settingString or GetSetting: a failed read is logged and leaves a blank.
ReadKnob(a, knob, next) ==
  /\ job[a].at = knob
  /\ \/ /\ job' = [job EXCEPT ![a].at = next,
                                ![a].seen[knob] = IF knob = "openai" THEN 0 ELSE table[knob]]
        /\ snapshot' = IF knob = "openai" /\ table[knob] # 0
                       THEN [snapshot EXCEPT !.openai = table[knob]] ELSE snapshot
        /\ UNCHANGED mishaps
     \/ /\ Mishap
        /\ job' = [job EXCEPT ![a].at = next, ![a].alone = FALSE]
        /\ UNCHANGED snapshot
  /\ UNCHANGED <<table, setupFlag, identity, setupDone, token, lock, saves, blurred, keyVars>>

\* ReloadSettings stores what it read, whatever has been stored meanwhile.
StoreSnapshot(a) ==
  /\ job[a].at = "store"
  /\ snapshot' = [job[a].seen EXCEPT !.openai = snapshot.openai]
  /\ blurred' = ~job[a].alone
  /\ job' = [job EXCEPT ![a].at = "work", ![a].seen = NothingSeen, ![a].alone = TRUE]
  /\ UNCHANGED <<table, setupFlag, identity, setupDone, token, lock, saves, mishaps, keyVars>>

\* CreateAPIKey in the wizard.
Mint(a) ==
  /\ AtWork(a, {"mint"}) /\ made < MaxApiKeys
  /\ made' = made + 1
  /\ live' = live \cup {made'}
  /\ minters' = minters + IF job[a].minted = {} THEN 1 ELSE 0
  /\ job' = [job EXCEPT ![a].todo = Tail(@), ![a].minted = @ \cup {made'}]
  /\ UNCHANGED <<table, setupFlag, identity, snapshot, setupDone, token, lock, saves, mishaps,
                 shown, cut, reopened, blurred>>

MintFails(a) ==
  /\ AtWork(a, {"mint"}) /\ Mishap
  /\ Abort(a) /\ job' = Ended(a)
  /\ UNCHANGED <<table, setupFlag, identity, snapshot, setupDone, token, saves, made, live, shown,
                 minters, reopened, blurred>>

\* The answer; the wizard's holds the raw keys.
Answer(a) ==
  /\ job[a].at = "work" /\ job[a].todo = <<>>
  /\ shown' = shown \cup job[a].minted
  /\ setupDone' = (setupDone \/ job[a].minted # {})
  /\ job' = Ended(a)
  /\ lock' = lock \ {a}
  /\ UNCHANGED <<table, setupFlag, identity, snapshot, token, saves, mishaps, made, live, minters, cut,
                 reopened, blurred>>

-----------------------------------------------------------------------------
(***************************************************************************)
(* The keys command, and the process.                                      *)
(***************************************************************************)

Keygen ==
  /\ made < MaxApiKeys
  /\ made' = made + 1 /\ live' = live \cup {made'} /\ shown' = shown \cup {made'}
  /\ UNCHANGED <<table, setupFlag, identity, snapshot, processVars, saves, mishaps, minters, cut,
                 reopened, blurred>>

RevokeKey(k) ==
  /\ k \in live
  /\ live' = live \ {k}
  /\ reopened' = (reopened \/ (live' = {} /\ ~setupFlag))
  /\ UNCHANGED <<table, setupFlag, identity, snapshot, processVars, saves, mishaps, made, shown, minters,
                 cut, blurred>>

\* RotateAPIKey: a new secret, and a revoked key is active again.
RotateKey(k) ==
  /\ k \in 1..made /\ k \notin live \cap shown
  /\ live' = live \cup {k} /\ shown' = shown \cup {k}
  /\ UNCHANGED <<table, setupFlag, identity, snapshot, processVars, saves, mishaps, made, minters, cut,
                 reopened, blurred>>

\* The process starts again: service.New reloads, main asks SetupComplete for a token
\* and InstanceID for the identity, which mints one when the row cannot be read.
Restart ==
  /\ setupDone' = FALSE /\ token' = ~Complete
  /\ job' = [a \in Actors |-> NoJob] /\ lock' = {}
  /\ cut' = (cut \/ \E a \in Actors : job[a].minted # {})
  /\ \/ snapshot' = table /\ blurred' = FALSE /\ UNCHANGED <<identity, mishaps>>
     \/ /\ Mishap
        /\ snapshot' = table /\ blurred' = FALSE
        /\ identity' = identity + 1
     \/ /\ Mishap
        /\ snapshot' = NothingSeen /\ blurred' = TRUE
        /\ UNCHANGED identity
  /\ UNCHANGED <<table, setupFlag, saves, made, live, shown, minters, reopened>>

SettingsNext ==
  \/ \E a \in Actors :
       \/ CompleteSetup(a) \/ PutSettings(a)
       \/ Save(a) \/ SaveFails(a) \/ StoreSnapshot(a) \/ Mint(a) \/ MintFails(a) \/ Answer(a)
       \/ ReadKnob(a, "name", "flags") \/ ReadKnob(a, "flags", "openai") \/ ReadKnob(a, "openai", "store")
  \/ SetupStatus \/ Keygen \/ Restart
  \/ \E k \in ApiKeys : RevokeKey(k) \/ RotateKey(k)

SettingsSpec == SettingsInit /\ [][SettingsNext]_settingsVars

-----------------------------------------------------------------------------
(***************************************************************************)
(* Properties.                                                             *)
(***************************************************************************)

\* With no request at work the process's snapshot is the table, unless the last reload
\* was disturbed: the flags and the name it acts on are then an older or an empty copy
\* until the next write.
SnapshotCurrent ==
  (~blurred /\ \A a \in Actors : job[a].at = "idle") => snapshot = table

\* Two wizard runs mint keys only if all keys were revoked before setup_complete was
\* stored.
OneWizardMints == minters > 1 => reopened

\* An instance that refuses the wizard has a key somebody was given, unless a wizard
\* was cut short after its first key: then it has keys nobody knows.
ClosedMeansShown ==
  (Complete /\ \A a \in Actors : job[a].at = "idle") => (shown # {} \/ cut)

SettingsSound == SnapshotCurrent /\ OneWizardMints /\ ClosedMeansShown
=============================================================================
