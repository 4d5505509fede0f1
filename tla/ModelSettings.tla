---------------------------- MODULE ModelSettings ----------------------------
(***************************************************************************)
(* The model settings of one user and the LLM instances made from them:    *)
(* the rows of providers, model assets and presets, the requests that      *)
(* check and change them, and in every worker a cache of instances that is *)
(* cleared by a broadcast and by age.  Only workers look instances up; the *)
(* cache of the API process stays empty.  Code:                            *)
(* backend/services/settings_service.py, core/llm.py, db/crud.py,          *)
(* api/deps.py, services/selector.py.                                      *)
(***************************************************************************)
EXTENDS Integers, Sequences, FiniteSets

CONSTANTS
  Workers,      \* processes that run research and cache instances
  Requests,     \* requests of the user, each of one operation
  Providers,    \* LLM providers
  Assets,       \* registered models, each of one provider
  ProviderOf,
  Presets,      \* ids of presets: as many as are ever given
  Names,        \* names of presets
  Plans,        \* the bindings a preset is saved with: <<stage, tier>>
  MaxVersion,   \* bound: different keys and different base URLs of a provider
  Operations,   \* the operations the requests are for
  NoAsset

ASSUME SettingsAssumption ==
  /\ ProviderOf \in [Assets -> Providers]
  /\ NoAsset \notin Assets
  /\ Plans \subseteq (Assets \cup {NoAsset}) \X (Assets \cup {NoAsset})
  /\ MaxVersion \in Nat \ {0}
  /\ IsFiniteSet(Presets)

VARIABLES
  db,       \* the committed rows
  request,  \* requests: what they read, what they write, what is left to do
  cache,    \* _llm_cache of each worker
  lookup,   \* the look-up a worker has under way
  inbox,    \* whether an invalidation is on its way to a worker's subscription
  listening \* whether a worker is subscribed

vars == <<db, request, cache, lookup, inbox, listening>>

-----------------------------------------------------------------------------
(* Rows.  Key 0 is a provider without a row, base URL 0 the provider's own. *)
(* The ids of assets and presets are never given twice.                    *)

Versions == 0..MaxVersion

EmptyPlan == <<NoAsset, NoAsset>>
PresetRow == [name : Names, plan : Plans \cup {EmptyPlan}]
NoPreset == [name |-> "none"]
GonePreset == [name |-> "gone"]

Rows == [key : [Providers -> Versions], url : [Providers -> Versions],
         asset : [Assets -> {"none", "row", "gone"}], linked : SUBSET Assets,
         preset : [Presets -> PresetRow \cup {NoPreset, GonePreset}],
         used : SUBSET Presets]

Registered(d) == {a \in Assets : d.asset[a] = "row"}
Live(d) == {i \in Presets : d.preset[i] \notin {NoPreset, GonePreset}}
Named(d, n) == {i \in Live(d) : d.preset[i].name = n}
Binds(row) == {row.plan[1], row.plan[2]} \ {NoAsset}
BoundAssets(d) == UNION {Binds(d.preset[i]) : i \in Live(d)}

\* select_preset: a preset of that name, else any of the user's.  (The one
\* marked as default comes first; which one that is is left open.)
Selected(d, n) == IF Named(d, n) # {} THEN Named(d, n) ELSE Live(d)

\* ResearchConfigValidator.validate: the binding of the stage, else that of the
\* speed tier, leads to an asset and to a key.
Validated(d, i) ==
  LET plan == d.preset[i].plan
      a == IF plan[1] # NoAsset THEN plan[1] ELSE plan[2]
  IN a \in Registered(d) /\ d.key[ProviderOf[a]] # 0

\* What _get_full_model_config finds in one reading: the stage's own binding or
\* nothing.
NoConfig == <<>>
Readable(d, i) ==
  /\ i \in Live(d)
  /\ d.preset[i].plan[1] \in Registered(d)
  /\ d.key[ProviderOf[d.preset[i].plan[1]]] # 0
ConfigOf(d, i) ==
  IF Readable(d, i)
  THEN LET a == d.preset[i].plan[1] IN <<a, d.key[ProviderOf[a]], d.url[ProviderOf[a]]>>
  ELSE NoConfig

-----------------------------------------------------------------------------
(* Requests.  A request reads and checks, then does its steps.             *)

Configs == {NoConfig} \cup (Assets \X Versions \X Versions)
Steps == {"commit", "publish"}

\* Mutant: the broadcast goes out before the change is committed.
AssetStepsEarly == <<"publish", "commit">>

\* register_asset_logic, delete_asset_logic and upsert_preset_logic commit, then
\* broadcast; upsert_secret_logic does it the other way round; the others are
\* not seen by the caches.
AssetSteps == <<"commit", "publish">>
SecretSteps == <<"publish", "commit">>
PlainSteps == <<"commit">>

Ready == [state |-> "ready"]
Over == [state |-> "over"]

Begin(r, op, arg, steps) ==
  /\ request[r] = Ready
  /\ op \in Operations
  /\ request' = [request EXCEPT ![r] =
       [state |-> "busy", op |-> op, arg |-> arg, saw |-> db, todo |-> steps]]
  /\ UNCHANGED <<db, cache, lookup, inbox, listening>>

\* upsert_secret_logic with a key (the connection test has passed)
SetKey(r, p, k, u) == Begin(r, "set_key", <<p, k, u>>, SecretSteps)

\* ... with plain_key None: the base URL alone
SetUrl(r, p, u) == db.key[p] # 0 /\ Begin(r, "set_url", <<p, u>>, SecretSteps)

\* ... with an empty key: refused while a preset binds an asset of the provider
RemoveKey(r, p) ==
  /\ \A a \in Registered(db) \cap BoundAssets(db) : ProviderOf[a] # p
  /\ Begin(r, "remove_key", <<p>>, SecretSteps)

RegisterAsset(r, a) ==
  db.asset[a] # "gone" /\ Begin(r, "register", <<a>>, AssetSteps)

\* Mutant: the check of the presets is gone.
DeleteAssetUnchecked(r, a) ==
  a \in Registered(db) /\ Begin(r, "delete_asset", <<a>>, AssetSteps)

DeleteAsset(r, a) ==
  /\ a \in Registered(db)
  /\ a \notin BoundAssets(db)
  /\ Begin(r, "delete_asset", <<a>>, AssetSteps)

\* The plan is stored as the page sends it, whether or not its assets are still
\* registered; scalar_one_or_none raises when there are two presets of the name.
UpsertPreset(r, n, plan) ==
  /\ Cardinality(Named(db, n)) <= 1
  /\ Begin(r, "upsert_preset", <<n, plan>>, AssetSteps)

CreatePreset(r, n) ==
  /\ Named(db, n) = {}
  /\ Begin(r, "create_preset", <<n>>, PlainSteps)

DeletePreset(r, i) ==
  /\ i \in Live(db)
  /\ i \notin db.used
  /\ Begin(r, "delete_preset", <<i>>, PlainSteps)

\* handle_new_research_logic, as far as the preset is concerned
NewSession(r, n) ==
  \E i \in Selected(db, n) :
    /\ Validated(db, i)
    /\ Begin(r, "session", <<i>>, PlainSteps)

-----------------------------------------------------------------------------
(* What a commit makes of the rows: the set of outcomes, empty when a row   *)
(* has gone, a unique index or a foreign key refuses and the request fails. *)

\* An update writes the columns that differ from what the request has read.
WrittenKey(q) ==
  LET p == q.arg[1] IN
  IF (q.saw.key[p] = 0) = (db.key[p] = 0)
  THEN {[db EXCEPT !.key[p] = q.arg[2],
                   !.url[p] = IF q.saw.key[p] # 0 /\ q.arg[3] = q.saw.url[p]
                              THEN @ ELSE q.arg[3]]}
  ELSE {}

WrittenUrl(q) ==
  LET p == q.arg[1] IN
  IF q.arg[2] = q.saw.url[p] THEN {db}
  ELSE IF db.key[p] # 0 THEN {[db EXCEPT !.url[p] = q.arg[2]]} ELSE {}

Without(asset, gone) == [a \in Assets |-> IF a \in gone THEN "gone" ELSE asset[a]]

\* The assets linked to the provider go with it.
WithoutKey(q) ==
  LET p == q.arg[1]
      gone == {a \in db.linked : ProviderOf[a] = p}
  IN IF q.saw.key[p] = 0 THEN {db}
     ELSE {[db EXCEPT !.key[p] = 0, !.asset = Without(@, gone), !.linked = @ \ gone]}

WithAsset(q) ==
  LET a == q.arg[1]
      link == IF q.saw.key[ProviderOf[a]] # 0 THEN {a} ELSE {}
  IN IF /\ q.saw.asset[a] = db.asset[a]
        /\ link # {} => db.key[ProviderOf[a]] # 0
     THEN {[db EXCEPT !.asset[a] = "row", !.linked = (@ \ {a}) \cup link]}
     ELSE {}

WithoutAsset(q) ==
  {[db EXCEPT !.asset = Without(@, {q.arg[1]}), !.linked = @ \ {q.arg[1]}]}

\* A new id; it is never given twice.
WithPreset(row) ==
  {[db EXCEPT !.preset[i] = row] : i \in {j \in Presets : db.preset[j] = NoPreset}}

SavedPreset(q) ==
  LET row == [name |-> q.arg[1], plan |-> q.arg[2]]
      seen == Named(q.saw, q.arg[1])
  IN IF seen = {} THEN WithPreset(row)
     ELSE {[db EXCEPT !.preset[i] = row] : i \in seen \cap Live(db)}

NewPreset(q) == WithPreset([name |-> q.arg[1], plan |-> EmptyPlan])

\* A session that refers to it is left without a preset: still in "used" here.
WithoutPreset(q) == {[db EXCEPT !.preset[q.arg[1]] = GonePreset]}

WithSession(q) ==
  IF q.arg[1] \in Live(db) THEN {[db EXCEPT !.used = @ \cup {q.arg[1]}]} ELSE {}

Written(q) ==
  IF q.op = "set_key" THEN WrittenKey(q)
  ELSE IF q.op = "set_url" THEN WrittenUrl(q)
  ELSE IF q.op = "remove_key" THEN WithoutKey(q)
  ELSE IF q.op = "register" THEN WithAsset(q)
  ELSE IF q.op = "delete_asset" THEN WithoutAsset(q)
  ELSE IF q.op = "upsert_preset" THEN SavedPreset(q)
  ELSE IF q.op = "create_preset" THEN NewPreset(q)
  ELSE IF q.op = "delete_preset" THEN WithoutPreset(q)
  ELSE WithSession(q)

Does(r, step) == request[r].state = "busy" /\ Head(request[r].todo) = step

Advanced(q) ==
  IF Len(q.todo) = 1 THEN Over ELSE [q EXCEPT !.todo = Tail(@)]

\* Entries and look-ups carry a mark, a history variable: "late" says that the
\* invalidation that would have removed the entry has come and gone.
Marked(e) == [e EXCEPT !.late = e.config # NoConfig]

Commit(r) ==
  /\ Does(r, "commit")
  /\ \E d \in Written(request[r]) : db' = d
  /\ request' = [request EXCEPT ![r] = Advanced(@)]
  /\ lookup' = [w \in Workers |-> Marked(lookup[w])]
  /\ UNCHANGED <<cache, inbox, listening>>

\* The handler raises; nothing it has not done yet is done.
CommitFails(r) ==
  /\ Does(r, "commit")
  /\ request' = [request EXCEPT ![r] = Over]
  /\ UNCHANGED <<db, cache, lookup, inbox, listening>>

\* publish_llm_cache_invalidation: a subscriber gets the message, who is not
\* subscribed never hears of it; an unreachable Redis is no error either.
Publish(r, reached) ==
  /\ Does(r, "publish")
  /\ inbox' = [w \in Workers |-> inbox[w] \/ (reached /\ listening[w])]
  /\ cache' = [w \in Workers |-> IF reached /\ listening[w] THEN cache[w]
                                 ELSE [i \in Presets |-> Marked(cache[w][i])]]
  /\ request' = [request EXCEPT ![r] = Advanced(@)]
  /\ UNCHANGED <<db, lookup, listening>>

-----------------------------------------------------------------------------
(* The workers: get_llm_for_stage, the listener, the age of the entries.   *)

Entry(c, late) == [config |-> c, old |-> FALSE, late |-> late]
NoEntry == Entry(NoConfig, FALSE)
EmptyCache == [i \in Presets |-> NoEntry]
Idle == [preset |-> CHOOSE i \in Presets : TRUE, config |-> NoConfig, late |-> FALSE]

\* Mutant: a hit renews the life of an entry.
OnHitRenewed(e) == [e EXCEPT !.old = FALSE]

\* A hit returns the entry and leaves its time of expiry alone.
OnHit(e) == e

Hit(w, i) ==
  /\ cache[w][i] # NoEntry
  /\ cache' = [cache EXCEPT ![w][i] = OnHit(@)]
  /\ UNCHANGED <<db, request, lookup, inbox, listening>>

\* A miss opens a session of its own and reads row by row, each in a statement
\* of its own: the preset, the asset, the key, the base URL.
Miss(w, i) ==
  /\ lookup[w] = Idle
  /\ cache[w][i] = NoEntry
  /\ i \in Live(db)
  /\ db.preset[i].plan[1] # NoAsset
  /\ lookup' = [lookup EXCEPT ![w] =
       [preset |-> i, config |-> <<db.preset[i].plan[1]>>, late |-> FALSE]]
  /\ UNCHANGED <<db, request, cache, inbox, listening>>

Reads(w, column) ==
  lookup' = [lookup EXCEPT ![w].config = Append(@, column)]

\* The asset must still be there; then its provider's key.
ReadKey(w) ==
  /\ Len(lookup[w].config) = 1
  /\ LET a == lookup[w].config[1] IN
       /\ a \in Registered(db)
       /\ db.key[ProviderOf[a]] # 0
       /\ Reads(w, db.key[ProviderOf[a]])
  /\ UNCHANGED <<db, request, cache, inbox, listening>>

\* The base URL is selected once more, without a look whether the row is there.
ReadUrl(w) ==
  /\ Len(lookup[w].config) = 2
  /\ Reads(w, db.url[ProviderOf[lookup[w].config[1]]])
  /\ UNCHANGED <<db, request, cache, inbox, listening>>

\* A request whose broadcast went out before its commit.
Early == \E r \in Requests : Does(r, "commit") /\ request[r].op \in {"set_key", "set_url", "remove_key"}

\* The instance goes into the cache whatever has happened since the reading.
Put(w) ==
  /\ Len(lookup[w].config) = 3
  /\ cache' = [cache EXCEPT ![w][lookup[w].preset] =
                 Entry(lookup[w].config, lookup[w].late \/ Early)]
  /\ lookup' = [lookup EXCEPT ![w] = Idle]
  /\ UNCHANGED <<db, request, inbox, listening>>

\* A row was not there: the error reaches the run, and nothing is cached.
LookupFails(w) ==
  /\ Len(lookup[w].config) = 1
  /\ LET a == lookup[w].config[1] IN a \notin Registered(db) \/ db.key[ProviderOf[a]] = 0
  /\ lookup' = [lookup EXCEPT ![w] = Idle]
  /\ UNCHANGED <<db, request, cache, inbox, listening>>

\* invalidate_llm_cache, on a message
Hear(w) ==
  /\ inbox[w]
  /\ inbox' = [inbox EXCEPT ![w] = FALSE]
  /\ cache' = [cache EXCEPT ![w] = EmptyCache]
  /\ UNCHANGED <<db, request, lookup, listening>>

\* An error ends the subscription and what it had not delivered yet.
ListenerFails(w) ==
  /\ listening[w]
  /\ listening' = [listening EXCEPT ![w] = FALSE]
  /\ inbox' = [inbox EXCEPT ![w] = FALSE]
  /\ cache' = IF inbox[w]
              THEN [cache EXCEPT ![w] = [i \in Presets |-> Marked(@[i])]] ELSE cache
  /\ UNCHANGED <<db, request, lookup>>

\* Five seconds later; the cache is not cleared.
Resubscribe(w) ==
  /\ ~listening[w]
  /\ listening' = [listening EXCEPT ![w] = TRUE]
  /\ UNCHANGED <<db, request, cache, lookup, inbox>>

\* Time passes for an entry: after two such steps its TTL has expired.
Age(w, i) ==
  /\ cache[w][i] # NoEntry
  /\ cache' = [cache EXCEPT ![w][i] = IF @.old THEN NoEntry ELSE [@ EXCEPT !.old = TRUE]]
  /\ UNCHANGED <<db, request, lookup, inbox, listening>>

-----------------------------------------------------------------------------
Init ==
  /\ db \in {d \in Rows : /\ \A p \in Providers : d.key[p] = 1 /\ d.url[p] = 1
                          /\ d.asset = [a \in Assets |-> "row"]
                          /\ d.linked = Assets /\ d.used = {}
                          /\ Cardinality(Live(d)) = 1
                          /\ \A i \in Live(d) : Readable(d, i)
                          /\ \A i \in Presets : d.preset[i] # GonePreset}
  /\ request = [r \in Requests |-> Ready]
  /\ cache = [w \in Workers |-> EmptyCache]
  /\ lookup = [w \in Workers |-> Idle]
  /\ inbox = [w \in Workers |-> FALSE]
  /\ listening = [w \in Workers |-> FALSE]

Ask(r) ==
  \/ \E p \in Providers : RemoveKey(r, p)
  \/ \E p \in Providers, u \in Versions : SetUrl(r, p, u)
  \/ \E p \in Providers, k \in Versions \ {0}, u \in Versions : SetKey(r, p, k, u)
  \/ \E a \in Assets : RegisterAsset(r, a) \/ DeleteAsset(r, a)
  \/ \E n \in Names, plan \in Plans : UpsertPreset(r, n, plan)
  \/ \E n \in Names : CreatePreset(r, n) \/ NewSession(r, n)
  \/ \E i \in Presets : DeletePreset(r, i)

Work(w) ==
  \/ ReadKey(w) \/ ReadUrl(w) \/ Put(w) \/ LookupFails(w)
  \/ Hear(w) \/ ListenerFails(w) \/ Resubscribe(w)
  \/ \E i \in Presets : Miss(w, i) \/ Hit(w, i) \/ Age(w, i)

Next ==
  \/ \E r \in Requests : Ask(r) \/ Commit(r) \/ CommitFails(r)
  \/ \E r \in Requests, reached \in BOOLEAN : Publish(r, reached)
  \/ \E w \in Workers : Work(w)

Spec == Init /\ [][Next]_vars

\* Handlers and look-ups get on, and time passes.
FairSpec ==
  /\ Spec
  /\ \A r \in Requests : WF_vars(Commit(r) \/ CommitFails(r))
                         /\ WF_vars(\E reached \in BOOLEAN : Publish(r, reached))
  /\ \A w \in Workers : WF_vars(ReadKey(w) \/ ReadUrl(w) \/ Put(w) \/ LookupFails(w))
  /\ \A w \in Workers, i \in Presets : WF_vars(Age(w, i))

-----------------------------------------------------------------------------
(* Properties.                                                             *)

EntryType == [config : Configs, old : BOOLEAN, late : BOOLEAN]
LookupType == [preset : Presets, late : BOOLEAN,
               config : Configs \cup {<<a>> : a \in Assets} \cup (Assets \X Versions)]

TypeOK ==
  /\ db \in Rows
  /\ \A r \in Requests :
       \/ request[r] \in {Ready, Over}
       \/ /\ request[r].state = "busy" /\ request[r].op \in Operations
          /\ request[r].saw \in Rows
          /\ request[r].todo \in {AssetSteps, SecretSteps, PlainSteps} \cup {<<s>> : s \in Steps}
  /\ cache \in [Workers -> [Presets -> EntryType]]
  /\ lookup \in [Workers -> LookupType]
  /\ inbox \in [Workers -> BOOLEAN] /\ listening \in [Workers -> BOOLEAN]

\* A cached instance differs from what the rows say only for a reason: its
\* invalidation is still to come, or (late) it was read before a commit and put
\* after it, or was missed by the broadcast.
StaleEntryIsExplained ==
  \A w \in Workers, i \in Presets :
    LET e == cache[w][i] IN
      e # NoEntry /\ Readable(db, i) /\ e.config # ConfigOf(db, i) =>
        e.late \/ inbox[w] \/ \E r \in Requests : Does(r, "publish")

\* Whatever raced and whatever was lost, the caches come to agree with the rows
\* once nothing changes any more.
CachesSettle ==
  \A w \in Workers, i \in Presets :
    <>[](cache[w][i] = NoEntry \/ cache[w][i].config = ConfigOf(db, i))

\* What the checks of the requests are to prevent: an asset that is bound and
\* not registered, a session without its preset, a name of two presets.
Missing(d) == BoundAssets(d) \ Registered(d)
Orphans(d) == d.used \ Live(d)
Doubled(d) == {n \in Names : Cardinality(Named(d, n)) > 1}

\* The request commits, on other rows than it has checked ...
Commits(r) == Does(r, "commit") /\ request'[r] # request[r]
Overlaps(r) == Commits(r) /\ request[r].saw # db

\* ... or it saves a plan of a page that has not heard that the asset is gone.
SavesStale(r, a) ==
  /\ Commits(r)
  /\ request[r].op = "upsert_preset"
  /\ a \in Binds([plan |-> request[r].arg[2]]) \ Registered(request[r].saw)

\* Two presets come to have one name, or a session loses its preset, only by a
\* request that overlaps another one; a preset comes to bind a missing asset
\* also by the save of a stale page, which nothing checks.
OnlyOverlapBreaks ==
  [][/\ \A a \in Missing(db') \ Missing(db) :
          \E r \in Requests : Overlaps(r) \/ SavesStale(r, a)
     /\ \/ Doubled(db') \subseteq Doubled(db) /\ Orphans(db') \subseteq Orphans(db)
        \/ \E r \in Requests : Overlaps(r)]_vars
=============================================================================
