------------------------- MODULE ModelSettingsProofs -------------------------
(***************************************************************************)
(* Theorems about ModelSettings for any number of workers, requests,       *)
(* providers, assets, presets, names, keys and base URLs.                  *)
(***************************************************************************)
EXTENDS ModelSettings, FiniteSetTheorems, TLAPS

-----------------------------------------------------------------------------
(* The requests under way: what each operation carries, what it has left   *)
(* to do, and what it has checked in the rows it saw.                      *)

SecretOps == {"set_key", "set_url", "remove_key"}
AssetOps == {"register", "delete_asset", "upsert_preset"}
PlainOps == {"create_preset", "delete_preset", "session"}

Argued(q) ==
  \/ q.op = "set_key" /\ q.arg \in Providers \X Versions \X Versions
  \/ q.op = "set_url" /\ q.arg \in Providers \X Versions
  \/ q.op = "remove_key" /\ q.arg \in {<<p>> : p \in Providers}
  \/ q.op \in {"register", "delete_asset"} /\ q.arg \in {<<a>> : a \in Assets}
  \/ q.op = "upsert_preset" /\ q.arg \in Names \X Plans
  \/ q.op = "create_preset" /\ q.arg \in {<<n>> : n \in Names}
  \/ q.op \in {"delete_preset", "session"} /\ q.arg \in {<<i>> : i \in Presets}

Ordered(q) ==
  \/ q.op \in SecretOps /\ q.todo \in {SecretSteps, <<"commit">>}
  \/ q.op \in AssetOps /\ q.todo \in {AssetSteps, <<"publish">>}
  \/ q.op \in PlainOps /\ q.todo = <<"commit">>

Checked(q) ==
  /\ q.op = "remove_key" =>
       \A a \in Registered(q.saw) \cap BoundAssets(q.saw) : ProviderOf[a] # q.arg[1]
  /\ q.op = "delete_asset" => q.arg[1] \notin BoundAssets(q.saw)
  /\ q.op = "upsert_preset" => Cardinality(Named(q.saw, q.arg[1])) <= 1
  /\ q.op = "create_preset" => Named(q.saw, q.arg[1]) = {}
  /\ q.op = "delete_preset" => q.arg[1] \notin q.saw.used

Accepted(q) ==
  /\ q = [state |-> "busy", op |-> q.op, arg |-> q.arg, saw |-> q.saw, todo |-> q.todo]
  /\ q.op \in Operations /\ q.saw \in Rows
  /\ Argued(q) /\ Ordered(q) /\ Checked(q)

RequestsInv ==
  /\ DOMAIN request = Requests
  /\ \A r \in Requests : request[r] \in {Ready, Over} \/ Accepted(request[r])

-----------------------------------------------------------------------------
(* The caches.                                                             *)

\* Every entry is an instance or nothing.
EntriesAreWhole ==
  \A w \in Workers, i \in Presets : cache[w][i].config = NoConfig => cache[w][i] = NoEntry

\* While a request that has broadcast too early has yet to commit, whatever is
\* cached is marked or about to be thrown away.
EarlyIsCovered ==
  Early => \A w \in Workers, i \in Presets :
             cache[w][i] # NoEntry => cache[w][i].late \/ inbox[w]

\* A look-up no commit has overtaken has read what the rows still say.
FreshLookup ==
  \A w \in Workers :
    LET l == lookup[w] IN
      ~l.late /\ Readable(db, l.preset) =>
        \A k \in 1..Len(l.config) : l.config[k] = ConfigOf(db, l.preset)[k]

CacheInv == EntriesAreWhole /\ EarlyIsCovered /\ FreshLookup /\ StaleEntryIsExplained

-----------------------------------------------------------------------------
(* What a commit makes of the rows.                                        *)

\* The names of the operations are told apart one by one, as Written does.
LEMMA WrittenBy ==
  ASSUME NEW q, Argued(q)
  PROVE  \/ q.op = "set_key" /\ Written(q) = WrittenKey(q)
         \/ q.op = "set_url" /\ Written(q) = WrittenUrl(q)
         \/ q.op = "remove_key" /\ Written(q) = WithoutKey(q)
         \/ q.op = "register" /\ Written(q) = WithAsset(q)
         \/ q.op = "delete_asset" /\ Written(q) = WithoutAsset(q)
         \/ q.op = "upsert_preset" /\ Written(q) = SavedPreset(q)
         \/ q.op = "create_preset" /\ Written(q) = NewPreset(q)
         \/ q.op = "delete_preset" /\ Written(q) = WithoutPreset(q)
         \/ q.op = "session" /\ Written(q) = WithSession(q)
BY DEF Argued, Written

\* The fields of the rows and what an update of some of them leaves.
LEMMA RowFields ==
  ASSUME NEW d \in Rows
  PROVE  /\ d = [key |-> d.key, url |-> d.url, asset |-> d.asset, linked |-> d.linked,
                 preset |-> d.preset, used |-> d.used]
         /\ d.key \in [Providers -> Versions] /\ d.url \in [Providers -> Versions]
         /\ d.asset \in [Assets -> {"none", "row", "gone"}] /\ d.linked \in SUBSET Assets
         /\ d.preset \in [Presets -> PresetRow \cup {NoPreset, GonePreset}]
         /\ d.used \in SUBSET Presets
BY DEF Rows

\* Providers: the key and the base URL, or the base URL alone; nothing else.
LEMMA KeyWritten ==
  ASSUME NEW q, Accepted(q), q.op \in {"set_key", "set_url"}, db \in Rows, NEW d \in Written(q)
  PROVE  /\ d \in Rows
         /\ d.asset = db.asset /\ d.linked = db.linked /\ d.preset = db.preset /\ d.used = db.used
<1>1. CASE q.op = "set_key"
  <2>1. PICK p \in Providers, k \in Versions, u \in Versions : q.arg = <<p, k, u>>
    BY <1>1 DEF Accepted, Argued
  <2>2. d \in WrittenKey(q)
    BY <1>1 DEF Written
  <2>3. q.arg[1] = p /\ q.arg[2] = k /\ q.arg[3] = u
    BY <2>1
  <2> DEFINE v == IF q.saw.key[p] # 0 /\ u = q.saw.url[p] THEN db.url[p] ELSE u
  <2>4. d = [db EXCEPT !.key[p] = k, !.url[p] = IF q.saw.key[p] # 0 /\ u = q.saw.url[p] THEN @ ELSE u]
    BY <2>2, <2>3 DEF WrittenKey
  <2>5. d = [key |-> [db.key EXCEPT ![p] = k], url |-> [db.url EXCEPT ![p] = v],
             asset |-> db.asset, linked |-> db.linked, preset |-> db.preset, used |-> db.used]
    <3> DEFINE d1 == [db EXCEPT !.key[p] = k]
    <3>1. d1 = [key |-> [db.key EXCEPT ![p] = k], url |-> db.url, asset |-> db.asset,
                linked |-> db.linked, preset |-> db.preset, used |-> db.used]
      BY RowFields DEF Rows
    <3>2. d = [d1 EXCEPT !.url[p] = v]
      <4>1. d1.url = db.url
        BY <3>1
      <4> QED
        BY <2>4, <4>1
    <3> HIDE DEF d1, v
    <3> QED
      BY <3>1, <3>2
  <2>6. v \in Versions
    BY RowFields
  <2> QED
    BY <2>5, <2>6, RowFields DEF Rows
<1>2. CASE q.op = "set_url"
  <2>1. PICK p \in Providers, u \in Versions : q.arg = <<p, u>>
    BY <1>2 DEF Accepted, Argued
  <2>2. d \in WrittenUrl(q)
    BY <1>2 DEF Written
  <2>3. d = db \/ d = [db EXCEPT !.url[p] = u]
    BY <2>1, <2>2 DEF WrittenUrl
  <2> QED
    BY <2>3, RowFields DEF Rows
<1> QED
  BY <1>1, <1>2

\* Assets: one is added, some go; presets and sessions are left alone.
LEMMA AssetsWritten ==
  ASSUME NEW q, Accepted(q), q.op \in {"remove_key", "register", "delete_asset"},
         db \in Rows, NEW d \in Written(q)
  PROVE  /\ d \in Rows
         /\ d.preset = db.preset /\ d.used = db.used
         /\ q.op = "register" => Registered(db) \subseteq Registered(d)
         /\ q.op = "delete_asset" => Registered(db) \ {q.arg[1]} \subseteq Registered(d)
         /\ q.op = "remove_key" =>
              \A a \in Registered(db) : ProviderOf[a] # q.arg[1] => a \in Registered(d)
<1>1. CASE q.op = "remove_key"
  <2>1. PICK p \in Providers : q.arg = <<p>>
    BY <1>1 DEF Accepted, Argued
  <2> DEFINE gone == {a \in db.linked : ProviderOf[a] = p}
  <2>2. d \in WithoutKey(q)
    BY <1>1 DEF Written
  <2>3. \/ d = db
        \/ d = [key |-> [db.key EXCEPT ![p] = 0], url |-> db.url, asset |-> Without(db.asset, gone),
                linked |-> db.linked \ gone, preset |-> db.preset, used |-> db.used]
    <3>1. CASE q.saw.key[p] = 0
      BY <2>1, <2>2, <3>1 DEF WithoutKey
    <3>2. CASE q.saw.key[p] # 0
      <4>1. d = [db EXCEPT !.key[p] = 0, !.asset = Without(@, gone), !.linked = @ \ gone]
        BY <2>1, <2>2, <3>2 DEF WithoutKey
      <4> DEFINE d1 == [db EXCEPT !.key[p] = 0]
                 d2 == [d1 EXCEPT !.asset = Without(db.asset, gone)]
      <4>2. d1 = [key |-> [db.key EXCEPT ![p] = 0], url |-> db.url, asset |-> db.asset,
                  linked |-> db.linked, preset |-> db.preset, used |-> db.used]
        BY RowFields DEF Rows
      <4>3. d = [d2 EXCEPT !.linked = db.linked \ gone]
        BY <4>1
      <4> HIDE DEF gone, d1
      <4>4. d2 = [d1 EXCEPT !.asset = Without(db.asset, gone)]
        OBVIOUS
      <4>5. d2 = [key |-> [db.key EXCEPT ![p] = 0], url |-> db.url, asset |-> Without(db.asset, gone),
                  linked |-> db.linked, preset |-> db.preset, used |-> db.used]
        BY <4>2, <4>4
      <4> HIDE DEF d2
      <4> QED
        BY <4>3, <4>5
    <3> QED
      BY <3>1, <3>2
  <2>4. Without(db.asset, gone) \in [Assets -> {"none", "row", "gone"}]
    BY RowFields DEF Without
  <2>5. d \in Rows /\ d.preset = db.preset /\ d.used = db.used
    BY <2>3, <2>4, RowFields, SettingsAssumption DEF Rows, Versions
  <2>6. \A a \in Registered(db) : ProviderOf[a] # p => a \in Registered(d)
    BY <2>3, RowFields DEF Registered, Without
  <2> QED
    BY <1>1, <2>1, <2>5, <2>6
<1>2. CASE q.op = "register"
  <2>1. PICK a \in Assets : q.arg = <<a>>
    BY <1>2 DEF Accepted, Argued
  <2>2. d \in WithAsset(q)
    BY <1>2 DEF Written
  <2> DEFINE link == IF q.saw.key[ProviderOf[a]] # 0 THEN {a} ELSE {}
  <2>3. d = [db EXCEPT !.asset[a] = "row", !.linked = (@ \ {a}) \cup link]
    BY <2>1, <2>2 DEF WithAsset
  <2>4. link \subseteq {a}
    OBVIOUS
  <2> HIDE DEF link
  <2>5. d = [key |-> db.key, url |-> db.url, asset |-> [db.asset EXCEPT ![a] = "row"],
             linked |-> (db.linked \ {a}) \cup link, preset |-> db.preset, used |-> db.used]
    <3> DEFINE d1 == [db EXCEPT !.asset[a] = "row"]
    <3>1. d1 = [key |-> db.key, url |-> db.url, asset |-> [db.asset EXCEPT ![a] = "row"],
                linked |-> db.linked, preset |-> db.preset, used |-> db.used]
      BY RowFields DEF Rows
    <3>2. d = [d1 EXCEPT !.linked = (db.linked \ {a}) \cup link]
      BY <2>3
    <3> HIDE DEF d1
    <3> QED
      BY <3>1, <3>2
  <2>6. d \in Rows /\ Registered(db) \subseteq Registered(d)
    BY <2>4, <2>5, RowFields DEF Rows, Registered
  <2> QED
    BY <1>2, <2>5, <2>6
<1>3. CASE q.op = "delete_asset"
  <2>1. PICK a \in Assets : q.arg = <<a>>
    BY <1>3 DEF Accepted, Argued
  <2>2. d \in WithoutAsset(q)
    BY <1>3 DEF Written
  <2>3. d = [db EXCEPT !.asset = Without(db.asset, {a}), !.linked = @ \ {a}]
    BY <2>1, <2>2 DEF WithoutAsset
  <2>4. Without(db.asset, {a}) \in [Assets -> {"none", "row", "gone"}]
    BY RowFields DEF Without
  <2>5. d \in Rows /\ d.preset = db.preset /\ d.used = db.used
    BY <2>3, <2>4, RowFields DEF Rows
  <2>6. Registered(db) \ {a} \subseteq Registered(d)
    BY <2>3, RowFields DEF Registered, Without
  <2> QED
    BY <1>3, <2>1, <2>5, <2>6
<1> QED
  BY <1>1, <1>2, <1>3

\* Presets: one is written, new or of that name, or goes.
PresetSet(d, i, row) ==
  /\ d = [key |-> db.key, url |-> db.url, asset |-> db.asset, linked |-> db.linked,
          preset |-> [db.preset EXCEPT ![i] = row], used |-> db.used]
  /\ i \in Presets

LEMMA PresetUpdated ==
  ASSUME db \in Rows, NEW i \in Presets, NEW row
  PROVE  PresetSet([db EXCEPT !.preset[i] = row], i, row)
BY RowFields DEF Rows, PresetSet

\* A preset that is written is a row of the given name and plan.
LEMMA PresetWritten ==
  ASSUME NEW q, Accepted(q), db \in Rows, NEW d \in Written(q)
  PROVE  /\ q.op = "upsert_preset" =>
              \E i \in Presets :
                /\ PresetSet(d, i, [name |-> q.arg[1], plan |-> q.arg[2]])
                /\ \/ i \in Named(q.saw, q.arg[1]) \cap Live(db)
                   \/ Named(q.saw, q.arg[1]) = {} /\ db.preset[i] = NoPreset
         /\ q.op = "create_preset" =>
              \E i \in Presets : /\ PresetSet(d, i, [name |-> q.arg[1], plan |-> EmptyPlan])
                                 /\ db.preset[i] = NoPreset
         /\ q.op = "delete_preset" => PresetSet(d, q.arg[1], GonePreset)
<1>1. CASE q.op = "upsert_preset"
  <2>1. d \in SavedPreset(q)
    BY <1>1 DEF Written
  <2> DEFINE row == [name |-> q.arg[1], plan |-> q.arg[2]]
             seen == Named(q.saw, q.arg[1])
  <2>2. \E i \in Presets : /\ d = [db EXCEPT !.preset[i] = row]
                           /\ \/ i \in seen \cap Live(db)
                              \/ seen = {} /\ db.preset[i] = NoPreset
    <3>1. CASE seen = {}
      BY <2>1, <3>1 DEF SavedPreset, WithPreset
    <3>2. CASE seen # {}
      <4>1. \E i \in seen \cap Live(db) : d = [db EXCEPT !.preset[i] = row]
        BY <2>1, <3>2 DEF SavedPreset
      <4> QED
        BY <4>1 DEF Live
    <3> QED
      BY <3>1, <3>2
  <2> QED
    BY <1>1, <2>2, PresetUpdated
<1>2. CASE q.op = "create_preset"
  <2>1. d \in NewPreset(q)
    BY <1>2 DEF Written
  <2>2. \E i \in Presets : /\ d = [db EXCEPT !.preset[i] = [name |-> q.arg[1], plan |-> EmptyPlan]]
                           /\ db.preset[i] = NoPreset
    BY <2>1 DEF NewPreset, WithPreset
  <2> QED
    BY <1>2, <2>2, PresetUpdated
<1>3. CASE q.op = "delete_preset"
  <2>1. PICK i \in Presets : q.arg = <<i>>
    BY <1>3 DEF Accepted, Argued
  <2>2. d = [db EXCEPT !.preset[i] = GonePreset]
    BY <1>3, <2>1 DEF Written, WithoutPreset
  <2> QED
    BY <1>3, <2>1, <2>2, PresetUpdated
<1> QED
  BY <1>1, <1>2, <1>3

\* A session is kept with the preset it was started with.
LEMMA SessionWritten ==
  ASSUME NEW q, Accepted(q), q.op = "session", db \in Rows, NEW d \in Written(q)
  PROVE  /\ d = [key |-> db.key, url |-> db.url, asset |-> db.asset, linked |-> db.linked,
                 preset |-> db.preset, used |-> db.used \cup {q.arg[1]}]
         /\ q.arg[1] \in Live(db)
<1>1. d \in WithSession(q)
  BY DEF Written
<1>2. d = [db EXCEPT !.used = @ \cup {q.arg[1]}] /\ q.arg[1] \in Live(db)
  BY <1>1 DEF WithSession
<1> QED
  BY <1>2, RowFields DEF Rows

\* Whatever is written, the rows stay rows.
LEMMA WrittenRows ==
  ASSUME NEW q, Accepted(q), db \in Rows, NEW d \in Written(q)
  PROVE  d \in Rows
<1>1. CASE q.op \in {"set_key", "set_url"}
  BY <1>1, KeyWritten
<1>2. CASE q.op \in {"remove_key", "register", "delete_asset"}
  BY <1>2, AssetsWritten
<1>3. ASSUME NEW i \in Presets, NEW row \in PresetRow \cup {NoPreset, GonePreset},
             PresetSet(d, i, row)
      PROVE  d \in Rows
  BY <1>3, RowFields DEF PresetSet, Rows
<1>4. CASE q.op = "upsert_preset"
  <2>1. q.arg \in Names \X Plans
    BY <1>4 DEF Accepted, Argued
  <2>2. [name |-> q.arg[1], plan |-> q.arg[2]] \in PresetRow
    BY <2>1 DEF PresetRow
  <2> QED
    BY <1>3, <1>4, <2>2, PresetWritten
<1>5. CASE q.op = "create_preset"
  <2>1. q.arg \in {<<n>> : n \in Names}
    BY <1>5 DEF Accepted, Argued
  <2>2. [name |-> q.arg[1], plan |-> EmptyPlan] \in PresetRow
    BY <2>1 DEF PresetRow
  <2> QED
    BY <1>3, <1>5, <2>2, PresetWritten
<1>6. CASE q.op = "delete_preset"
  <2>1. q.arg \in {<<i>> : i \in Presets}
    BY <1>6 DEF Accepted, Argued
  <2>2. q.arg[1] \in Presets
    BY <2>1
  <2>3. PresetSet(d, q.arg[1], GonePreset)
    BY <1>6, PresetWritten
  <2> QED
    BY <1>3, <2>2, <2>3
<1>7. CASE q.op = "session"
  BY <1>7, SessionWritten, RowFields DEF Rows, Live
<1> QED
  BY <1>1, <1>2, <1>4, <1>5, <1>6, <1>7 DEF Accepted, Argued

-----------------------------------------------------------------------------
(* Requests under way.                                                     *)

\* What a request does next and what is left after that.
LEMMA TodoFacts ==
  ASSUME NEW q, Accepted(q)
  PROVE  /\ q.op \in SecretOps =>
              \/ Head(q.todo) = "publish" /\ Advanced(q) = [q EXCEPT !.todo = <<"commit">>]
              \/ Head(q.todo) = "commit" /\ Advanced(q) = Over
         /\ q.op \in AssetOps =>
              \/ Head(q.todo) = "commit" /\ Advanced(q) = [q EXCEPT !.todo = <<"publish">>]
              \/ Head(q.todo) = "publish" /\ Advanced(q) = Over
         /\ q.op \in PlainOps => Head(q.todo) = "commit" /\ Advanced(q) = Over
         /\ q.op \in SecretOps \cup AssetOps \cup PlainOps
         /\ q.state = "busy" /\ q # Over
         /\ q.todo \in {AssetSteps, SecretSteps, PlainSteps} \cup {<<s>> : s \in Steps}
<1>1. /\ Len(<<"commit", "publish">>) = 2 /\ Head(<<"commit", "publish">>) = "commit"
      /\ Tail(<<"commit", "publish">>) = <<"publish">>
      /\ Len(<<"publish", "commit">>) = 2 /\ Head(<<"publish", "commit">>) = "publish"
      /\ Tail(<<"publish", "commit">>) = <<"commit">>
      /\ Len(<<"commit">>) = 1 /\ Head(<<"commit">>) = "commit"
      /\ Len(<<"publish">>) = 1 /\ Head(<<"publish">>) = "publish"
  OBVIOUS
<1>2. Ordered(q)
  BY DEF Accepted
<1>3. q.state = "busy" /\ q # Over
  BY DEF Accepted, Over
<1>4. CASE q.op \in SecretOps /\ q.todo = SecretSteps
  BY <1>1, <1>3, <1>4 DEF Advanced, SecretSteps, SecretOps, AssetOps, PlainOps
<1>5. CASE q.op \in SecretOps /\ q.todo = <<"commit">>
  BY <1>1, <1>3, <1>5 DEF Advanced, SecretOps, AssetOps, PlainOps, Steps
<1>6. CASE q.op \in AssetOps /\ q.todo = AssetSteps
  BY <1>1, <1>3, <1>6 DEF Advanced, AssetSteps, SecretOps, AssetOps, PlainOps
<1>7. CASE q.op \in AssetOps /\ q.todo = <<"publish">>
  BY <1>1, <1>3, <1>7 DEF Advanced, SecretOps, AssetOps, PlainOps, Steps
<1>8. CASE q.op \in PlainOps /\ q.todo = <<"commit">>
  BY <1>1, <1>3, <1>8 DEF Advanced, SecretOps, AssetOps, PlainOps, Steps
<1> QED
  BY <1>2, <1>4, <1>5, <1>6, <1>7, <1>8 DEF Ordered

\* A request that has done a step is still as it was accepted.
LEMMA AdvancedIsAccepted ==
  ASSUME NEW q, Accepted(q)
  PROVE  Advanced(q) = Over \/ Accepted(Advanced(q))
<1>1. ASSUME NEW s \in Steps, Advanced(q) = [q EXCEPT !.todo = <<s>>],
             q.op \in SecretOps => s = "commit", q.op \in AssetOps => s = "publish",
             q.op \notin PlainOps
      PROVE  Accepted(Advanced(q))
  <2> DEFINE z == Advanced(q)
  <2>1. z = [state |-> "busy", op |-> q.op, arg |-> q.arg, saw |-> q.saw, todo |-> <<s>>]
    BY <1>1 DEF Accepted
  <2> HIDE DEF z
  <2>2. /\ z.op = q.op /\ z.arg = q.arg /\ z.saw = q.saw /\ z.todo = <<s>>
        /\ z = [state |-> "busy", op |-> z.op, arg |-> z.arg, saw |-> z.saw, todo |-> z.todo]
    BY <2>1
  <2>3. z.op \in Operations /\ z.saw \in Rows /\ Argued(z) /\ Checked(z)
    BY <2>2 DEF Accepted, Argued, Checked
  <2>4. Ordered(z)
    BY <1>1, <2>2 DEF Accepted, Ordered
  <2>5. Accepted(z)
    BY <2>2, <2>3, <2>4 DEF Accepted
  <2> QED
    BY <2>5 DEF z
<1> QED
  BY <1>1, TodoFacts DEF Steps, SecretOps, AssetOps, PlainOps

\* A new request is accepted with what its handler has read and checked.
LEMMA Begins ==
  ASSUME RequestsInv, NEW r \in Requests, NEW op, NEW arg, NEW steps, Begin(r, op, arg, steps),
         Accepted([state |-> "busy", op |-> op, arg |-> arg, saw |-> db, todo |-> steps])
  PROVE  RequestsInv'
BY DEF RequestsInv, Begin

LEMMA AskAccepts ==
  ASSUME TypeOK, RequestsInv, NEW r \in Requests, Ask(r)
  PROVE  RequestsInv' /\ UNCHANGED <<db, cache, lookup, inbox, listening>>
<1> DEFINE Q(op, arg, steps) ==
      [state |-> "busy", op |-> op, arg |-> arg, saw |-> db, todo |-> steps]
<1> USE DEF TypeOK
<1>1. ASSUME NEW p \in Providers, RemoveKey(r, p) PROVE RequestsInv'
  <2>1. Accepted(Q("remove_key", <<p>>, SecretSteps))
    BY <1>1 DEF RemoveKey, Begin, Accepted, Argued, Ordered, Checked, SecretOps
  <2> QED
    BY <1>1, <2>1, Begins DEF RemoveKey
<1>2. ASSUME NEW p \in Providers, NEW u \in Versions, SetUrl(r, p, u) PROVE RequestsInv'
  <2>1. Accepted(Q("set_url", <<p, u>>, SecretSteps))
    BY <1>2 DEF SetUrl, Begin, Accepted, Argued, Ordered, Checked, SecretOps
  <2> QED
    BY <1>2, <2>1, Begins DEF SetUrl
<1>3. ASSUME NEW p \in Providers, NEW k \in Versions, NEW u \in Versions, SetKey(r, p, k, u)
      PROVE  RequestsInv'
  <2>1. Accepted(Q("set_key", <<p, k, u>>, SecretSteps))
    BY <1>3 DEF SetKey, Begin, Accepted, Argued, Ordered, Checked, SecretOps
  <2> QED
    BY <1>3, <2>1, Begins DEF SetKey
<1>4. ASSUME NEW a \in Assets, RegisterAsset(r, a) PROVE RequestsInv'
  <2>1. Accepted(Q("register", <<a>>, AssetSteps))
    BY <1>4 DEF RegisterAsset, Begin, Accepted, Argued, Ordered, Checked, AssetOps
  <2> QED
    BY <1>4, <2>1, Begins DEF RegisterAsset
<1>5. ASSUME NEW a \in Assets, DeleteAsset(r, a) PROVE RequestsInv'
  <2>1. Accepted(Q("delete_asset", <<a>>, AssetSteps))
    BY <1>5 DEF DeleteAsset, Begin, Accepted, Argued, Ordered, Checked, AssetOps
  <2> QED
    BY <1>5, <2>1, Begins DEF DeleteAsset
<1>6. ASSUME NEW n \in Names, NEW plan \in Plans, UpsertPreset(r, n, plan) PROVE RequestsInv'
  <2>1. Accepted(Q("upsert_preset", <<n, plan>>, AssetSteps))
    BY <1>6 DEF UpsertPreset, Begin, Accepted, Argued, Ordered, Checked, AssetOps
  <2> QED
    BY <1>6, <2>1, Begins DEF UpsertPreset
<1>7. ASSUME NEW n \in Names, CreatePreset(r, n) PROVE RequestsInv'
  <2>1. Accepted(Q("create_preset", <<n>>, PlainSteps))
    BY <1>7 DEF CreatePreset, Begin, Accepted, Argued, Ordered, Checked, PlainOps, PlainSteps
  <2> QED
    BY <1>7, <2>1, Begins DEF CreatePreset
<1>8. ASSUME NEW n \in Names, NewSession(r, n) PROVE RequestsInv'
  <2>1. PICK i \in Selected(db, n) : Begin(r, "session", <<i>>, PlainSteps)
    BY <1>8 DEF NewSession
  <2>2. i \in Presets
    BY DEF Selected, Named, Live
  <2>3. Accepted(Q("session", <<i>>, PlainSteps))
    BY <2>1, <2>2 DEF Begin, Accepted, Argued, Ordered, Checked, PlainOps, PlainSteps
  <2> QED
    BY <2>1, <2>3, Begins
<1>9. ASSUME NEW i \in Presets, DeletePreset(r, i) PROVE RequestsInv'
  <2>1. Accepted(Q("delete_preset", <<i>>, PlainSteps))
    BY <1>9 DEF DeletePreset, Begin, Accepted, Argued, Ordered, Checked, PlainOps, PlainSteps
  <2> QED
    BY <1>9, <2>1, Begins DEF DeletePreset
<1>10. RequestsInv'
  BY <1>1, <1>2, <1>3, <1>4, <1>5, <1>6, <1>7, <1>8, <1>9 DEF Ask
<1>11. UNCHANGED <<db, cache, lookup, inbox, listening>>
  BY DEF Ask, RemoveKey, SetUrl, SetKey, RegisterAsset, DeleteAsset, UpsertPreset,
         CreatePreset, NewSession, DeletePreset, Begin
<1> QED
  BY <1>10, <1>11

-----------------------------------------------------------------------------
(* Type correctness.                                                       *)

\* TypeOK without what it says of requests, which RequestsInv implies.
CachesTyped ==
  /\ db \in Rows
  /\ cache \in [Workers -> [Presets -> EntryType]]
  /\ lookup \in [Workers -> LookupType]
  /\ inbox \in [Workers -> BOOLEAN] /\ listening \in [Workers -> BOOLEAN]

LEMMA RequestsTyped == CachesTyped /\ RequestsInv => TypeOK
<1> SUFFICES ASSUME CachesTyped, RequestsInv PROVE TypeOK
  OBVIOUS
<1>1. ASSUME NEW r \in Requests, request[r] \notin {Ready, Over}
      PROVE  /\ request[r].state = "busy" /\ request[r].op \in Operations
             /\ request[r].saw \in Rows
             /\ request[r].todo \in {AssetSteps, SecretSteps, PlainSteps} \cup {<<s>> : s \in Steps}
  <2>1. Accepted(request[r])
    BY <1>1 DEF RequestsInv
  <2> QED
    BY <2>1, TodoFacts DEF Accepted
<1> QED
  BY <1>1 DEF TypeOK, CachesTyped

LEMMA TypesSplit == TypeOK => CachesTyped
BY DEF TypeOK, CachesTyped

\* How far a look-up has come shows in what it has read.
LEMMA LookupShape ==
  ASSUME NEW l \in LookupType
  PROVE  /\ Len(l.config) \in 0..3
         /\ Len(l.config) = 0 => l.config = NoConfig
         /\ Len(l.config) = 1 => \E a \in Assets : l.config = <<a>>
         /\ Len(l.config) = 2 => \E a \in Assets, v \in Versions : l.config = <<a, v>>
         /\ Len(l.config) = 3 =>
              \E a \in Assets, v \in Versions, u \in Versions : l.config = <<a, v, u>>
<1>1. \/ l.config = NoConfig /\ Len(l.config) = 0
      \/ \E a \in Assets : l.config = <<a>> /\ Len(l.config) = 1
      \/ \E a \in Assets, v \in Versions : l.config = <<a, v>> /\ Len(l.config) = 2
      \/ \E a \in Assets, v \in Versions, u \in Versions :
           l.config = <<a, v, u>> /\ Len(l.config) = 3
  BY DEF LookupType, Configs, NoConfig
<1> QED
  BY <1>1

\* Appending to what has been read.
LEMMA ReadOneMore ==
  ASSUME NEW x, NEW y, NEW z
  PROVE  Append(<<x>>, y) = <<x, y>> /\ Append(<<x, y>>, z) = <<x, y, z>>
<1> DEFINE S == {x, y, z}
           t == Append(<<x>>, y)
           u == Append(<<x, y>>, z)
<1>1. x \in S /\ y \in S /\ z \in S
  OBVIOUS
<1> HIDE DEF S
<1>2. <<x>> \in Seq(S) /\ <<x, y>> \in Seq(S)
  BY <1>1
<1>3. t \in Seq(S) /\ Len(t) = 2 /\ t[1] = x /\ t[2] = y
  BY <1>1, <1>2
<1>4. u \in Seq(S) /\ Len(u) = 3 /\ u[1] = x /\ u[2] = y /\ u[3] = z
  BY <1>1, <1>2
<1> HIDE DEF t, u
<1>5. t = <<x, y>> /\ u = <<x, y, z>>
  BY <1>3, <1>4
<1> QED
  BY <1>5 DEF t, u

\* The mark leaves the rest alone.
LEMMA MarkedFacts ==
  /\ \A e \in EntryType : /\ Marked(e) \in EntryType
                          /\ Marked(e).config = e.config /\ Marked(e).old = e.old
                          /\ Marked(e).late = (e.config # NoConfig)
  /\ \A l \in LookupType : /\ Marked(l) \in LookupType
                           /\ Marked(l).config = l.config /\ Marked(l).preset = l.preset
                           /\ Marked(l).late = (l.config # NoConfig)
<1>1. ASSUME NEW e \in EntryType
      PROVE  Marked(e) = [config |-> e.config, old |-> e.old, late |-> e.config # NoConfig]
  BY DEF Marked, EntryType
<1>2. ASSUME NEW l \in LookupType
      PROVE  Marked(l) = [preset |-> l.preset, late |-> l.config # NoConfig, config |-> l.config]
  BY DEF Marked, LookupType
<1>3. \A e \in EntryType : e.config \in Configs /\ e.old \in BOOLEAN
  BY DEF EntryType
<1>4. \A l \in LookupType : l.preset \in Presets /\ l.config \in Configs \cup {<<a>> : a \in Assets} \cup (Assets \X Versions)
  BY DEF LookupType
<1>5. ASSUME NEW e \in EntryType PROVE Marked(e) \in EntryType
  <2> DEFINE b == e.config # NoConfig
  <2>1. b \in BOOLEAN
    OBVIOUS
  <2>2. Marked(e) = [config |-> e.config, old |-> e.old, late |-> b]
    BY <1>1
  <2> HIDE DEF b
  <2> QED
    BY <1>3, <2>1, <2>2 DEF EntryType
<1>6. ASSUME NEW l \in LookupType PROVE Marked(l) \in LookupType
  <2> DEFINE b == l.config # NoConfig
  <2>1. b \in BOOLEAN
    OBVIOUS
  <2>2. Marked(l) = [preset |-> l.preset, late |-> b, config |-> l.config]
    BY <1>2
  <2> HIDE DEF b
  <2> QED
    BY <1>4, <2>1, <2>2 DEF LookupType
<1> QED
  BY <1>1, <1>2, <1>5, <1>6

LEMMA SameMark ==
  ASSUME NEW e \in EntryType
  PROVE  [e EXCEPT !.late = e.late] = e
BY DEF EntryType

LEMMA NoEntryStays == NoEntry \in EntryType /\ Marked(NoEntry) = NoEntry
<1>1. NoEntry \in EntryType
  BY DEF EntryType, NoEntry, Entry, Configs, NoConfig
<1>2. NoEntry.late = (NoEntry.config # NoConfig)
  BY DEF NoEntry, Entry
<1>3. [NoEntry EXCEPT !.late = NoEntry.late] = NoEntry
  BY <1>1, SameMark
<1> QED
  BY <1>1, <1>2, <1>3 DEF Marked

\* So does growing old.
LEMMA OldFacts ==
  ASSUME NEW e \in EntryType
  PROVE  /\ [e EXCEPT !.old = TRUE] \in EntryType
         /\ [e EXCEPT !.old = TRUE].config = e.config /\ [e EXCEPT !.old = TRUE].late = e.late
<1> DEFINE b == TRUE
<1>1. b \in BOOLEAN
  OBVIOUS
<1> HIDE DEF b
<1>2. [e EXCEPT !.old = b] = [config |-> e.config, old |-> b, late |-> e.late]
  BY DEF EntryType
<1>3. e.config \in Configs /\ e.late \in BOOLEAN
  BY DEF EntryType
<1>4. [e EXCEPT !.old = b] \in EntryType
  BY <1>1, <1>2, <1>3 DEF EntryType
<1>5. [e EXCEPT !.old = b].config = e.config /\ [e EXCEPT !.old = b].late = e.late
  BY <1>2
<1> QED
  BY <1>4, <1>5 DEF b

LEMMA EmptyTyped ==
  ASSUME Presets # {}
  PROVE  Idle \in LookupType /\ EmptyCache \in [Presets -> EntryType] /\ NoEntry \in EntryType
BY DEF Idle, EmptyCache, LookupType, EntryType, NoEntry, Entry, Configs, NoConfig

\* The steps of requests keep the types.
LEMMA RequestStepTypes ==
  ASSUME CachesTyped, RequestsInv, NEW r \in Requests,
         Commit(r) \/ CommitFails(r) \/ \E reached \in BOOLEAN : Publish(r, reached)
  PROVE  CachesTyped' /\ RequestsInv'
<1>1. Accepted(request[r])
  <2>1. request[r].state = "busy"
    BY DEF Commit, CommitFails, Publish, Does
  <2> QED
    BY <2>1 DEF RequestsInv, Ready, Over
<1>2. CASE Commit(r)
  <2>1. db' \in Rows
    BY <1>1, <1>2, WrittenRows DEF Commit, CachesTyped
  <2>2. lookup' \in [Workers -> LookupType]
    BY <1>2, MarkedFacts DEF Commit, CachesTyped
  <2>3. RequestsInv'
    BY <1>1, <1>2, AdvancedIsAccepted DEF Commit, RequestsInv
  <2> QED
    BY <1>2, <2>1, <2>2, <2>3 DEF Commit, CachesTyped
<1>3. CASE CommitFails(r)
  BY <1>3 DEF CommitFails, CachesTyped, RequestsInv
<1>4. ASSUME NEW reached \in BOOLEAN, Publish(r, reached) PROVE CachesTyped' /\ RequestsInv'
  <2>1. RequestsInv'
    BY <1>1, <1>4, AdvancedIsAccepted DEF Publish, RequestsInv
  <2>2. cache' \in [Workers -> [Presets -> EntryType]]
    BY <1>4, MarkedFacts DEF Publish, CachesTyped
  <2> QED
    BY <1>4, <2>1, <2>2 DEF Publish, CachesTyped
<1> QED
  BY <1>2, <1>3, <1>4

\* The steps of a worker keep the types.
LEMMA WorkTypes ==
  ASSUME CachesTyped, NEW w \in Workers, Work(w)
  PROVE  CachesTyped' /\ UNCHANGED <<db, request>>
<1> USE DEF CachesTyped
<1> DEFINE l == lookup[w]
<1>1. l \in LookupType /\ l.preset \in Presets /\ l.late \in BOOLEAN
  BY DEF LookupType
<1>2. Presets # {}
  BY <1>1
<1>3. ASSUME NEW c, c \in Configs \cup {<<a>> : a \in Assets} \cup (Assets \X Versions),
             lookup' = [lookup EXCEPT ![w].config = c]
      PROVE  lookup' \in [Workers -> LookupType]
  <2>1. lookup'[w] = [preset |-> l.preset, late |-> l.late, config |-> c]
    BY <1>3 DEF LookupType
  <2>2. lookup'[w] \in LookupType
    BY <1>1, <1>3, <2>1 DEF LookupType
  <2> QED
    BY <1>3, <2>2
<1>4. CASE ReadKey(w)
  <2>1. PICK a \in Assets : l.config = <<a>>
    <3>1. Len(l.config) = 1
      BY <1>4 DEF ReadKey
    <3> QED
      BY <1>1, <3>1, LookupShape
  <2>2. db.key[ProviderOf[a]] \in Versions
    BY RowFields, SettingsAssumption
  <2> DEFINE k == db.key[ProviderOf[a]]
  <2>3. Append(l.config, k) = <<a, k>> /\ l.config[1] = a
    <3>1. Append(<<a>>, k) = <<a, k>>
      BY ReadOneMore
    <3> QED
      BY <2>1, <3>1
  <2>4. lookup' = [lookup EXCEPT ![w].config = <<a, db.key[ProviderOf[a]]>>]
    BY <1>4, <2>3 DEF ReadKey, Reads
  <2>5. <<a, db.key[ProviderOf[a]]>> \in Assets \X Versions
    BY <2>2
  <2>6. lookup' \in [Workers -> LookupType]
    BY <1>3, <2>4, <2>5
  <2> QED
    BY <1>4, <2>6 DEF ReadKey
<1>5. CASE ReadUrl(w)
  <2>1. PICK a \in Assets, v \in Versions : l.config = <<a, v>>
    <3>1. Len(l.config) = 2
      BY <1>5 DEF ReadUrl
    <3> QED
      BY <1>1, <3>1, LookupShape
  <2>2. db.url[ProviderOf[a]] \in Versions
    BY RowFields, SettingsAssumption
  <2> DEFINE u == db.url[ProviderOf[a]]
  <2>3. Append(l.config, u) = <<a, v, u>> /\ l.config[1] = a
    <3>1. Append(<<a, v>>, u) = <<a, v, u>>
      BY ReadOneMore
    <3> QED
      BY <2>1, <3>1
  <2>4. lookup' = [lookup EXCEPT ![w].config = <<a, v, db.url[ProviderOf[a]]>>]
    BY <1>5, <2>3 DEF ReadUrl, Reads
  <2>5. lookup' \in [Workers -> LookupType]
    BY <1>3, <2>2, <2>4 DEF Configs
  <2> QED
    BY <1>5, <2>5 DEF ReadUrl
<1>6. CASE Put(w)
  <2>1. l.config \in Configs
    <3>1. Len(l.config) = 3
      BY <1>6 DEF Put
    <3> QED
      BY <1>1, <3>1, LookupShape DEF Configs
  <2>2. Entry(l.config, l.late \/ Early) \in EntryType
    BY <2>1 DEF Entry, EntryType
  <2> QED
    BY <1>1, <1>2, <1>6, <2>2, EmptyTyped DEF Put
<1>7. CASE LookupFails(w)
  BY <1>2, <1>7, EmptyTyped DEF LookupFails
<1>8. CASE Hear(w)
  BY <1>2, <1>8, EmptyTyped DEF Hear
<1>9. CASE ListenerFails(w)
  BY <1>9, MarkedFacts DEF ListenerFails
<1>10. CASE Resubscribe(w)
  BY <1>10 DEF Resubscribe
<1>11. ASSUME NEW i \in Presets, Miss(w, i) PROVE CachesTyped' /\ UNCHANGED <<db, request>>
  <2>1. db.preset[i] \in PresetRow
    BY <1>11, RowFields DEF Miss, Live
  <2>2. db.preset[i].plan[1] \in Assets
    BY <1>11, <2>1, SettingsAssumption DEF Miss, PresetRow, EmptyPlan
  <2>3. [preset |-> i, config |-> <<db.preset[i].plan[1]>>, late |-> FALSE] \in LookupType
    BY <2>2 DEF LookupType
  <2> QED
    BY <1>11, <2>3 DEF Miss
<1>12. ASSUME NEW i \in Presets, Hit(w, i) PROVE CachesTyped' /\ UNCHANGED <<db, request>>
  BY <1>12 DEF Hit, OnHit
<1>13. ASSUME NEW i \in Presets, Age(w, i) PROVE CachesTyped' /\ UNCHANGED <<db, request>>
  <2>1. [cache[w][i] EXCEPT !.old = TRUE] \in EntryType
    BY OldFacts
  <2> QED
    BY <1>2, <1>13, <2>1, EmptyTyped DEF Age
<1> QED
  BY <1>4, <1>5, <1>6, <1>7, <1>8, <1>9, <1>10, <1>11, <1>12, <1>13 DEF Work

\* Nobody has asked for anything and nothing is cached.
LEMMA InitTypes == Init => CachesTyped /\ RequestsInv
<1> SUFFICES ASSUME Init PROVE CachesTyped /\ RequestsInv
  OBVIOUS
<1>1. db \in Rows /\ Cardinality(Live(db)) = 1
  BY DEF Init
<1>2. Presets # {}
  <2>1. SUFFICES ASSUME Presets = {} PROVE FALSE
    OBVIOUS
  <2>2. Live(db) = {}
    BY <2>1 DEF Live
  <2>3. Cardinality(Live(db)) = 0
    BY <2>2, FS_EmptySet
  <2> QED
    BY <1>1, <2>3
<1> QED
  BY <1>1, <1>2, EmptyTyped DEF Init, CachesTyped, RequestsInv

LEMMA TypesKept ==
  ASSUME CachesTyped, RequestsInv, [Next]_vars
  PROVE  CachesTyped' /\ RequestsInv'
<1>1. TypeOK
  BY RequestsTyped
<1>2. CASE UNCHANGED vars
  BY <1>2 DEF vars, CachesTyped, RequestsInv
<1>3. ASSUME NEW r \in Requests, Ask(r) PROVE CachesTyped' /\ RequestsInv'
  BY <1>1, <1>3, AskAccepts DEF CachesTyped
<1>4. ASSUME NEW w \in Workers, Work(w) PROVE CachesTyped' /\ RequestsInv'
  BY <1>4, WorkTypes DEF RequestsInv
<1> QED
  BY <1>2, <1>3, <1>4, RequestStepTypes DEF Next

\* The variables keep their types, and requests what they were accepted with.
LEMMA Accepting == Spec => [](CachesTyped /\ RequestsInv)
<1>1. Init => CachesTyped /\ RequestsInv
  BY InitTypes
<1>2. CachesTyped /\ RequestsInv /\ [Next]_vars => (CachesTyped /\ RequestsInv)'
  BY TypesKept
<1> QED
  BY <1>1, <1>2, PTL DEF Spec

\* Every variable keeps its type: settings_service.py, llm.py.
THEOREM TypeCorrect == Spec => []TypeOK
<1>1. CachesTyped /\ RequestsInv => TypeOK
  BY RequestsTyped
<1> QED
  BY <1>1, Accepting, PTL

-----------------------------------------------------------------------------
(* Only requests that overlap, and saves of a stale page, do harm to rows.  *)

\* Rows to which nothing worse has happened than that a preset binds the missing
\* assets of a set.
NoWorse(d, bound) ==
  /\ Missing(d) \ Missing(db) \subseteq bound
  /\ Doubled(d) \subseteq Doubled(db)
  /\ Orphans(d) \subseteq Orphans(db)

\* The missing assets that a save of a preset binds.
Unread(q) == IF q.op = "upsert_preset"
             THEN Binds([plan |-> q.arg[2]]) \ Registered(q.saw) ELSE {}

\* Rows with the same presets have the same live ones, of the same names, that
\* bind the same assets.
LEMMA SamePresets ==
  ASSUME NEW d, NEW e, d.preset = e.preset
  PROVE  /\ Live(d) = Live(e) /\ BoundAssets(d) = BoundAssets(e)
         /\ Doubled(d) = Doubled(e)
<1>1. Live(d) = Live(e)
  BY DEF Live
<1>2. BoundAssets(d) = BoundAssets(e)
  BY <1>1 DEF BoundAssets
<1>3. \A n \in Names : Named(d, n) = Named(e, n)
  BY <1>1 DEF Named
<1>4. Doubled(d) = Doubled(e)
  BY <1>3 DEF Doubled
<1> QED
  BY <1>1, <1>2, <1>4

\* Two presets of a name are two in a larger set of presets as well.
LEMMA MoreThanOne ==
  ASSUME NEW S \in SUBSET Presets, NEW T \in SUBSET S, Cardinality(T) > 1
  PROVE  Cardinality(S) > 1
<1>1. IsFiniteSet(S)
  BY SettingsAssumption, FS_Subset
<1>2. IsFiniteSet(T) /\ Cardinality(T) <= Cardinality(S)
  BY <1>1, FS_Subset
<1>3. Cardinality(S) \in Nat /\ Cardinality(T) \in Nat
  BY <1>1, <1>2, FS_CardinalityType
<1> QED
  BY <1>2, <1>3

\* Names that have no more presets than before are not doubled.
LEMMA NotDoubled ==
  ASSUME NEW d, \A m \in Names : Named(d, m) \subseteq Named(db, m)
  PROVE  Doubled(d) \subseteq Doubled(db)
<1> SUFFICES ASSUME NEW m \in Names, Cardinality(Named(d, m)) > 1
             PROVE  Cardinality(Named(db, m)) > 1
  BY DEF Doubled
<1>1. Named(db, m) \in SUBSET Presets /\ Named(d, m) \in SUBSET Named(db, m)
  BY DEF Named, Live
<1> QED
  BY <1>1, MoreThanOne

\* Writing a preset of a name keeps names apart when there was none of that
\* name, or it was of that name.
LEMMA NamesKeptApart ==
  ASSUME db \in Rows, NEW d, NEW i, NEW n \in Names, NEW plan,
         PresetSet(d, i, [name |-> n, plan |-> plan]),
         i \in Named(db, n) \/ Named(db, n) = {}
  PROVE  Doubled(d) \subseteq Doubled(db)
<1> DEFINE row == [name |-> n, plan |-> plan]
<1>1. i \in Presets /\ d.preset = [db.preset EXCEPT ![i] = row]
  BY DEF PresetSet
<1>2. d.preset[i].name = n /\ \A j \in Presets \ {i} : d.preset[j] = db.preset[j]
  BY <1>1, RowFields
<1>3. ASSUME NEW m \in Names, m # n PROVE Named(d, m) \subseteq Named(db, m)
  BY <1>2, <1>3 DEF Named, Live
<1>4. CASE i \in Named(db, n)
  <2>1. Named(d, n) \subseteq Named(db, n)
    BY <1>2, <1>4 DEF Named, Live
  <2> QED
    BY <1>3, <2>1, NotDoubled
<1>5. CASE Named(db, n) = {}
  <2>1. Named(d, n) \in SUBSET {i}
    BY <1>2, <1>5 DEF Named, Live
  <2>2. Cardinality({i}) = 1 /\ {i} \in SUBSET Presets
    BY <1>1, FS_Singleton
  <2>3. ~(Cardinality(Named(d, n)) > 1)
    BY <2>1, <2>2, MoreThanOne
  <2>4. ASSUME NEW m \in Names, m # n, Cardinality(Named(d, m)) > 1
        PROVE  Cardinality(Named(db, m)) > 1
    <3>1. Named(db, m) \in SUBSET Presets /\ Named(d, m) \in SUBSET Named(db, m)
      BY <1>3, <2>4 DEF Named, Live
    <3> QED
      BY <2>4, <3>1, MoreThanOne
  <2> QED
    BY <2>3, <2>4 DEF Doubled
<1> QED
  BY <1>4, <1>5

\* Rows that bind what db binds and have lost nothing bound are no worse.
LEMMA SameBindings ==
  ASSUME NEW d, d.preset = db.preset, d.used = db.used,
         Registered(db) \cap BoundAssets(db) \subseteq Registered(d)
  PROVE  NoWorse(d, {})
<1>1. Live(d) = Live(db) /\ BoundAssets(d) = BoundAssets(db) /\ Doubled(d) = Doubled(db)
  BY SamePresets
<1> QED
  BY <1>1 DEF NoWorse, Missing, Orphans

\* Writing a preset, as saving and creating do.
LEMMA PresetKeepsRows ==
  ASSUME db \in Rows, NEW d, NEW i, NEW n \in Names, NEW plan,
         PresetSet(d, i, [name |-> n, plan |-> plan]),
         i \in Named(db, n) \/ Named(db, n) = {}
  PROVE  NoWorse(d, Binds([plan |-> plan]) \ Registered(db))
<1> DEFINE row == [name |-> n, plan |-> plan]
<1>1. /\ i \in Presets /\ d.preset = [db.preset EXCEPT ![i] = row]
      /\ d.used = db.used /\ d.asset = db.asset
  BY DEF PresetSet
<1>2. d.preset[i] = row /\ \A j \in Presets \ {i} : d.preset[j] = db.preset[j]
  BY <1>1, RowFields
<1>3. Binds(row) = Binds([plan |-> plan])
  BY DEF Binds
<1>4. Registered(d) = Registered(db)
  BY <1>1 DEF Registered
<1>5. Doubled(d) \subseteq Doubled(db)
  BY NamesKeptApart
<1>6. row # NoPreset /\ row # GonePreset
  <2>1. "plan" \in DOMAIN row /\ "plan" \notin DOMAIN NoPreset /\ "plan" \notin DOMAIN GonePreset
    BY DEF NoPreset, GonePreset
  <2> QED
    BY <2>1
<1>7. Live(d) = Live(db) \cup {i}
  BY <1>1, <1>2, <1>6 DEF Live
<1>8. BoundAssets(d) \subseteq BoundAssets(db) \cup Binds(row)
  <2>1. ASSUME NEW j \in Live(d) PROVE Binds(d.preset[j]) \subseteq BoundAssets(db) \cup Binds(row)
    <3>1. CASE j = i
      BY <1>2, <3>1
    <3>2. CASE j # i
      <4>1. j \in Live(db) /\ d.preset[j] = db.preset[j]
        BY <1>2, <1>7, <3>2 DEF Live
      <4> QED
        BY <4>1 DEF BoundAssets
    <3> QED
      BY <3>1, <3>2
  <2> QED
    BY <2>1 DEF BoundAssets
<1>9. Missing(d) \ Missing(db) \subseteq Binds(row) \ Registered(db)
  BY <1>4, <1>8 DEF Missing
<1>10. Orphans(d) \subseteq Orphans(db)
  BY <1>1, <1>7 DEF Orphans
<1> QED
  BY <1>3, <1>5, <1>9, <1>10 DEF NoWorse

\* A request that commits on the rows it has checked does them no harm but that
\* of a stale page.
LEMMA CheckedKeepsRows ==
  ASSUME NEW q, Accepted(q), q.saw = db, db \in Rows, NEW d \in Written(q)
  PROVE  NoWorse(d, Unread(q))
<1>0. q.op # "upsert_preset" => Unread(q) = {}
  BY DEF Unread
<1>1. CASE q.op \in {"set_key", "set_url"}
  BY <1>0, <1>1, KeyWritten, SameBindings DEF Registered
<1>2. CASE q.op \in {"remove_key", "register", "delete_asset"}
  <2>1. d.preset = db.preset /\ d.used = db.used
    BY <1>2, AssetsWritten
  <2>2. Registered(db) \cap BoundAssets(db) \subseteq Registered(d)
    <3>1. CASE q.op = "remove_key"
      BY <3>1, AssetsWritten DEF Accepted, Checked
    <3>2. CASE q.op = "register"
      BY <3>2, AssetsWritten
    <3>3. CASE q.op = "delete_asset"
      BY <3>3, AssetsWritten DEF Accepted, Checked
    <3> QED
      BY <1>2, <3>1, <3>2, <3>3
  <2> QED
    BY <1>0, <1>2, <2>1, <2>2, SameBindings
<1>3. CASE q.op = "upsert_preset"
  <2>1. PICK n \in Names, plan \in Plans : q.arg = <<n, plan>>
    BY <1>3 DEF Accepted, Argued
  <2>2. q.arg[1] = n /\ q.arg[2] = plan
    BY <2>1
  <2>3. PICK i \in Presets : /\ PresetSet(d, i, [name |-> n, plan |-> plan])
                             /\ i \in Named(db, n) \/ (Named(db, n) = {} /\ db.preset[i] = NoPreset)
    BY <1>3, <2>2, PresetWritten
  <2>4. Unread(q) = Binds([plan |-> plan]) \ Registered(db)
    BY <1>3, <2>2 DEF Unread
  <2> QED
    BY <2>3, <2>4, PresetKeepsRows
<1>4. CASE q.op = "create_preset"
  <2>1. PICK n \in Names : q.arg = <<n>>
    BY <1>4 DEF Accepted, Argued
  <2>2. q.arg[1] = n
    BY <2>1
  <2>3. Named(db, n) = {}
    BY <1>4, <2>2 DEF Accepted, Checked
  <2>4. PICK i \in Presets : /\ PresetSet(d, i, [name |-> n, plan |-> EmptyPlan])
                             /\ db.preset[i] = NoPreset
    BY <1>4, <2>2, PresetWritten
  <2>5. Binds([plan |-> EmptyPlan]) = {}
    BY DEF EmptyPlan, Binds
  <2>6. NoWorse(d, Binds([plan |-> EmptyPlan]) \ Registered(db))
    BY <2>3, <2>4, PresetKeepsRows
  <2> QED
    BY <1>0, <1>4, <2>5, <2>6
<1>5. CASE q.op = "delete_preset"
  <2>1. PICK i \in Presets : q.arg = <<i>>
    BY <1>5 DEF Accepted, Argued
  <2>2. q.arg[1] = i
    BY <2>1
  <2>3. /\ d.preset = [db.preset EXCEPT ![i] = GonePreset]
        /\ d.used = db.used /\ d.asset = db.asset
    BY <1>5, <2>2, PresetWritten DEF PresetSet
  <2>4. i \notin db.used
    BY <1>5, <2>2 DEF Accepted, Checked
  <2>5. d.preset[i] = GonePreset /\ \A j \in Presets \ {i} : d.preset[j] = db.preset[j]
    BY <2>3, RowFields
  <2>6. Live(d) = Live(db) \ {i}
    BY <2>5 DEF Live
  <2>7. BoundAssets(d) \subseteq BoundAssets(db)
    BY <2>5, <2>6 DEF BoundAssets, Live
  <2>8. Doubled(d) \subseteq Doubled(db)
    <3>1. \A m \in Names : Named(d, m) \subseteq Named(db, m)
      BY <2>5, <2>6 DEF Named, Live
    <3> QED
      BY <3>1, NotDoubled
  <2>9. Registered(d) = Registered(db)
    BY <2>3 DEF Registered
  <2>10. Orphans(d) \subseteq Orphans(db)
    BY <2>3, <2>4, <2>6 DEF Orphans
  <2>11. Missing(d) \ Missing(db) \subseteq {}
    BY <2>7, <2>9 DEF Missing
  <2> QED
    BY <1>0, <1>5, <2>8, <2>10, <2>11 DEF NoWorse
<1>6. CASE q.op = "session"
  <2>1. /\ d.preset = db.preset /\ d.asset = db.asset
        /\ d.used = db.used \cup {q.arg[1]} /\ q.arg[1] \in Live(db)
    BY <1>6, SessionWritten
  <2>2. Live(d) = Live(db) /\ BoundAssets(d) = BoundAssets(db) /\ Doubled(d) = Doubled(db)
    BY <2>1, SamePresets
  <2>3. Registered(d) = Registered(db)
    BY <2>1 DEF Registered
  <2>4. Orphans(d) \subseteq Orphans(db)
    BY <2>1, <2>2 DEF Orphans
  <2> QED
    BY <1>0, <1>6, <2>2, <2>3, <2>4 DEF NoWorse, Missing
<1> QED
  BY <1>1, <1>2, <1>3, <1>4, <1>5, <1>6 DEF Accepted, Argued

\* A request that does a step is an accepted one.
LEMMA BusyIsAccepted ==
  ASSUME RequestsInv, NEW r \in Requests, NEW step, Does(r, step)
  PROVE  Accepted(request[r])
BY DEF RequestsInv, Does, Ready, Over

\* A request that commits has something less left to do.
LEMMA CommitMoves ==
  ASSUME RequestsInv, NEW r \in Requests, Commit(r)
  PROVE  request'[r] # request[r]
<1> DEFINE q == request[r]
<1>1. Does(r, "commit") /\ Accepted(q)
  BY BusyIsAccepted DEF Commit
<1>2. request'[r] = Advanced(q)
  BY DEF Commit, RequestsInv
<1>3. Head(q.todo) = "commit"
  BY <1>1 DEF Does
<1>4. CASE Advanced(q) = Over
  BY <1>1, <1>2, <1>4, TodoFacts
<1>5. CASE Advanced(q) = [q EXCEPT !.todo = <<"publish">>]
  <2>1. Advanced(q).todo = <<"publish">>
    BY <1>1, <1>5 DEF Accepted
  <2>2. Head(<<"publish">>) = "publish"
    OBVIOUS
  <2> QED
    BY <1>2, <1>3, <2>1, <2>2
<1> QED
  BY <1>1, <1>3, <1>4, <1>5, TodoFacts

\* settings_service.py, crud.py: a check and a write that no other request comes
\* between never give a name twice, leave a session without its preset, or take
\* away an asset that a preset binds; a preset comes to bind a missing asset
\* otherwise only by the save of a page that still lists it.
THEOREM OverlapBreaks == Spec => OnlyOverlapBreaks
<1> DEFINE Bound == \A a \in Missing(db') \ Missing(db) :
                      \E r \in Requests : Overlaps(r) \/ SavesStale(r, a)
           Kept == \/ Doubled(db') \subseteq Doubled(db) /\ Orphans(db') \subseteq Orphans(db)
                   \/ \E r \in Requests : Overlaps(r)
<1>1. CachesTyped /\ RequestsInv /\ [Next]_vars => [Bound /\ Kept]_vars
  <2> SUFFICES ASSUME CachesTyped, RequestsInv, [Next]_vars, vars' # vars
               PROVE  Bound /\ Kept
    OBVIOUS
  <2>1. CASE db' = db
    BY <2>1
  <2>2. CASE db' # db
    <3>1. TypeOK
      BY RequestsTyped
    <3>2. PICK r \in Requests : Commit(r)
      <4>1. ASSUME NEW r \in Requests, Ask(r) PROVE db' = db
        BY <3>1, <4>1, AskAccepts
      <4>2. ASSUME NEW w \in Workers, Work(w) PROVE db' = db
        BY <4>2, WorkTypes
      <4> QED
        BY <2>2, <4>1, <4>2 DEF Next, CommitFails, Publish
    <3>3. Does(r, "commit") /\ Accepted(request[r]) /\ db' \in Written(request[r])
      BY <3>2, BusyIsAccepted DEF Commit
    <3>4. Commits(r)
      BY <3>2, <3>3, CommitMoves DEF Commits
    <3>5. CASE request[r].saw # db
      BY <3>4, <3>5 DEF Overlaps
    <3>6. CASE request[r].saw = db
      <4>1. NoWorse(db', Unread(request[r]))
        BY <3>3, <3>6, CheckedKeepsRows DEF CachesTyped
      <4>2. ASSUME NEW a \in Missing(db') \ Missing(db) PROVE SavesStale(r, a)
        BY <3>4, <4>1, <4>2 DEF NoWorse, Unread, SavesStale
      <4> QED
        BY <4>1, <4>2 DEF NoWorse
    <3> QED
      BY <3>5, <3>6
  <2> QED
    BY <2>1, <2>2
<1> QED
  BY <1>1, Accepting, PTL DEF Spec, OnlyOverlapBreaks

-----------------------------------------------------------------------------
(* Every stale entry is explained.                                         *)

\* A new request has published nothing and, if it is to publish first, commits
\* later.
LEMMA AskBegins ==
  ASSUME NEW r \in Requests, Ask(r)
  PROVE  \E op, arg, steps : /\ Begin(r, op, arg, steps)
                             /\ op \in SecretOps => steps = SecretSteps
<1>1. ASSUME NEW op \in SecretOps, NEW arg, Begin(r, op, arg, SecretSteps)
      PROVE  \E o, a, s : Begin(r, o, a, s) /\ (o \in SecretOps => s = SecretSteps)
  BY <1>1
<1>2. ASSUME NEW op, op \notin SecretOps, NEW arg, NEW steps, Begin(r, op, arg, steps)
      PROVE  \E o, a, s : Begin(r, o, a, s) /\ (o \in SecretOps => s = SecretSteps)
  BY <1>2
<1>3. ASSUME NEW p \in Providers, RemoveKey(r, p)
      PROVE  Begin(r, "remove_key", <<p>>, SecretSteps)
  BY <1>3 DEF RemoveKey
<1>4. ASSUME NEW p \in Providers, NEW u, SetUrl(r, p, u)
      PROVE  Begin(r, "set_url", <<p, u>>, SecretSteps)
  BY <1>4 DEF SetUrl
<1>5. ASSUME NEW p \in Providers, NEW k, NEW u, SetKey(r, p, k, u)
      PROVE  Begin(r, "set_key", <<p, k, u>>, SecretSteps)
  BY <1>5 DEF SetKey
<1>6. ASSUME NEW a, RegisterAsset(r, a) \/ DeleteAsset(r, a)
      PROVE  \E op : op \notin SecretOps /\ Begin(r, op, <<a>>, AssetSteps)
  BY <1>6 DEF RegisterAsset, DeleteAsset, SecretOps
<1>7. ASSUME NEW n, NEW plan, UpsertPreset(r, n, plan)
      PROVE  Begin(r, "upsert_preset", <<n, plan>>, AssetSteps)
  BY <1>7 DEF UpsertPreset
<1>8. ASSUME NEW n, CreatePreset(r, n) \/ NewSession(r, n)
      PROVE  \E op, arg : op \notin SecretOps /\ Begin(r, op, arg, PlainSteps)
  BY <1>8 DEF CreatePreset, NewSession, SecretOps
<1>9. ASSUME NEW i, DeletePreset(r, i)
      PROVE  Begin(r, "delete_preset", <<i>>, PlainSteps)
  BY <1>9 DEF DeletePreset
<1>10. /\ {"remove_key", "set_url", "set_key"} \subseteq SecretOps
       /\ "upsert_preset" \notin SecretOps /\ "delete_preset" \notin SecretOps
  BY DEF SecretOps
<1>11. CASE (\E p \in Providers : RemoveKey(r, p)) \/ (\E p \in Providers, u \in Versions : SetUrl(r, p, u))
  BY <1>1, <1>3, <1>4, <1>10, <1>11
<1>12. CASE \E p \in Providers, k \in Versions \ {0}, u \in Versions : SetKey(r, p, k, u)
  BY <1>1, <1>5, <1>10, <1>12
<1>13. CASE \E a \in Assets : RegisterAsset(r, a) \/ DeleteAsset(r, a)
  BY <1>2, <1>6, <1>13
<1>14. CASE \E n \in Names, plan \in Plans : UpsertPreset(r, n, plan)
  BY <1>2, <1>7, <1>10, <1>14
<1>15. CASE \E n \in Names : CreatePreset(r, n) \/ NewSession(r, n)
  BY <1>2, <1>8, <1>15
<1>16. CASE \E i \in Presets : DeletePreset(r, i)
  BY <1>2, <1>9, <1>10, <1>16
<1> QED
  BY <1>11, <1>12, <1>13, <1>14, <1>15, <1>16 DEF Ask

\* Only requests change, and no promise of a broadcast is taken back nor an
\* early one made: the caches are as well explained as before.
LEMMA CacheInvKept ==
  ASSUME CacheInv, UNCHANGED <<db, cache, lookup, inbox>>, Early' => Early,
         \A r \in Requests : Does(r, "publish") => Does(r, "publish")'
  PROVE  CacheInv'
<1>1. EntriesAreWhole' /\ FreshLookup'
  BY DEF CacheInv, EntriesAreWhole, FreshLookup
<1>2. EarlyIsCovered'
  BY DEF CacheInv, EarlyIsCovered
<1>3. StaleEntryIsExplained'
  BY DEF CacheInv, StaleEntryIsExplained
<1> QED
  BY <1>1, <1>2, <1>3 DEF CacheInv

\* What a step of one request makes of Early.
LEMMA EarlyAfter ==
  ASSUME NEW r \in Requests, \A o \in Requests \ {r} : request'[o] = request[o],
         ~(Does(r, "commit")' /\ request'[r].op \in SecretOps)
  PROVE  Early' => Early
BY DEF Early, Does, SecretOps

LEMMA AskExplains ==
  ASSUME RequestsInv, CacheInv, NEW r \in Requests, Ask(r)
  PROVE  CacheInv'
<1>1. PICK op, arg, steps : /\ Begin(r, op, arg, steps)
                            /\ op \in SecretOps => steps = SecretSteps
  BY AskBegins
<1> DEFINE q == [state |-> "busy", op |-> op, arg |-> arg, saw |-> db, todo |-> steps]
<1>2. /\ request[r] = Ready /\ request'[r] = q
      /\ \A o \in Requests \ {r} : request'[o] = request[o]
      /\ UNCHANGED <<db, cache, lookup, inbox>>
  BY <1>1 DEF Begin, RequestsInv
<1>3. ~(Does(r, "commit")' /\ request'[r].op \in SecretOps)
  <2>1. Head(SecretSteps) = "publish"
    BY DEF SecretSteps
  <2> QED
    BY <1>1, <1>2, <2>1 DEF Does
<1>4. ~Does(r, "publish")
  BY <1>2 DEF Does, Ready
<1>5. Early' => Early
  BY <1>2, <1>3, EarlyAfter
<1>6. \A o \in Requests : Does(o, "publish") => Does(o, "publish")'
  BY <1>2, <1>4 DEF Does
<1> QED
  BY <1>2, <1>5, <1>6, CacheInvKept

LEMMA CommitFailsExplains ==
  ASSUME RequestsInv, CacheInv, NEW r \in Requests, CommitFails(r)
  PROVE  CacheInv'
<1>1. /\ request'[r] = Over /\ \A o \in Requests \ {r} : request'[o] = request[o]
      /\ UNCHANGED <<db, cache, lookup, inbox>>
  BY DEF CommitFails, RequestsInv
<1>2. ~Does(r, "publish")
  BY DEF CommitFails, Does
<1>3. Early' => Early
  BY <1>1, EarlyAfter DEF Does, Over
<1>4. \A o \in Requests : Does(o, "publish") => Does(o, "publish")'
  BY <1>1, <1>2 DEF Does
<1> QED
  BY <1>1, <1>3, <1>4, CacheInvKept

\* The requests no cache hears of leave every preset that can be read as it was.
LEMMA PlainKeepsConfigs ==
  ASSUME NEW q, Accepted(q), q.op \in PlainOps, db \in Rows, NEW d \in Written(q),
         NEW i \in Presets, Readable(d, i)
  PROVE  Readable(db, i) /\ ConfigOf(d, i) = ConfigOf(db, i)
<1>1. CASE q.op = "create_preset"
  <2>1. PICK j \in Presets : PresetSet(d, j, [name |-> q.arg[1], plan |-> EmptyPlan])
    BY <1>1, PresetWritten
  <2>2. d.preset[j] = [name |-> q.arg[1], plan |-> EmptyPlan]
    BY <2>1, RowFields DEF PresetSet
  <2>3. i # j
    BY <2>2, SettingsAssumption DEF Readable, EmptyPlan, Registered
  <2>4. /\ d.preset[i] = db.preset[i] /\ d.asset = db.asset
        /\ d.key = db.key /\ d.url = db.url
    BY <2>1, <2>3, RowFields DEF PresetSet
  <2> QED
    BY <2>4 DEF Readable, ConfigOf, Live, Registered
<1>2. CASE q.op = "delete_preset"
  <2>1. PICK j \in Presets : q.arg = <<j>>
    BY <1>2 DEF Accepted, Argued
  <2>2. PresetSet(d, j, GonePreset)
    <3>1. q.arg[1] = j
      BY <2>1
    <3> QED
      BY <1>2, <3>1, PresetWritten
  <2>3. d.preset[j] = GonePreset
    BY <2>2, RowFields DEF PresetSet
  <2>4. i # j
    BY <2>3 DEF Readable, Live
  <2>5. /\ d.preset[i] = db.preset[i] /\ d.asset = db.asset
        /\ d.key = db.key /\ d.url = db.url
    BY <2>2, <2>4, RowFields DEF PresetSet
  <2> QED
    BY <2>5 DEF Readable, ConfigOf, Live, Registered
<1>3. CASE q.op = "session"
  <2>1. /\ d = [key |-> db.key, url |-> db.url, asset |-> db.asset, linked |-> db.linked,
                preset |-> db.preset, used |-> db.used \cup {q.arg[1]}]
    BY <1>3, SessionWritten
  <2>2. d.preset = db.preset /\ d.asset = db.asset /\ d.key = db.key /\ d.url = db.url
    BY <2>1
  <2> QED
    BY <2>2 DEF Readable, ConfigOf, Live, Registered
<1> QED
  BY <1>1, <1>2, <1>3 DEF PlainOps

\* A commit overtakes the look-ups under way; it is followed by a broadcast, or
\* the broadcast has been and what is cached is marked, or no cache need know.
LEMMA CommitExplains ==
  ASSUME CachesTyped, RequestsInv, CacheInv, NEW r \in Requests, Commit(r)
  PROVE  CacheInv'
<1> DEFINE q == request[r]
<1>1. /\ Does(r, "commit") /\ Accepted(q) /\ Head(q.todo) = "commit" /\ db' \in Written(q)
      /\ request'[r] = Advanced(q) /\ \A o \in Requests \ {r} : request'[o] = request[o]
      /\ UNCHANGED <<cache, inbox>>
  BY BusyIsAccepted DEF Commit, Does, RequestsInv
<1>2. /\ q.op \in SecretOps \cup AssetOps \cup PlainOps
      /\ q.op \in SecretOps \cup PlainOps => request'[r] = Over
      /\ q.op \in AssetOps => request'[r] = [q EXCEPT !.todo = <<"publish">>]
  BY <1>1, TodoFacts DEF SecretOps, AssetOps, PlainOps
<1>3. q.op \in AssetOps => Does(r, "publish")'
  <2>1. SUFFICES ASSUME q.op \in AssetOps PROVE Does(r, "publish")'
    OBVIOUS
  <2>2. request'[r] = [q EXCEPT !.todo = <<"publish">>]
    BY <1>2, <2>1
  <2>3. request'[r].state = "busy" /\ request'[r].todo = <<"publish">>
    BY <1>1, <2>2 DEF Accepted
  <2>4. Head(<<"publish">>) = "publish"
    OBVIOUS
  <2> QED
    BY <2>3, <2>4 DEF Does
<1>4. ~Does(r, "commit")'
  <2>1. CASE q.op \in SecretOps \cup PlainOps
    BY <1>2, <2>1 DEF Does, Over
  <2>2. CASE q.op \in AssetOps
    BY <1>3, <2>2 DEF Does
  <2> QED
    BY <1>2, <2>1, <2>2
<1>5. Early' => Early
  BY <1>1, <1>4, EarlyAfter
<1>6. EntriesAreWhole'
  BY <1>1 DEF CacheInv, EntriesAreWhole
<1>7. EarlyIsCovered'
  BY <1>1, <1>5 DEF CacheInv, EarlyIsCovered
<1>8. FreshLookup'
  <2>1. ASSUME NEW w \in Workers, ~lookup'[w].late PROVE Len(lookup'[w].config) = 0
    <3>1. lookup'[w] = Marked(lookup[w]) /\ lookup[w] \in LookupType
      BY DEF Commit, CachesTyped
    <3>2. lookup'[w].config = NoConfig
      BY <2>1, <3>1, MarkedFacts
    <3> QED
      BY <3>2 DEF NoConfig
  <2>2. ASSUME NEW w \in Workers, ~lookup'[w].late PROVE 1..Len(lookup'[w].config) = {}
    BY <2>1, <2>2
  <2> QED
    BY <2>2 DEF FreshLookup
<1>9. StaleEntryIsExplained'
  <2>1. CASE q.op \in AssetOps
    BY <1>3, <2>1 DEF StaleEntryIsExplained
  <2>2. CASE q.op \in SecretOps
    <3>1. Early
      BY <1>1, <2>2 DEF Early, SecretOps
    <3> QED
      BY <1>1, <3>1 DEF CacheInv, EarlyIsCovered, StaleEntryIsExplained
  <2>3. CASE q.op \in PlainOps
    <3>1. \A o \in Requests : Does(o, "publish") => Does(o, "publish")'
      BY <1>1 DEF Does
    <3>2. ASSUME NEW i \in Presets, Readable(db', i)
          PROVE  Readable(db, i) /\ ConfigOf(db', i) = ConfigOf(db, i)
      BY <1>1, <2>3, <3>2, PlainKeepsConfigs DEF CachesTyped
    <3> QED
      BY <1>1, <3>1, <3>2 DEF CacheInv, StaleEntryIsExplained
  <2> QED
    BY <1>2, <2>1, <2>2, <2>3
<1> QED
  BY <1>6, <1>7, <1>8, <1>9 DEF CacheInv

\* After a broadcast every entry is marked or its worker is about to hear of it.
LEMMA PublishExplains ==
  ASSUME CachesTyped, CacheInv, NEW r \in Requests, NEW reached \in BOOLEAN, Publish(r, reached)
  PROVE  CacheInv'
<1>1. UNCHANGED <<db, lookup>>
  BY DEF Publish
<1>2. ASSUME NEW w \in Workers, NEW i \in Presets
      PROVE  /\ cache'[w][i].config = NoConfig => cache'[w][i] = NoEntry
             /\ cache'[w][i] # NoEntry => cache'[w][i].late \/ inbox'[w]
  <2> DEFINE e == cache[w][i]
  <2>1. e \in EntryType /\ (e.config = NoConfig => e = NoEntry)
    BY DEF CachesTyped, CacheInv, EntriesAreWhole
  <2>2. CASE reached /\ listening[w]
    BY <2>1, <2>2 DEF Publish
  <2>3. CASE ~(reached /\ listening[w])
    <3>1. cache'[w][i] = Marked(e)
      BY <2>3 DEF Publish
    <3>2. CASE e.config = NoConfig
      BY <2>1, <3>1, <3>2, NoEntryStays
    <3>3. CASE e.config # NoConfig
      BY <2>1, <3>1, <3>3, MarkedFacts
    <3> QED
      BY <3>2, <3>3
  <2> QED
    BY <2>2, <2>3
<1>3. FreshLookup'
  BY <1>1 DEF CacheInv, FreshLookup
<1>4. EntriesAreWhole' /\ EarlyIsCovered' /\ StaleEntryIsExplained'
  BY <1>2 DEF EntriesAreWhole, EarlyIsCovered, StaleEntryIsExplained
<1> QED
  BY <1>3, <1>4 DEF CacheInv

\* The requests and the rows stay as they are in the steps of a worker.
LEMMA WorkKeepsRequests ==
  ASSUME UNCHANGED <<db, request>>
  PROVE  /\ Early' <=> Early
         /\ \A o \in Requests : Does(o, "publish")' <=> Does(o, "publish")
BY DEF Early, Does

\* The steps that change entries leave each entry as it is, throw it away, or
\* leave it marked.
LEMMA EntriesExplain ==
  ASSUME CacheInv, UNCHANGED <<db, request>>, FreshLookup',
         \A w \in Workers, i \in Presets :
           \/ cache'[w][i] = NoEntry
           \/ cache'[w][i] # NoEntry /\ cache'[w][i].config # NoConfig /\ cache'[w][i].late
           \/ /\ cache'[w][i].config = cache[w][i].config /\ cache'[w][i].late = cache[w][i].late
              /\ cache[w][i] # NoEntry
              /\ inbox'[w] = inbox[w]
  PROVE  CacheInv'
<1>1. EntriesAreWhole'
  BY DEF CacheInv, EntriesAreWhole
<1>2. EarlyIsCovered'
  BY WorkKeepsRequests DEF CacheInv, EarlyIsCovered
<1>3. StaleEntryIsExplained'
  BY WorkKeepsRequests DEF CacheInv, StaleEntryIsExplained
<1> QED
  BY <1>1, <1>2, <1>3 DEF CacheInv

\* The steps that only move a look-up.
LEMMA LookupExplains ==
  ASSUME CacheInv, UNCHANGED <<db, request, cache, inbox>>, NEW w \in Workers,
         \A v \in Workers \ {w} : lookup'[v] = lookup[v],
         ~lookup'[w].late /\ Readable(db, lookup'[w].preset) =>
           \A k \in 1..Len(lookup'[w].config) :
             lookup'[w].config[k] = ConfigOf(db, lookup'[w].preset)[k]
  PROVE  CacheInv'
<1>1. FreshLookup'
  <2>1. ASSUME NEW v \in Workers, ~lookup'[v].late, Readable(db, lookup'[v].preset),
               NEW k \in 1..Len(lookup'[v].config)
        PROVE  lookup'[v].config[k] = ConfigOf(db, lookup'[v].preset)[k]
    <3>1. CASE v = w
      BY <2>1, <3>1
    <3>2. CASE v # w
      <4>1. lookup'[v] = lookup[v]
        BY <3>2
      <4> QED
        BY <2>1, <4>1 DEF CacheInv, FreshLookup
    <3> QED
      BY <3>1, <3>2
  <2> QED
    BY <2>1 DEF FreshLookup
<1>2. EntriesAreWhole'
  BY DEF CacheInv, EntriesAreWhole
<1>3. EarlyIsCovered'
  BY WorkKeepsRequests DEF CacheInv, EarlyIsCovered
<1>4. StaleEntryIsExplained'
  BY WorkKeepsRequests DEF CacheInv, StaleEntryIsExplained
<1> QED
  BY <1>1, <1>2, <1>3, <1>4 DEF CacheInv

\* What a preset that can be read leads to, column by column.
LEMMA ConfigColumns ==
  ASSUME NEW d, NEW i, Readable(d, i)
  PROVE  /\ ConfigOf(d, i)[1] = d.preset[i].plan[1]
         /\ ConfigOf(d, i)[2] = d.key[ProviderOf[d.preset[i].plan[1]]]
         /\ ConfigOf(d, i)[3] = d.url[ProviderOf[d.preset[i].plan[1]]]
         /\ ConfigOf(d, i) = <<d.preset[i].plan[1], d.key[ProviderOf[d.preset[i].plan[1]]],
                               d.url[ProviderOf[d.preset[i].plan[1]]]>>
BY DEF ConfigOf

LEMMA MissExplains ==
  ASSUME CachesTyped, CacheInv, NEW w \in Workers, NEW i \in Presets, Miss(w, i)
  PROVE  CacheInv'
<1> DEFINE a == db.preset[i].plan[1]
<1>1. lookup'[w] = [preset |-> i, config |-> <<a>>, late |-> FALSE]
  BY DEF Miss, CachesTyped
<1>2. lookup'[w].preset = i /\ lookup'[w].config = <<a>>
  BY <1>1
<1>3. ASSUME Readable(db, i), NEW k \in 1..Len(<<a>>) PROVE <<a>>[k] = ConfigOf(db, i)[k]
  <2>1. k = 1
    BY <1>3
  <2> QED
    BY <1>3, <2>1, ConfigColumns
<1>4. /\ UNCHANGED <<db, request, cache, inbox>>
      /\ \A v \in Workers \ {w} : lookup'[v] = lookup[v]
  BY DEF Miss, CachesTyped
<1> HIDE DEF a
<1> QED
  BY <1>2, <1>3, <1>4, LookupExplains

\* Reading a column that is still what the rows say.
LEMMA ReadsExplain ==
  ASSUME CachesTyped, CacheInv, NEW w \in Workers, NEW c, Reads(w, c),
         UNCHANGED <<db, request, cache, inbox>>,
         Len(lookup[w].config) \in {1, 2},
         \A i \in Presets : /\ Readable(db, i)
                            /\ lookup[w].config[1] = db.preset[i].plan[1]
                            => c = ConfigOf(db, i)[Len(lookup[w].config) + 1]
  PROVE  CacheInv'
<1> DEFINE l == lookup[w]
           n == Len(l.config)
<1>1. l \in LookupType /\ l.preset \in Presets
  BY DEF CachesTyped, LookupType
<1>2. lookup' = [lookup EXCEPT ![w].config = Append(l.config, c)]
  BY DEF Reads
<1>3. /\ lookup'[w].preset = l.preset /\ lookup'[w].late = l.late
      /\ lookup'[w].config = Append(l.config, c)
      /\ \A v \in Workers \ {w} : lookup'[v] = lookup[v]
  <2>1. lookup'[w] = [l EXCEPT !.config = Append(l.config, c)]
    BY <1>2 DEF CachesTyped
  <2>2. [l EXCEPT !.config = Append(l.config, c)]
          = [preset |-> l.preset, late |-> l.late, config |-> Append(l.config, c)]
    <3> DEFINE z == Append(l.config, c)
    <3> HIDE DEF z, l
    <3>1. [l EXCEPT !.config = z] = [preset |-> l.preset, late |-> l.late, config |-> z]
      BY <1>1 DEF LookupType
    <3> QED
      BY <3>1 DEF z
  <2> QED
    BY <1>2, <2>1, <2>2 DEF CachesTyped
<1>4. /\ Len(Append(l.config, c)) = n + 1 /\ Append(l.config, c)[n + 1] = c
      /\ \A k \in 1..n : Append(l.config, c)[k] = l.config[k]
  <2>1. \/ n = 1 /\ \E a \in Assets : l.config = <<a>>
        \/ n = 2 /\ \E a \in Assets, v \in Versions : l.config = <<a, v>>
    BY <1>1, LookupShape
  <2>2. CASE n = 1
    <3>1. PICK a \in Assets : l.config = <<a>>
      BY <2>1, <2>2
    <3>2. Append(<<a>>, c) = <<a, c>>
      BY ReadOneMore
    <3> QED
      BY <2>2, <3>1, <3>2
  <2>3. CASE n = 2
    <3>1. PICK a \in Assets, v \in Versions : l.config = <<a, v>>
      BY <2>1, <2>3
    <3>2. Append(<<a, v>>, c) = <<a, v, c>>
      BY ReadOneMore
    <3> QED
      BY <2>3, <3>1, <3>2
  <2> QED
    BY <2>1, <2>2, <2>3
<1>5. ASSUME ~l.late, Readable(db, l.preset), NEW k \in 1..(n + 1)
      PROVE  Append(l.config, c)[k] = ConfigOf(db, l.preset)[k]
  <2>1. \A j \in 1..n : l.config[j] = ConfigOf(db, l.preset)[j]
    BY <1>5 DEF CacheInv, FreshLookup
  <2>2. n \in {1, 2}
    OBVIOUS
  <2>3. l.config[1] = db.preset[l.preset].plan[1]
    <3>1. l.config[1] = ConfigOf(db, l.preset)[1]
      BY <2>1, <2>2
    <3>2. ConfigOf(db, l.preset)[1] = db.preset[l.preset].plan[1]
      BY <1>5 DEF ConfigOf
    <3> QED
      BY <3>1, <3>2
  <2>4. CASE k = n + 1
    BY <1>1, <1>4, <1>5, <2>3, <2>4
  <2>5. CASE k # n + 1
    <3>1. k \in 1..n
      BY <2>2, <2>5
    <3> QED
      BY <1>4, <2>1, <3>1
  <2> QED
    BY <2>4, <2>5
<1> HIDE DEF l, n
<1> QED
  BY <1>3, <1>4, <1>5, LookupExplains

LEMMA ReadKeyExplains ==
  ASSUME CachesTyped, CacheInv, NEW w \in Workers, ReadKey(w)
  PROVE  CacheInv'
<1> DEFINE a == lookup[w].config[1]
<1>1. Len(lookup[w].config) = 1 /\ Reads(w, db.key[ProviderOf[a]])
  BY DEF ReadKey
<1>2. UNCHANGED <<db, request, cache, inbox>>
  BY DEF ReadKey
<1>3. ASSUME NEW i \in Presets, Readable(db, i), a = db.preset[i].plan[1]
      PROVE  db.key[ProviderOf[a]] = ConfigOf(db, i)[Len(lookup[w].config) + 1]
  <2>1. Len(lookup[w].config) + 1 = 2
    BY <1>1
  <2>2. ConfigOf(db, i)[2] = db.key[ProviderOf[a]]
    BY <1>3 DEF ConfigOf
  <2> QED
    BY <2>1, <2>2
<1> DEFINE c == db.key[ProviderOf[a]]
<1>4. /\ Reads(w, c) /\ Len(lookup[w].config) \in {1, 2}
      /\ \A i \in Presets : Readable(db, i) /\ a = db.preset[i].plan[1]
                            => c = ConfigOf(db, i)[Len(lookup[w].config) + 1]
  BY <1>1, <1>3
<1> HIDE DEF c
<1> QED
  BY <1>2, <1>4, ReadsExplain

LEMMA ReadUrlExplains ==
  ASSUME CachesTyped, CacheInv, NEW w \in Workers, ReadUrl(w)
  PROVE  CacheInv'
<1> DEFINE a == lookup[w].config[1]
<1>1. Len(lookup[w].config) = 2 /\ Reads(w, db.url[ProviderOf[a]])
  BY DEF ReadUrl
<1>2. UNCHANGED <<db, request, cache, inbox>>
  BY DEF ReadUrl
<1>3. ASSUME NEW i \in Presets, Readable(db, i), a = db.preset[i].plan[1]
      PROVE  db.url[ProviderOf[a]] = ConfigOf(db, i)[Len(lookup[w].config) + 1]
  <2>1. Len(lookup[w].config) + 1 = 3
    BY <1>1
  <2>2. ConfigOf(db, i)[3] = db.url[ProviderOf[a]]
    BY <1>3 DEF ConfigOf
  <2> QED
    BY <2>1, <2>2
<1> DEFINE c == db.url[ProviderOf[a]]
<1>4. /\ Reads(w, c) /\ Len(lookup[w].config) \in {1, 2}
      /\ \A i \in Presets : Readable(db, i) /\ a = db.preset[i].plan[1]
                            => c = ConfigOf(db, i)[Len(lookup[w].config) + 1]
  BY <1>1, <1>3
<1> HIDE DEF c
<1> QED
  BY <1>2, <1>4, ReadsExplain

\* An instance goes into the cache marked, or it is what the rows say: no commit
\* came between, and no commit will go without a broadcast after it.
LEMMA PutExplains ==
  ASSUME CachesTyped, CacheInv, NEW w \in Workers, Put(w)
  PROVE  CacheInv'
<1> DEFINE l == lookup[w]
           e == Entry(l.config, l.late \/ Early)
<1>1. /\ l \in LookupType /\ Len(l.config) = 3 /\ l.preset \in Presets
      /\ cache' = [cache EXCEPT ![w][l.preset] = e] /\ lookup' = [lookup EXCEPT ![w] = Idle]
      /\ UNCHANGED <<db, request, inbox>>
  BY DEF Put, CachesTyped, LookupType
<1>2. PICK a \in Assets, v \in Versions, u \in Versions : l.config = <<a, v, u>>
  BY <1>1, LookupShape
<1>3. e.config = l.config /\ (e.late <=> l.late \/ Early)
  BY DEF Entry
<1>4. e.config # NoConfig
  BY <1>2, <1>3 DEF NoConfig
<1>5. \/ e.late
      \/ ~Early /\ (Readable(db, l.preset) => e.config = ConfigOf(db, l.preset))
  <2>1. SUFFICES ASSUME ~l.late, Readable(db, l.preset)
                 PROVE  l.config = ConfigOf(db, l.preset)
    BY <1>3
  <2>2. \A k \in 1..3 : l.config[k] = ConfigOf(db, l.preset)[k]
    BY <1>1, <2>1 DEF CacheInv, FreshLookup
  <2>3. /\ l.config[1] = ConfigOf(db, l.preset)[1] /\ l.config[2] = ConfigOf(db, l.preset)[2]
        /\ l.config[3] = ConfigOf(db, l.preset)[3]
    BY <2>2
  <2> QED
    <3>1. ConfigOf(db, l.preset) = <<ConfigOf(db, l.preset)[1], ConfigOf(db, l.preset)[2],
                                     ConfigOf(db, l.preset)[3]>>
      BY <2>1 DEF ConfigOf
    <3>2. l.config = <<l.config[1], l.config[2], l.config[3]>>
      BY <1>2
    <3> QED
      BY <2>3, <3>1, <3>2
<1>6. /\ cache'[w][l.preset] = e
      /\ \A v1 \in Workers, i \in Presets :
           v1 # w \/ i # l.preset => cache'[v1][i] = cache[v1][i]
  BY <1>1 DEF CachesTyped
<1>7. FreshLookup'
  <2>1. Len(Idle.config) = 0 /\ 1..0 = {}
    BY DEF Idle, NoConfig
  <2>2. lookup'[w] = Idle /\ \A v1 \in Workers \ {w} : lookup'[v1] = lookup[v1]
    BY <1>1 DEF CachesTyped
  <2> QED
    BY <1>1, <2>1, <2>2 DEF CacheInv, FreshLookup
<1> HIDE DEF e
<1>8. EntriesAreWhole'
  BY <1>4, <1>6 DEF CacheInv, EntriesAreWhole
<1>9. EarlyIsCovered'
  BY <1>1, <1>5, <1>6, WorkKeepsRequests DEF CacheInv, EarlyIsCovered
<1>10. StaleEntryIsExplained'
  BY <1>1, <1>5, <1>6, WorkKeepsRequests DEF CacheInv, StaleEntryIsExplained
<1> QED
  BY <1>7, <1>8, <1>9, <1>10 DEF CacheInv

LEMMA LookupFailsExplains ==
  ASSUME CachesTyped, CacheInv, NEW w \in Workers, LookupFails(w)
  PROVE  CacheInv'
<1>1. lookup'[w] = Idle /\ \A v \in Workers \ {w} : lookup'[v] = lookup[v]
  BY DEF LookupFails, CachesTyped
<1>2. Len(Idle.config) = 0 /\ 1..0 = {}
  BY DEF Idle, NoConfig
<1>3. UNCHANGED <<db, request, cache, inbox>>
  BY DEF LookupFails
<1> QED
  BY <1>1, <1>2, <1>3, LookupExplains

\* The steps of the listener and of time.
LEMMA EntryStepsExplain ==
  ASSUME CachesTyped, CacheInv, NEW w \in Workers,
         \/ Hear(w) \/ ListenerFails(w) \/ Resubscribe(w)
         \/ \E i \in Presets : Hit(w, i) \/ Age(w, i)
  PROVE  CacheInv'
<1> DEFINE Kept(v, i) == /\ cache'[v][i].config = cache[v][i].config
                         /\ cache'[v][i].late = cache[v][i].late
                         /\ cache[v][i] # NoEntry /\ inbox'[v] = inbox[v]
           Late(v, i) == /\ cache'[v][i] # NoEntry /\ cache'[v][i].config # NoConfig
                         /\ cache'[v][i].late
           Fine(v, i) == cache'[v][i] = NoEntry \/ Late(v, i) \/ Kept(v, i)
<1>1. UNCHANGED <<db, request, lookup>>
  BY DEF Hear, ListenerFails, Resubscribe, Hit, Age
<1>2. FreshLookup'
  BY <1>1 DEF CacheInv, FreshLookup
<1>3. \A v \in Workers, i \in Presets : cache[v][i] \in EntryType
  BY DEF CachesTyped
<1>4. ASSUME NEW v \in Workers, NEW i \in Presets, cache'[v][i] = cache[v][i], inbox'[v] = inbox[v]
      PROVE  Fine(v, i)
  BY <1>4
<1>5. CASE Hear(w)
  <2>1. \A i \in Presets : cache'[w][i] = NoEntry
    BY <1>5 DEF Hear, EmptyCache, CachesTyped
  <2>2. \A v \in Workers \ {w} : cache'[v] = cache[v] /\ inbox'[v] = inbox[v]
    BY <1>5 DEF Hear, CachesTyped
  <2>3. \A v \in Workers, i \in Presets : Fine(v, i)
    BY <1>4, <2>1, <2>2
  <2> QED
    BY <1>1, <1>2, <2>3, EntriesExplain
<1>6. CASE ListenerFails(w)
  <2>1. \A v \in Workers \ {w} : cache'[v] = cache[v] /\ inbox'[v] = inbox[v]
    BY <1>6 DEF ListenerFails, CachesTyped
  <2>2. ASSUME NEW i \in Presets PROVE Fine(w, i)
    <3>1. CASE inbox[w]
      <4>1. cache'[w][i] = Marked(cache[w][i])
        BY <1>6, <3>1 DEF ListenerFails, CachesTyped
      <4>2. CASE cache[w][i].config = NoConfig
        <5>1. cache[w][i] = NoEntry
          BY <4>2 DEF CacheInv, EntriesAreWhole
        <5> QED
          BY <1>3, <4>1, <5>1, NoEntryStays
      <4>3. CASE cache[w][i].config # NoConfig
        <5>1. cache'[w][i].config # NoConfig /\ cache'[w][i].late
          BY <1>3, <4>1, <4>3, MarkedFacts
        <5>2. NoEntry.config = NoConfig
          BY DEF NoEntry, Entry
        <5> QED
          BY <5>1, <5>2
      <4> QED
        BY <4>2, <4>3
    <3>2. CASE ~inbox[w]
      <4>1. cache' = cache /\ inbox'[w] = inbox[w]
        BY <1>6, <3>2 DEF ListenerFails, CachesTyped
      <4> QED
        BY <1>4, <4>1
    <3> QED
      BY <3>1, <3>2
  <2>3. \A v \in Workers, i \in Presets : Fine(v, i)
    BY <1>4, <2>1, <2>2
  <2> QED
    BY <1>1, <1>2, <2>3, EntriesExplain
<1>7. CASE Resubscribe(w)
  <2>1. \A v \in Workers, i \in Presets : Fine(v, i)
    BY <1>4, <1>7 DEF Resubscribe
  <2> QED
    BY <1>1, <1>2, <2>1, EntriesExplain
<1>8. ASSUME NEW j \in Presets, Hit(w, j) PROVE CacheInv'
  <2>1. cache' = cache /\ inbox' = inbox
    BY <1>8 DEF Hit, OnHit, CachesTyped
  <2>2. \A v \in Workers, i \in Presets : Fine(v, i)
    BY <1>4, <2>1
  <2> QED
    BY <1>1, <1>2, <2>2, EntriesExplain
<1>9. ASSUME NEW j \in Presets, Age(w, j) PROVE CacheInv'
  <2>1. /\ cache[w][j] # NoEntry /\ inbox' = inbox
        /\ \A v \in Workers, i \in Presets :
             v # w \/ i # j => cache'[v][i] = cache[v][i]
        /\ cache'[w][j] = IF cache[w][j].old THEN NoEntry ELSE [cache[w][j] EXCEPT !.old = TRUE]
    BY <1>9 DEF Age, CachesTyped
  <2>2. Fine(w, j)
    BY <1>3, <2>1, OldFacts
  <2>3. \A v \in Workers, i \in Presets : Fine(v, i)
    BY <1>4, <2>1, <2>2
  <2> QED
    BY <1>1, <1>2, <2>3, EntriesExplain
<1> QED
  BY <1>5, <1>6, <1>7, <1>8, <1>9

LEMMA InitExplains == Init => CacheInv
<1> SUFFICES ASSUME Init PROVE CacheInv
  OBVIOUS
<1>1. \A w \in Workers, i \in Presets : cache[w][i] = NoEntry
  BY DEF Init, EmptyCache
<1>2. Len(Idle.config) = 0 /\ 1..0 = {}
  BY DEF Idle, NoConfig
<1>3. FreshLookup
  BY <1>2 DEF Init, FreshLookup
<1> QED
  BY <1>1, <1>3 DEF CacheInv, EntriesAreWhole, EarlyIsCovered, StaleEntryIsExplained

\* llm.py, settings_service.py: a cached instance that differs from the rows is
\* about to be invalidated, or was read before a commit and kept after it, or
\* its worker missed the broadcast.
THEOREM StaleExplained == Spec => []StaleEntryIsExplained
<1>1. CachesTyped /\ RequestsInv /\ CacheInv /\ [Next]_vars => CacheInv'
  <2> SUFFICES ASSUME CachesTyped, RequestsInv, CacheInv, [Next]_vars PROVE CacheInv'
    OBVIOUS
  <2>1. CASE UNCHANGED vars
    BY <2>1 DEF vars, CacheInv, EntriesAreWhole, EarlyIsCovered, Early, FreshLookup,
                StaleEntryIsExplained, Does
  <2>2. ASSUME NEW w \in Workers, Work(w) PROVE CacheInv'
    BY <2>2, MissExplains, ReadKeyExplains, ReadUrlExplains, PutExplains,
       LookupFailsExplains, EntryStepsExplain DEF Work
  <2> QED
    BY <2>1, <2>2, AskExplains, CommitExplains, CommitFailsExplains, PublishExplains DEF Next
<1>2. CacheInv => StaleEntryIsExplained
  BY DEF CacheInv
<1> QED
  BY <1>1, <1>2, InitExplains, Accepting, PTL DEF Spec

=============================================================================
