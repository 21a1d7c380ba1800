--------------------------- MODULE PluginSettings ---------------------------
(***************************************************************************)
(* What administrators configure for one plugin and what the plugin stores *)
(* for itself, all in plugin_values: boolean features, one group of typed  *)
(* settings, the records of one admin resource, and the plugin's own keys. *)
(* A record or group has one plain field and one secret.  Writes take the  *)
(* plugin's advisory lock, deletions do not; what an administrator saves   *)
(* is computed from an earlier read.  Servers keep the features in memory. *)
(***************************************************************************)
EXTENDS Naturals, FiniteSets

CONSTANTS Servers, Requests,
          Features,  \* boolean settings
          Requires,  \* the features each of them requires
          Names,     \* keys of resource records, as stored: trimmed and lower-cased
          Own,       \* keys the plugin may write itself
          FieldType, \* type of the plain field
          Required,  \* whether the secret is required
          Default,   \* default of the plain field
          MaxKeys,   \* keys of a plugin (1024)
          MaxSaves,  \* bound on requests
          None

ASSUME SettingsAssumption ==
    /\ Requires \in [Features -> SUBSET Features]
    /\ MaxKeys \in Nat \ {0} /\ MaxSaves \in Nat
    /\ None \notin Requests

VARIABLES
    stored,  \* plugin_values of the plugin
    lock,    \* the advisory lock of its writes
    memory,  \* features each server knows
    mutex,   \* Manager.mu of each server while it stores features
    key,     \* whether secrets can be encrypted
    request, \* requests under way
    saves    \* counts them

valueVars == <<stored, lock, memory, mutex, key, request, saves>>

FeatureKey(f) == <<"feature", f>>
GroupKey == <<"setting", "group">>
RecordKey(n) == <<"r", n>>
OwnKey(k) == <<"own", k>>
FeatureKeys == {FeatureKey(f) : f \in Features}
RecordKeys == {RecordKey(n) : n \in Names}
Keys == FeatureKeys \cup {GroupKey} \cup RecordKeys \cup {OwnKey(k) : k \in Own}
Occupied == {k \in Keys : stored[k] # None}

-----------------------------------------------------------------------------
(* Fields.  A submitted text is one of Raw; it is refused or stored in its *)
(* normal form.                                                            *)

Raw == {"", " word ", "word", "#ABCDEF", "#abcdef", "true", "yes", "nul", "control"}

validateConfigurationText(type, raw) == raw # "nul" /\ (type = "secret" => raw # "control")

normalizeConfigurationWhitespace(type, raw) ==
    IF raw = " word " /\ type \in {"text", "url", "select", "boolean", "colour"} THEN "word" ELSE raw

validateConfigurationType(type, v) ==
    CASE type = "colour" -> (IF v = "" THEN {""} ELSE IF v \in {"#ABCDEF", "#abcdef"} THEN {"#abcdef"} ELSE {})
      [] type = "boolean" -> {v} \cap {"true", "false"}
      [] type = "select" -> {v} \cap {"", "word"}
      [] OTHER -> {v}

normalizeConfigurationValue(type, raw) ==
    IF validateConfigurationText(type, raw)
    THEN validateConfigurationType(type, normalizeConfigurationWhitespace(type, raw))
    ELSE {}

Cipher(secret) == <<"cipher", secret>>
BlankCipher == <<"cipher", "">>
ASSUME ValueAssumption == None \notin [plain : Raw \cup {Default}, secret : {Cipher("word"), BlankCipher}]

Secret(previous) == IF previous = None THEN BlankCipher ELSE previous.secret

requiredConfigurationValueMissing(secret, previous) ==
    Required /\ secret = "" /\ Secret(previous) = BlankCipher

(* The stored secret in place of a blank one, the encrypted one otherwise;  *)
(* nothing when it is missing or cannot be encrypted.                       *)
encryptConfigurationSecrets(secret, previous) ==
    IF secret = "" /\ Secret(previous) # BlankCipher THEN {Secret(previous)}
    ELSE IF requiredConfigurationValueMissing(secret, previous) THEN {}
    ELSE IF secret = "" THEN {BlankCipher}
    ELSE IF key THEN {Cipher(secret)} ELSE {}

(* What a submission is stored as: nothing when it is refused. *)
normalize(form, previous, creating) ==
    LET raw == IF creating /\ form.plain = "" THEN Default ELSE form.plain IN
    {[plain |-> p, secret |-> s] :
        p \in normalizeConfigurationValue(FieldType, raw),
        s \in IF validateConfigurationText("secret", form.secret)
              THEN encryptConfigurationSecrets(form.secret, previous) ELSE {}}

Forms == [plain : Raw, secret : {"", "word", "control"}]

(* What the owning plugin reads: its default, or the decrypted value. *)
ReadDeclaredSetting(field) ==
    IF stored[GroupKey] = None THEN IF field = "plain" THEN Default ELSE ""
    ELSE IF field = "plain" THEN stored[GroupKey].plain
    ELSE stored[GroupKey].secret[2]

MaskResourceSecrets(record) == [plain |-> record.plain, configured |-> record.secret # BlankCipher]

-----------------------------------------------------------------------------
(* Features *)

validateFeatureSettingDependencies(settings) ==
    \A f \in Features : settings[f] => \A d \in Requires[f] : settings[d]

loadSettings == [f \in Features |->
    IF stored[FeatureKey(f)] = None THEN TRUE ELSE stored[FeatureKey(f)]]

NoRequest == [step |-> "idle", server |-> None, old |-> None, key |-> None, form |-> None,
              value |-> None, left |-> {}]

(* A request starts (ValuesNext has the guard). *)
Begin(r, new) ==
    /\ request' = [request EXCEPT ![r] = new]
    /\ saves' = saves + 1

(* The features still to be stored are request[r].left, their values in value. *)
UpdateSettings(r, s, settings) ==
    /\ mutex[s] = None
    /\ validateFeatureSettingDependencies(settings)
    /\ Begin(r, [NoRequest EXCEPT !.step = "next", !.server = s, !.value = settings, !.left = Features])
    /\ mutex' = [mutex EXCEPT ![s] = r]
    /\ UNCHANGED <<stored, lock, memory, key>>

persistFeatureSettings(r, f) ==
    /\ request[r].step = "next" /\ f \in request[r].left
    /\ request' = [request EXCEPT ![r].step = "write", ![r].key = FeatureKey(f), ![r].left = @ \ {f}]
    /\ UNCHANGED <<stored, lock, memory, mutex, key, saves>>

FeaturesSaved(r) ==
    /\ request[r].step = "next" /\ request[r].left = {}
    /\ memory' = [memory EXCEPT ![request[r].server] = request[r].value]
    /\ mutex' = [mutex EXCEPT ![request[r].server] = None]
    /\ request' = [request EXCEPT ![r] = NoRequest]
    /\ UNCHANGED <<stored, lock, key, saves>>

-----------------------------------------------------------------------------
(* The typed group and the records: read, normalise, encrypt, write *)

SaveSettingGroup(r, form) ==
    /\ \E value \in normalize(form, stored[GroupKey], FALSE) :
          Begin(r, [NoRequest EXCEPT !.step = "write", !.key = GroupKey, !.value = value])
    /\ UNCHANGED <<stored, lock, memory, mutex, key>>

(* original is None for a new record; a record that is edited must be there. *)
SaveResourceRecord(r, original, name, form) ==
    /\ original # None => stored[RecordKey(original)] # None
    /\ \E value \in normalize(form, IF original = None THEN None ELSE stored[RecordKey(original)], original = None) :
          Begin(r, [NoRequest EXCEPT !.step = "write", !.key = RecordKey(name), !.value = value,
                       !.old = IF original \in {None, name} THEN None ELSE RecordKey(original)])
    /\ UNCHANGED <<stored, lock, memory, mutex, key>>

DeleteResourceRecord(n) ==
    /\ stored[RecordKey(n)] # None
    /\ stored' = [stored EXCEPT ![RecordKey(n)] = None]
    /\ UNCHANGED <<lock, memory, mutex, key, request, saves>>

(* A guest writes a key of its own: the administrators' keys are refused. *)
administratorManagedSetting(k) == k \in FeatureKeys \cup {GroupKey} \cup RecordKeys

storageCall(r, k) ==
    /\ ~administratorManagedSetting(k)
    /\ Begin(r, [NoRequest EXCEPT !.step = "write", !.key = k, !.value = [own |-> TRUE]])
    /\ UNCHANGED <<stored, lock, memory, mutex, key>>

-----------------------------------------------------------------------------
(* One write: the lock, the checks under it, the statement.  A request that *)
(* fails ends; one that was storing features releases the manager.          *)

Storing(r) == \E s \in Servers : mutex[s] = r

Fail(r) ==
    /\ request' = [request EXCEPT ![r] = NoRequest]
    /\ mutex' = [s \in Servers |-> IF mutex[s] = r THEN None ELSE mutex[s]]

withinQuotaAndOne(k) == Cardinality(Occupied \ {k}) <= MaxKeys \* a mutant

withinQuota(k) == Cardinality(Occupied \ {k}) < MaxKeys

moveOver(r) == \* a mutant: whether the new key is taken is not asked
    IF request[r].old = None THEN withinQuota(request[r].key)
    ELSE stored[request[r].old] # None /\ withinQuota(request[r].old)

(* WritePluginValue excludes the key it writes, a rename the key it gives up. *)
mayWrite(r) ==
    IF request[r].old = None THEN withinQuota(request[r].key)
    ELSE /\ stored[request[r].old] # None
         /\ stored[request[r].key] = None
         /\ withinQuota(request[r].old)

WriteFails(r) ==
    /\ request[r].step = "write" /\ lock = None
    /\ Fail(r)
    /\ UNCHANGED <<stored, lock, memory, key, saves>>

lockPluginValues(r) ==
    /\ request[r].step = "write" /\ lock = None
    /\ mayWrite(r)
    /\ lock' = r
    /\ request' = [request EXCEPT ![r].step = "commit"]
    /\ UNCHANGED <<stored, memory, mutex, key, saves>>

ValueOf(r) == IF request[r].key \in FeatureKeys THEN request[r].value[request[r].key[2]] ELSE request[r].value

Insert(r) ==
    [stored EXCEPT ![request[r].key] = ValueOf(r)]

movePluginValue(r) ==
    [k \in Keys |-> IF k = request[r].old THEN None ELSE Insert(r)[k]]

CommitValue(r) ==
    /\ request[r].step = "commit"
    /\ stored' = IF request[r].old = None THEN Insert(r) ELSE movePluginValue(r)
    /\ lock' = None
    /\ request' = [request EXCEPT ![r] =
          IF Storing(r) THEN [request[r] EXCEPT !.step = "next", !.key = None] ELSE NoRequest]
    /\ UNCHANGED <<memory, mutex, key, saves>>

(* A server starts again, and reads what is stored; its requests are gone. *)
Restart(s) ==
    /\ memory # [memory EXCEPT ![s] = loadSettings] \/ mutex[s] # None
    /\ memory' = [memory EXCEPT ![s] = loadSettings]
    /\ mutex' = [mutex EXCEPT ![s] = None]
    /\ request' = [r \in Requests |-> IF r = mutex[s] THEN NoRequest ELSE request[r]]
    /\ lock' = IF lock = mutex[s] THEN None ELSE lock
    /\ UNCHANGED <<stored, key, saves>>

-----------------------------------------------------------------------------
ValuesInit ==
    /\ stored = [k \in Keys |-> None]
    /\ lock = None
    /\ memory = [s \in Servers |-> [f \in Features |-> TRUE]]
    /\ mutex = [s \in Servers |-> None]
    /\ key \in BOOLEAN
    /\ request = [r \in Requests |-> NoRequest]
    /\ saves = 0

ValuesNext ==
    \/ \E r \in Requests :
          \/ /\ request[r] = NoRequest /\ saves < MaxSaves
             /\ \/ \E s \in Servers, settings \in [Features -> BOOLEAN] : UpdateSettings(r, s, settings)
                \/ \E f \in Forms : \/ SaveSettingGroup(r, f)
                                       \/ \E o \in Names \cup {None}, n \in Names : SaveResourceRecord(r, o, n, f)
                \/ \E k \in Keys : storageCall(r, k)
          \/ \E f \in Features : persistFeatureSettings(r, f)
          \/ FeaturesSaved(r)
          \/ WriteFails(r) \/ lockPluginValues(r) \/ CommitValue(r)
    \/ \E n \in Names : DeleteResourceRecord(n)
    \/ \E s \in Servers : Restart(s)

ValuesSpec == ValuesInit /\ [][ValuesNext]_valueVars

-----------------------------------------------------------------------------
WithinQuota == Cardinality(Occupied) <= MaxKeys

StoredIsNormal ==
    \A k \in {GroupKey} \cup RecordKeys : stored[k] # None =>
        /\ stored[k].plain \in normalizeConfigurationValue(FieldType, stored[k].plain)
        /\ stored[k].secret[1] = "cipher"
        /\ Required => MaskResourceSecrets(stored[k]).configured

(* However many servers write at once, a plugin never has more keys than its *)
(* quota: the keys are counted under the lock the write is made under.  And  *)
(* whichever read a save was computed from, what is stored is accepted again *)
(* as it is, a secret is only stored encrypted, and a required one is there  *)
(* when the records are listed and when the plugin reads its group.          *)
StoredIsSound ==
    /\ WithinQuota /\ StoredIsNormal
    /\ Required /\ stored[GroupKey] # None => ReadDeclaredSetting("secret") # ""

(* A rename gives up one key and takes a free one: no record of another name *)
(* is lost, although the check and the statement are two.                    *)
RenamesLoseNothing ==
    [][\A r \in Requests :
          request[r].old # None /\ request[r].step = "commit" /\ request'[r].step = "idle" =>
              /\ request[r].key \notin Occupied
              /\ Occupied' = (Occupied \ {request[r].old}) \cup {request[r].key}]_valueVars

(* The features stored are ones an administrator may choose ("keeps the      *)
(* operation atomic to callers").  It does not hold: each is a transaction   *)
(* of its own, and the ones before a failure stay.                           *)
StoredFeaturesAreConsistent ==
    (\A s \in Servers : mutex[s] = None) => validateFeatureSettingDependencies(loadSettings)
=============================================================================
