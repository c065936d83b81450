------------------------------- MODULE KeyStore -------------------------------
(***************************************************************************)
(* The API keys: config/keys.json, the KeyManager of src/keys/manager.ts   *)
(* that holds them in memory, and the administration routes of             *)
(* src/admin/keyRoutes.ts that change them.  An operator may edit the file *)
(* beside the running gateway, and the process may crash at any moment.    *)
(*                                                                         *)
(* A table of keys maps the secrets it holds to an id and the enabled flag;*)
(* the other fields of a key and the order of the list do not matter here. *)
(* The id of a key is unique as long as the gateway generates it; a file   *)
(* written by hand may use an id twice.                                    *)
(***************************************************************************)
EXTENDS Naturals, FiniteSets

CONSTANTS
  Secrets,      \* the bearer tokens that keys may have
  Ids,          \* the ids that keys may have
  Edits,        \* what an operator may write to the file by hand
  Mishaps       \* what goes wrong in a run, of AllMishaps

Key == [id : Ids, enabled : BOOLEAN]
Table == UNION {[S -> Key] : S \in SUBSET Secrets}

(* A file that does not parse; one whose list of keys breaks off after the *)
(* keys of t, at an element that is null, or at once, for there is no list;*)
(* and one with the keys of t.                                             *)
Broken == [kind |-> "broken"]
Cut(t) == [kind |-> "cut", table |-> t]
Keys(t) == [kind |-> "keys", table |-> t]
Content == {Broken} \cup {Cut(t) : t \in Table} \cup {Keys(t) : t \in Table}
NoEdit == Broken

ASSUME EditsAssumption == Edits \subseteq Content

(*   "open"      the file cannot be opened for writing                     *)
(*   "write"     a write stops halfway, the disk is full or the process    *)
(*               crashes                                                   *)
(*   "read"      the file cannot be read                                   *)
(*   "startup"   the operator edits the file after the gateway loaded it   *)
(*               and before its watcher took the first stat()              *)
AllMishaps == {"open", "write", "read", "startup"}
ASSUME MishapsAssumption == Mishaps \subseteq AllMishaps

VARIABLES
  file,         \* the content of config/keys.json
  modified,     \* its modification time is not the one stat() last gave
  watching,     \* the watcher took its first stat()
  reloading,    \* the watcher's callback is due
  up,           \* the gateway runs
  keys,         \* the table in memory, empty while the gateway is down
  told,         \* observer: what the administrator was told of each secret
  edit,         \* observer: an edit by hand that was never loaded, or NoEdit
  missed        \* observer: no load will make up for the last change of the file

vars == <<file, modified, watching, reloading, up, keys, told, edit, missed>>

Empty == [s \in {} |-> 0]
Verdicts == {"unknown", "valid", "invalid"}
ToldNothing == [s \in Secrets |-> "unknown"]

(* A mistake: a new key is saved without its enabled flag. *)
WithUnflagged(t, s, k) ==
  [x \in DOMAIN t \cup {s} |-> IF x = s THEN [id |-> k.id] ELSE t[x]]

With(t, s, k) == [x \in DOMAIN t \cup {s} |-> IF x = s THEN k ELSE t[x]]

Without(t, S) == [x \in DOMAIN t \ S |-> t[x]]

(* validate(): whether a bearer token is accepted. *)
Validate(t, s) == s \in DOMAIN t /\ t[s].enabled

Init ==
  /\ file \in {Keys(t) : t \in Table}
  /\ modified = FALSE /\ watching = TRUE /\ reloading = FALSE
  /\ up = TRUE /\ keys = file.table
  /\ told = ToldNothing
  /\ edit = NoEdit
  /\ missed = FALSE

--------------------------------------------------------------------------------
(* A mistake: the table is cleared before the file is parsed. *)
LoadedClearsFirst(c, old) == IF c.kind = "broken" THEN Empty ELSE c.table

(* loadKeys(): what it leaves in memory, given what was there.  It throws  *)
(* at a file that does not parse before the table is cleared, at a list    *)
(* that breaks off when it has taken the keys before that.                 *)
Loaded(c, old) == IF c.kind = "broken" THEN old ELSE c.table

(* An edit counts as seen once the file was loaded while it still held it. *)
EditAfterLoad(c) == IF c = edit THEN NoEdit ELSE edit

(* A mistake: the file is saved and not loaded again. *)
SavedOnly(t, verdicts) ==
  /\ file' = Keys(t)
  /\ modified' = TRUE
  /\ told' = [s \in Secrets |->
                IF s \in DOMAIN verdicts THEN verdicts[s] ELSE told[s]]
  /\ UNCHANGED <<watching, reloading, up, keys, edit, missed>>

(* saveKeys(t), called by a handler that then answers; "verdicts" maps the *)
(* secrets the answer is about to what it says.  Between the handler's     *)
(* getKeys() and the end of saveKeys() the gateway does nothing else.      *)
Saved(t, verdicts) ==
  /\ file' = Keys(t)
  /\ keys' = t
  /\ modified' = TRUE
  /\ told' = [s \in Secrets |->
                IF s \in DOMAIN verdicts THEN verdicts[s] ELSE told[s]]
  /\ edit' = EditAfterLoad(Keys(t))
  /\ missed' = FALSE
  /\ UNCHANGED <<watching, reloading, up>>

(* One step of saveKeys() fails: the file cannot be opened, it was cut off *)
(* before the disk was full, or it cannot be read back.  The handler then  *)
(* answers 500, which says nothing of the keys concerned.                  *)
SaveFails(t, concerned) ==
  /\ \/ "open" \in Mishaps /\ UNCHANGED <<file, modified>>
     \/ "write" \in Mishaps /\ file' = Broken /\ modified' = TRUE
     \/ "read" \in Mishaps /\ file' = Keys(t) /\ modified' = TRUE
  /\ missed' = (missed \/ (file' # file /\ ~watching))
  /\ told' = [s \in Secrets |-> IF s \in concerned THEN "unknown" ELSE told[s]]
  /\ UNCHANGED <<watching, reloading, up, keys, edit>>

Save(t, verdicts) == Saved(t, verdicts) \/ SaveFails(t, DOMAIN verdicts)

Verdict(enabled) == IF enabled THEN "valid" ELSE "invalid"

(* POST /admin/keys: a random secret and id, which no key has. *)
CreateKey(s, i, enabled) ==
  /\ up
  /\ s \notin DOMAIN keys
  /\ \A x \in DOMAIN keys : keys[x].id # i
  /\ Save(With(keys, s, [id |-> i, enabled |-> enabled]),
          [x \in {s} |-> Verdict(enabled)])

(* PATCH /admin/keys/:id changes one key with that id. *)
UpdateKey(s, enabled) ==
  /\ up
  /\ s \in DOMAIN keys
  /\ Save([keys EXCEPT ![s].enabled = enabled], [x \in {s} |-> Verdict(enabled)])

(* DELETE /admin/keys/:id removes every key with that id. *)
DeleteKey(i) ==
  LET gone == {s \in DOMAIN keys : keys[s].id = i}
  IN  /\ up
      /\ gone # {}
      /\ Save(Without(keys, gone), [x \in gone |-> "invalid"])

(* A mistake: a change noticed while the callback is due cancels it. *)
StatDrops ==
  /\ up
  /\ ~watching \/ modified
  /\ watching' = TRUE
  /\ modified' = FALSE
  /\ reloading' = (watching /\ ~reloading)
  /\ UNCHANGED <<file, up, keys, told, edit, missed>>

(* The watcher: the first stat() only notes the modification time; then,   *)
(* every five seconds, one that differs from the last makes the callback   *)
(* load the file, as it is by that time.                                   *)
Stat ==
  /\ up /\ ~reloading
  /\ ~watching \/ modified
  /\ watching' = TRUE
  /\ modified' = FALSE
  /\ reloading' = watching
  /\ UNCHANGED <<file, up, keys, told, edit, missed>>

Reload ==
  /\ up /\ reloading
  /\ reloading' = FALSE
  /\ keys' = Loaded(file, keys)
  /\ edit' = EditAfterLoad(file)
  /\ missed' = FALSE
  /\ UNCHANGED <<file, modified, watching, up, told>>

(* The callback cannot read the file; its error is logged. *)
ReloadFails ==
  /\ up /\ reloading
  /\ "read" \in Mishaps
  /\ reloading' = FALSE
  /\ missed' = TRUE
  /\ UNCHANGED <<file, modified, watching, up, keys, told, edit>>

--------------------------------------------------------------------------------
(* The process and the operator. *)

(* A crash; one inside writeFileSync() leaves a part of the file. *)
Crash ==
  /\ up
  /\ up' = FALSE /\ keys' = Empty
  /\ watching' = FALSE /\ reloading' = FALSE
  /\ \/ UNCHANGED <<file, modified>>
     \/ "write" \in Mishaps /\ file' = Broken /\ modified' = TRUE
  /\ missed' = FALSE
  /\ UNCHANGED <<told, edit>>

(* The constructor loads the file; if that throws, there is no gateway. *)
Start ==
  /\ ~up
  /\ file.kind = "keys"
  /\ up' = TRUE /\ keys' = file.table
  /\ modified' = FALSE
  /\ edit' = NoEdit
  /\ UNCHANGED <<file, watching, reloading, told, missed>>

(* The operator writes the file, whole or in parts, and may change any key.*)
EditFile(c) ==
  /\ up /\ ~watching => "startup" \in Mishaps
  /\ file' = c
  /\ modified' = TRUE
  /\ told' = ToldNothing
  /\ edit' = IF c.kind = "keys" THEN c ELSE NoEdit
  /\ missed' = (missed \/ (up /\ ~watching))
  /\ UNCHANGED <<watching, reloading, up, keys>>

Admin ==
  \/ \E s \in Secrets, i \in Ids, enabled \in BOOLEAN : CreateKey(s, i, enabled)
  \/ \E s \in Secrets, enabled \in BOOLEAN : UpdateKey(s, enabled)
  \/ \E i \in Ids : DeleteKey(i)

Next ==
  \/ Admin
  \/ Stat \/ Reload \/ ReloadFails
  \/ Crash \/ Start
  \/ \E c \in Edits : EditFile(c)

Spec == Init /\ [][Next]_vars

(* The watcher's timer goes on firing, and its callback runs. *)
FairSpec == Spec /\ WF_vars(Stat) /\ WF_vars(Reload)

--------------------------------------------------------------------------------
(* The types; in particular the table in memory holds no half a key.       *)
TypeOK ==
  /\ file \in Content
  /\ modified \in BOOLEAN /\ watching \in BOOLEAN
  /\ reloading \in BOOLEAN /\ up \in BOOLEAN
  /\ keys \in Table
  /\ told \in [Secrets -> Verdicts]
  /\ edit \in Content
  /\ missed \in BOOLEAN

(* Table t does what the administrator was told of s. *)
Agrees(t, s) ==
  /\ told[s] = "valid" => Validate(t, s)
  /\ told[s] = "invalid" => ~Validate(t, s)

(* What the administrator was told of a key stays true: a deleted or       *)
(* disabled key is not accepted again, a created or enabled one is, by the *)
(* running gateway and by the one that starts after a crash, whatever the  *)
(* watcher loads in between and whatever save fails later, until an        *)
(* operator edits the file.                                                *)
AnswersHold ==
  \A s \in Secrets :
    /\ up => Agrees(keys, s)
    /\ file.kind = "keys" => Agrees(file.table, s)

(* The key of a secret, if there is one. *)
Entry(t, s) == IF s \in DOMAIN t THEN <<t[s]>> ELSE <<>>

(* The gateway never makes up a key or forgets one by itself: whatever     *)
(* becomes of a key in memory while it runs is what the file says of that  *)
(* key, up to where its list breaks off.  In particular a file that does   *)
(* not parse changes nothing.                                              *)
OnlyAsked ==
  [][up /\ up' => \A s \in Secrets :
       Entry(keys', s) # Entry(keys, s) =>
         file'.kind # "broken" /\ Entry(keys', s) = Entry(file'.table, s)]_vars

(* Memory holds what the file says. *)
UpToDate == file.kind = "keys" => keys = file.table

(* Once nothing writes the file any more, the gateway comes to hold what it*)
(* says and keeps it, through any crash and restart, unless it failed to   *)
(* read the file when its watcher told it to, or the file changed before   *)
(* the watcher's first stat(): nothing makes up for these.                 *)
Converges == <>[][UNCHANGED file]_vars => <>[](up /\ ~missed => UpToDate)

(* README.md: "Keys are defined in config/keys.json and hot-reloaded every *)
(* 5 seconds": a complete edit by hand is loaded unless the next edit or   *)
(* the end of the process comes first.                                     *)
HotReloaded == edit # NoEdit ~> edit = NoEdit \/ ~up

================================================================================
