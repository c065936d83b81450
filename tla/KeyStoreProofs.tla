---------------------------- MODULE KeyStoreProofs ----------------------------
(***************************************************************************)
(* What the administrator was told of a key stays true, for any number of  *)
(* keys and any run of edits, failing file operations and crashes.         *)
(*                                                                         *)
(* A gateway that loads a list of keys that breaks off forgets the rest.   *)
(* Only an operator writes such a file, and the administrator can have     *)
(* been told nothing since: CutIsEdited is what makes AnswersHold          *)
(* inductive.                                                              *)
(***************************************************************************)
EXTENDS KeyStore, TLAPS

CutIsEdited == file.kind = "cut" => told = ToldNothing

KInv == TypeOK /\ AnswersHold /\ CutIsEdited

--------------------------------------------------------------------------------
(* Tables. *)

(* A record of keys is a content, and its table is the one put in. *)
LEMMA KeysContent ==
  ASSUME NEW t \in Table
  PROVE  Keys(t) \in Content /\ Keys(t).kind = "keys" /\ Keys(t).table = t
BY DEF Content, Keys

(* A content with a list of keys, even one that breaks off, has a table. *)
LEMMA ContentTable ==
  ASSUME NEW c \in Content, c.kind # "broken"
  PROVE  c.table \in Table
<1>1. c # Broken
  BY DEF Broken
<1>2. PICK t \in Table : c = Keys(t) \/ c = Cut(t)
  BY <1>1 DEF Content
<1> QED  BY <1>2 DEF Keys, Cut

(* A function from some secrets to keys is a table, and back. *)
LEMMA TableIsFunction ==
  /\ \A S \in SUBSET Secrets : \A f \in [S -> Key] : f \in Table
  /\ \A t \in Table : /\ DOMAIN t \in SUBSET Secrets
                      /\ t \in [DOMAIN t -> Key]
BY DEF Table

(* No key at all is a table. *)
LEMMA EmptyTable == Empty \in Table
BY TableIsFunction DEF Empty

(* Adding a key changes what is said of that key only. *)
LEMMA WithTable ==
  ASSUME NEW t \in Table, NEW s \in Secrets, NEW k \in Key
  PROVE  /\ With(t, s, k) \in Table
         /\ Validate(With(t, s, k), s) <=> k.enabled
         /\ \A x \in Secrets \ {s} : Validate(With(t, s, k), x) <=> Validate(t, x)
<1>1. DOMAIN t \in SUBSET Secrets /\ t \in [DOMAIN t -> Key]
  BY TableIsFunction
<1>2. DOMAIN t \cup {s} \in SUBSET Secrets
  BY <1>1
<1>3. With(t, s, k) \in [DOMAIN t \cup {s} -> Key]
  BY <1>1 DEF With
<1>4. With(t, s, k) \in Table
  BY <1>2, <1>3, TableIsFunction
<1> QED  BY <1>1, <1>4 DEF With, Validate

(* Deleting keys changes what is said of those keys only. *)
LEMMA WithoutTable ==
  ASSUME NEW t \in Table, NEW S \in SUBSET Secrets
  PROVE  /\ Without(t, S) \in Table
         /\ \A x \in S : ~Validate(Without(t, S), x)
         /\ \A x \in Secrets \ S : Validate(Without(t, S), x) <=> Validate(t, x)
<1>1. DOMAIN t \in SUBSET Secrets /\ t \in [DOMAIN t -> Key]
  BY TableIsFunction
<1>2. DOMAIN t \ S \in SUBSET Secrets
  BY <1>1
<1>3. Without(t, S) \in [DOMAIN t \ S -> Key]
  BY <1>1 DEF Without
<1>4. Without(t, S) \in Table
  BY <1>2, <1>3, TableIsFunction
<1> QED  BY <1>1, <1>4 DEF Without, Validate

(* Changing the enabled flag of a key changes what is said of it only. *)
LEMMA UpdatedTable ==
  ASSUME NEW t \in Table, NEW s \in DOMAIN t, NEW e \in BOOLEAN
  PROVE  LET u == [t EXCEPT ![s].enabled = e]
         IN  /\ u \in Table
             /\ Validate(u, s) <=> e
             /\ \A x \in Secrets \ {s} : Validate(u, x) <=> Validate(t, x)
<1> DEFINE u == [t EXCEPT ![s].enabled = e]
<1>1. DOMAIN t \in SUBSET Secrets /\ t \in [DOMAIN t -> Key]
  BY TableIsFunction
<1>2. u \in [DOMAIN t -> Key] /\ u[s].enabled = e
  BY <1>1 DEF Key
<1>3. u \in Table
  BY <1>1, <1>2, TableIsFunction
<1>4. Validate(u, s) <=> e
  BY <1>2 DEF Validate
<1>5. \A x \in Secrets \ {s} : Validate(u, x) <=> Validate(t, x)
  BY <1>1 DEF Validate
<1> QED  BY <1>3, <1>4, <1>5

--------------------------------------------------------------------------------
(* Steps. *)

(* A request that changes the table from keys to t, and tells of some      *)
(* secrets what t says of them and nothing of those it leaves alone.       *)
TellsTruth(t, verdicts) ==
  /\ t \in Table
  /\ DOMAIN verdicts \subseteq Secrets
  /\ \A s \in DOMAIN verdicts : verdicts[s] = Verdict(Validate(t, s))
  /\ \A s \in Secrets \ DOMAIN verdicts : Validate(t, s) <=> Validate(keys, s)

(* A request that tells the truth keeps the invariant, whether its save    *)
(* succeeds or fails at any of its steps.                                  *)
LEMMA SaveStep ==
  ASSUME KInv, up, NEW t, NEW verdicts, TellsTruth(t, verdicts), Save(t, verdicts)
  PROVE  KInv'
<1>1. Keys(t) \in Content /\ Keys(t).kind = "keys" /\ Keys(t).table = t
  BY KeysContent DEF TellsTruth
<1>2. Broken \in Content /\ Broken.kind = "broken"
  BY DEF Content, Broken
<1>3. \A s \in DOMAIN verdicts : verdicts[s] \in Verdicts
  BY DEF TellsTruth, Verdict, Verdicts
<1>4. ASSUME NEW s \in Secrets, s \notin DOMAIN verdicts, NEW v \in Verdicts, v = told[s]
      PROVE  /\ v = "valid" => Validate(t, s)
             /\ v = "invalid" => ~Validate(t, s)
  BY <1>4 DEF KInv, AnswersHold, Agrees, TellsTruth
<1>5. CASE Saved(t, verdicts)
  <2>1. told' \in [Secrets -> Verdicts]
    BY <1>3, <1>5 DEF Saved, KInv, TypeOK
  <2>2. TypeOK'
    BY <1>1, <1>5, <2>1 DEF Saved, KInv, TypeOK, TellsTruth, EditAfterLoad, NoEdit, Content
  <2>3. ASSUME NEW s \in Secrets
        PROVE  /\ told'[s] = "valid" => Validate(t, s)
               /\ told'[s] = "invalid" => ~Validate(t, s)
    <3>1. CASE s \in DOMAIN verdicts
      BY <1>5, <3>1 DEF Saved, TellsTruth, Verdict
    <3>2. CASE s \notin DOMAIN verdicts
      <4>1. told'[s] = told[s] /\ told[s] \in Verdicts
        BY <1>5, <3>2 DEF Saved, KInv, TypeOK
      <4> QED  BY <1>4, <3>2, <4>1
    <3> QED  BY <3>1, <3>2
  <2>4. AnswersHold'
    BY <1>1, <1>5, <2>3 DEF Saved, AnswersHold, Agrees, Validate
  <2>5. CutIsEdited'
    BY <1>1, <1>5 DEF Saved, CutIsEdited
  <2> QED  BY <2>2, <2>4, <2>5 DEF KInv
<1>6. CASE SaveFails(t, DOMAIN verdicts)
  <2>1. told' \in [Secrets -> Verdicts]
    BY <1>6 DEF SaveFails, KInv, TypeOK, Verdicts
  <2>2. file' \in {file, Broken, Keys(t)}
    BY <1>6 DEF SaveFails
  <2>3. TypeOK'
    BY <1>1, <1>2, <1>6, <2>1, <2>2 DEF SaveFails, KInv, TypeOK
  <2>4. ASSUME NEW s \in Secrets
        PROVE  told'[s] = "unknown" \/ (s \notin DOMAIN verdicts /\ told'[s] = told[s])
    BY <1>6 DEF SaveFails
  <2>5. keys' = keys /\ up' = up
    BY <1>6 DEF SaveFails
  <2>6. ASSUME NEW s \in Secrets
        PROVE  /\ Agrees(keys, s)'
               /\ file'.kind = "keys" => Agrees(file.table, s)'
    <3>1. CASE told'[s] = "unknown"
      BY <3>1 DEF Agrees
    <3>2. CASE s \notin DOMAIN verdicts /\ told'[s] = told[s]
      <4>1. Agrees(keys, s)'
        BY <2>5, <3>2 DEF KInv, AnswersHold, Agrees, Validate
      <4>2. told[s] \in Verdicts
        BY DEF KInv, TypeOK
      <4>3. CASE file' = file
        BY <3>2, <4>1, <4>3 DEF KInv, AnswersHold, Agrees, Validate
      <4>4. CASE file' = Broken
        BY <1>2, <4>1, <4>4
      <4>5. CASE file' = Keys(t)
        BY <1>1, <1>4, <3>2, <4>1, <4>2, <4>5 DEF Agrees, Validate
      <4> QED  BY <2>2, <4>3, <4>4, <4>5
    <3> QED  BY <2>4, <3>1, <3>2
  <2>7. AnswersHold'
    BY <2>6 DEF AnswersHold
  <2>8. CutIsEdited'
    <3>1. CASE file' = file
      <4>1. SUFFICES ASSUME file.kind = "cut"  PROVE told' = ToldNothing
        BY <3>1 DEF CutIsEdited
      <4>2. told = ToldNothing
        BY <4>1 DEF KInv, CutIsEdited
      <4> QED  BY <1>6, <4>2 DEF SaveFails, ToldNothing
    <3>2. CASE file' \in {Broken, Keys(t)}
      BY <1>1, <1>2, <3>2 DEF CutIsEdited
    <3> QED  BY <2>2, <3>1, <3>2
  <2> QED  BY <2>3, <2>7, <2>8 DEF KInv
<1> QED  BY <1>5, <1>6 DEF Save

(* The administration's requests tell the truth. *)
LEMMA AdminStep == KInv /\ Admin => KInv'
<1> SUFFICES ASSUME KInv, Admin  PROVE KInv'
  OBVIOUS
<1>0. keys \in Table /\ DOMAIN keys \subseteq Secrets
  BY TableIsFunction DEF KInv, TypeOK
<1>1. ASSUME NEW s \in Secrets, NEW i \in Ids, NEW e \in BOOLEAN, CreateKey(s, i, e)
      PROVE  KInv'
  <2> DEFINE k == [id |-> i, enabled |-> e]
             t == With(keys, s, k)
             v == [x \in {s} |-> Verdict(e)]
  <2>1. k \in Key /\ k.enabled = e
    BY DEF Key
  <2> HIDE DEF k
  <2>2. /\ t \in Table
        /\ Validate(t, s) <=> e
        /\ \A x \in Secrets \ {s} : Validate(t, x) <=> Validate(keys, x)
    BY <1>0, <2>1, WithTable
  <2>3. DOMAIN v = {s} /\ v[s] = Verdict(e)
    OBVIOUS
  <2> HIDE DEF v, t
  <2>4. Validate(t, s) \in BOOLEAN
    BY DEF Validate
  <2>5. TellsTruth(t, v)
    BY <2>2, <2>3, <2>4 DEF TellsTruth, Verdict
  <2>6. up /\ Save(t, v)
    BY <1>1 DEF CreateKey, t, v, k
  <2> QED  BY <2>5, <2>6, SaveStep
<1>2. ASSUME NEW s \in Secrets, NEW e \in BOOLEAN, UpdateKey(s, e)
      PROVE  KInv'
  <2> DEFINE t == [keys EXCEPT ![s].enabled = e]
             v == [x \in {s} |-> Verdict(e)]
  <2>1. s \in DOMAIN keys
    BY <1>2 DEF UpdateKey
  <2>2. /\ t \in Table
        /\ Validate(t, s) <=> e
        /\ \A x \in Secrets \ {s} : Validate(t, x) <=> Validate(keys, x)
    BY <1>0, <2>1, UpdatedTable
  <2>3. DOMAIN v = {s} /\ v[s] = Verdict(e)
    OBVIOUS
  <2>6. up /\ Save(t, v)
    BY <1>2 DEF UpdateKey
  <2> HIDE DEF v, t
  <2>5. TellsTruth(t, v)
    BY <2>2, <2>3 DEF TellsTruth, Verdict
  <2> QED  BY <2>5, <2>6, SaveStep
<1>3. ASSUME NEW i \in Ids, DeleteKey(i)
      PROVE  KInv'
  <2> DEFINE gone == {s \in DOMAIN keys : keys[s].id = i}
             t == Without(keys, gone)
             v == [x \in gone |-> "invalid"]
  <2>1. gone \in SUBSET Secrets
    BY <1>0
  <2>6. up /\ Save(t, v)
    BY <1>3 DEF DeleteKey
  <2>3. DOMAIN v = gone /\ \A s \in gone : v[s] = "invalid"
    OBVIOUS
  <2> HIDE DEF v, gone
  <2>2. /\ t \in Table
        /\ \A x \in gone : ~Validate(t, x)
        /\ \A x \in Secrets \ gone : Validate(t, x) <=> Validate(keys, x)
    BY <1>0, <2>1, WithoutTable
  <2> HIDE DEF t
  <2>5. TellsTruth(t, v)
    BY <2>1, <2>2, <2>3 DEF TellsTruth, Verdict
  <2> QED  BY <2>5, <2>6, SaveStep
<1> QED  BY <1>1, <1>2, <1>3 DEF Admin

(* At the start nobody was told anything. *)
LEMMA InitKInv == Init => KInv
<1> SUFFICES ASSUME Init  PROVE KInv
  OBVIOUS
<1>1. PICK t \in Table : file = Keys(t)
  BY DEF Init
<1>2. file \in Content /\ keys \in Table
  BY <1>1, KeysContent DEF Init
<1>3. NoEdit \in Content
  BY DEF NoEdit, Content
<1>4. told \in [Secrets -> Verdicts] /\ \A s \in Secrets : told[s] = "unknown"
  BY DEF Init, ToldNothing, Verdicts
<1>5. TypeOK
  BY <1>2, <1>3, <1>4 DEF Init, TypeOK
<1>6. AnswersHold
  BY <1>4 DEF AnswersHold, Agrees
<1>7. CutIsEdited
  BY DEF Init, CutIsEdited
<1> QED  BY <1>5, <1>6, <1>7 DEF KInv

(* Neither the watcher, nor a crash and a new start, nor an edit by hand   *)
(* makes an answer wrong.                                                  *)
LEMMA OtherStep ==
  ASSUME KInv,
         Stat \/ Reload \/ ReloadFails \/ Crash \/ Start \/ (\E c \in Edits : EditFile(c))
  PROVE  KInv'
<1>1. CASE Stat
  BY <1>1 DEF Stat, KInv, TypeOK, AnswersHold, Agrees, Validate, CutIsEdited
<1>2. CASE Reload
  <2>1. EditAfterLoad(file) \in Content
    BY DEF EditAfterLoad, NoEdit, Content, KInv, TypeOK
  <2>2. CASE file.kind = "keys"
    <3>1. keys' = file.table /\ file.table \in Table
      BY <1>2, <2>2, ContentTable DEF Reload, Loaded, KInv, TypeOK
    <3>2. TypeOK'
      BY <1>2, <2>1, <3>1 DEF Reload, KInv, TypeOK
    <3>3. AnswersHold' /\ CutIsEdited'
      BY <1>2, <2>2, <3>1 DEF Reload, KInv, AnswersHold, Agrees, Validate, CutIsEdited
    <3> QED  BY <3>2, <3>3 DEF KInv
  <2>3. CASE file.kind = "cut"
    <3>1. keys' = file.table /\ file.table \in Table
      BY <1>2, <2>3, ContentTable DEF Reload, Loaded, KInv, TypeOK
    <3>2. TypeOK'
      BY <1>2, <2>1, <3>1 DEF Reload, KInv, TypeOK
    <3>3. \A s \in Secrets : told'[s] = "unknown"
      BY <1>2, <2>3 DEF Reload, KInv, CutIsEdited, ToldNothing
    <3>4. AnswersHold'
      BY <3>3 DEF AnswersHold, Agrees
    <3>5. CutIsEdited'
      BY <1>2 DEF Reload, KInv, CutIsEdited
    <3> QED  BY <3>2, <3>4, <3>5 DEF KInv
  <2>4. CASE file.kind = "broken"
    <3>1. keys' = keys
      BY <1>2, <2>4 DEF Reload, Loaded
    <3>2. TypeOK'
      BY <1>2, <2>1, <3>1 DEF Reload, KInv, TypeOK
    <3>3. AnswersHold' /\ CutIsEdited'
      BY <1>2, <3>1 DEF Reload, KInv, AnswersHold, Agrees, Validate, CutIsEdited
    <3> QED  BY <3>2, <3>3 DEF KInv
  <2>5. file.kind \in {"keys", "cut", "broken"}
    BY DEF KInv, TypeOK, Content, Keys, Cut, Broken
  <2> QED  BY <2>2, <2>3, <2>4, <2>5
<1>3. CASE ReloadFails
  BY <1>3 DEF ReloadFails, KInv, TypeOK, AnswersHold, Agrees, Validate, CutIsEdited
<1>4. CASE Crash
  <2>1. file' \in {file, Broken} /\ told' = told /\ ~up' /\ keys' = Empty
    BY <1>4 DEF Crash
  <2>2. Broken \in Content /\ Broken.kind = "broken"
    BY DEF Content, Broken
  <2>3. TypeOK'
    BY <1>4, <2>1, <2>2, EmptyTable DEF Crash, KInv, TypeOK
  <2>4. AnswersHold' /\ CutIsEdited'
    BY <2>1, <2>2 DEF KInv, AnswersHold, Agrees, Validate, CutIsEdited
  <2> QED  BY <2>3, <2>4 DEF KInv
<1>5. CASE Start
  <2>1. file.table \in Table
    BY <1>5, ContentTable DEF Start, KInv, TypeOK
  <2>2. NoEdit \in Content
    BY DEF NoEdit, Content
  <2>3. TypeOK'
    BY <1>5, <2>1, <2>2 DEF Start, KInv, TypeOK
  <2>4. AnswersHold' /\ CutIsEdited'
    BY <1>5 DEF Start, KInv, AnswersHold, Agrees, Validate, CutIsEdited
  <2> QED  BY <2>3, <2>4 DEF KInv
<1>6. ASSUME NEW c \in Edits, EditFile(c)  PROVE KInv'
  <2>1. c \in Content /\ NoEdit \in Content
    BY EditsAssumption DEF NoEdit, Content
  <2>2. told' = ToldNothing /\ ToldNothing \in [Secrets -> Verdicts]
    BY <1>6 DEF EditFile, ToldNothing, Verdicts
  <2>3. \A s \in Secrets : told'[s] = "unknown"
    BY <2>2 DEF ToldNothing
  <2>4. edit' \in {c, NoEdit}
    BY <1>6 DEF EditFile
  <2>5. TypeOK'
    BY <1>6, <2>1, <2>2, <2>4 DEF EditFile, KInv, TypeOK
  <2>6. AnswersHold'
    BY <2>3 DEF AnswersHold, Agrees
  <2>7. CutIsEdited'
    BY <2>2 DEF CutIsEdited, ToldNothing
  <2> QED  BY <2>5, <2>6, <2>7 DEF KInv
<1> QED  BY <1>1, <1>2, <1>3, <1>4, <1>5, <1>6

(* The invariant is inductive. *)
LEMMA KInvStep == KInv /\ [Next]_vars => KInv'
<1>1. KInv /\ UNCHANGED vars => KInv'
  BY DEF vars, KInv, TypeOK, AnswersHold, Agrees, Validate, CutIsEdited
<1> QED  BY <1>1, AdminStep, OtherStep DEF Next

(* What the administrator was told of a key stays true until an operator   *)
(* edits the file, in memory and in the file a new start would load.       *)
THEOREM AnswersHoldCorrect == Spec => []AnswersHold
<1>1. KInv => AnswersHold
  BY DEF KInv
<1> QED  BY <1>1, InitKInv, KInvStep, PTL DEF Spec

(* The state of the key store is always well typed. *)
THEOREM TypeCorrect == Spec => []TypeOK
<1>1. KInv => TypeOK
  BY DEF KInv
<1> QED  BY <1>1, InitKInv, KInvStep, PTL DEF Spec

(* The body of OnlyAsked, for one step. *)
AskedStep ==
  up /\ up' => \A s \in Secrets :
    Entry(keys', s) # Entry(keys, s) =>
      file'.kind # "broken" /\ Entry(keys', s) = Entry(file'.table, s)

(* A save that succeeds leaves memory as the file says, one that fails     *)
(* leaves it alone, and the watcher's load does one or the other.          *)
LEMMA AskedLemma == KInv /\ [Next]_vars => AskedStep
<1> SUFFICES ASSUME KInv, [Next]_vars  PROVE AskedStep
  OBVIOUS
<1>1. ASSUME keys' = keys  PROVE AskedStep
  BY <1>1 DEF AskedStep, Entry
<1>2. ASSUME file'.kind # "broken", keys' = file'.table  PROVE AskedStep
  BY <1>2 DEF AskedStep, Entry
<1>3. ASSUME NEW t, NEW verdicts, Save(t, verdicts)  PROVE AskedStep
  <2>1. CASE Saved(t, verdicts)
    BY <1>2, <2>1 DEF Saved, Keys
  <2>2. CASE SaveFails(t, DOMAIN verdicts)
    BY <1>1, <2>2 DEF SaveFails
  <2> QED  BY <1>3, <2>1, <2>2 DEF Save
<1>4. CASE Admin
  <2>1. ASSUME NEW s \in Secrets, NEW i \in Ids, NEW e \in BOOLEAN, CreateKey(s, i, e)
        PROVE  AskedStep
    BY <1>3, <2>1 DEF CreateKey
  <2>2. ASSUME NEW s \in Secrets, NEW e \in BOOLEAN, UpdateKey(s, e)
        PROVE  AskedStep
    BY <1>3, <2>2 DEF UpdateKey
  <2>3. ASSUME NEW i \in Ids, DeleteKey(i)  PROVE AskedStep
    BY <1>3, <2>3 DEF DeleteKey
  <2> QED  BY <1>4, <2>1, <2>2, <2>3 DEF Admin
<1>5. CASE Reload
  <2>1. CASE file.kind # "broken"
    BY <1>2, <1>5, <2>1 DEF Reload, Loaded
  <2>2. CASE file.kind = "broken"
    BY <1>1, <1>5, <2>2 DEF Reload, Loaded
  <2> QED  BY <2>1, <2>2
<1>6. CASE Crash \/ Start
  BY <1>6 DEF Crash, Start, AskedStep
<1>7. CASE Stat \/ ReloadFails \/ (\E c \in Edits : EditFile(c)) \/ UNCHANGED vars
  BY <1>1, <1>7 DEF Stat, ReloadFails, EditFile, vars
<1> QED  BY <1>4, <1>5, <1>6, <1>7 DEF Next

(* The gateway never makes up a key or forgets one by itself: a key in     *)
(* memory changes to what the file says of it, up to where its list breaks *)
(* off.                                                                    *)
THEOREM OnlyAskedCorrect == Spec => OnlyAsked
<1>1. KInv /\ [Next]_vars =>
        [up /\ up' => \A s \in Secrets :
           Entry(keys', s) # Entry(keys, s) =>
             file'.kind # "broken" /\ Entry(keys', s) = Entry(file'.table, s)]_vars
  BY AskedLemma DEF AskedStep
<1> QED  BY <1>1, InitKInv, KInvStep, PTL DEF Spec, OnlyAsked

--------------------------------------------------------------------------------
(* Why the watcher catches up: the part of Converges that is safety.       *)

(* The watcher runs in a gateway that runs, and while memory is behind the *)
(* file it has a change before it, to notice or to load.                   *)
Watched ==
  /\ watching \/ reloading => up
  /\ reloading => watching
  /\ up /\ ~missed /\ ~UpToDate => watching /\ (modified \/ reloading)

(* What the watcher has before it: its first stat() or a change to notice, *)
(* and then the callback.                                                  *)
Due == (IF ~watching \/ modified THEN 2 ELSE 0) + (IF reloading THEN 1 ELSE 0)

(* What a step of the watcher may never do: leave it as much to do as there*)
(* was; and what no step may do to memory that holds what the file says:   *)
(* leave it behind a file that is as it was.                               *)
CatchesUp ==
  /\ Stat \/ Reload \/ ReloadFails => Due' < Due
  /\ up /\ up' /\ UpToDate /\ UNCHANGED file => UpToDate'

(* A save that succeeds leaves memory as the file says, whatever it was.   *)
LEMMA SavedIsUpToDate ==
  ASSUME NEW t, NEW verdicts, Saved(t, verdicts)
  PROVE  UpToDate'
BY DEF Saved, UpToDate, Keys

(* A request of the administrator keeps the watcher's promise.             *)
LEMMA AdminIsWatched ==
  ASSUME Watched, Admin
  PROVE  Watched' /\ (UpToDate /\ UNCHANGED file => UpToDate')
<1>1. PICK t, verdicts : up /\ Save(t, verdicts)
  BY DEF Admin, CreateKey, UpdateKey, DeleteKey
<1>2. CASE Saved(t, verdicts)
  <2>1. UNCHANGED <<watching, reloading, up>>
    BY <1>2 DEF Saved
  <2> QED  BY <1>1, <1>2, <2>1, SavedIsUpToDate DEF Watched
<1>3. CASE SaveFails(t, DOMAIN verdicts)
  <2>1. UNCHANGED <<watching, reloading, up, keys>>
    BY <1>3 DEF SaveFails
  <2>2. file' # file => modified'
    BY <1>3 DEF SaveFails
  <2>3. file' # file /\ ~watching => missed'
    BY <1>3 DEF SaveFails
  <2>4. missed => missed'
    BY <1>3 DEF SaveFails
  <2>5. modified => modified'
    BY <1>3 DEF SaveFails
  <2>6. file' = file => (UpToDate' <=> UpToDate)
    BY <2>1 DEF UpToDate
  <2> QED  BY <1>1, <2>1, <2>2, <2>3, <2>4, <2>5, <2>6 DEF Watched
<1> QED  BY <1>1, <1>2, <1>3 DEF Save

(* So do the watcher itself, a crash and a new start, and an edit by hand. *)
LEMMA OtherIsWatched ==
  ASSUME Watched,
         Stat \/ Reload \/ ReloadFails \/ Crash \/ Start \/ (\E c \in Edits : EditFile(c))
  PROVE  Watched' /\ (up /\ up' /\ UpToDate /\ UNCHANGED file => UpToDate')
<1>1. CASE Stat
  BY <1>1 DEF Stat, Watched, UpToDate
<1>2. CASE Reload
  <2>1. UpToDate'
    BY <1>2 DEF Reload, Loaded, UpToDate
  <2> QED  BY <1>2, <2>1 DEF Reload, Watched
<1>3. CASE ReloadFails
  BY <1>3 DEF ReloadFails, Watched, UpToDate
<1>4. CASE Crash
  BY <1>4 DEF Crash, Watched
<1>5. CASE Start
  BY <1>5 DEF Start, Watched, UpToDate
<1>6. CASE \E c \in Edits : EditFile(c)
  <2>1. /\ modified' = TRUE /\ UNCHANGED <<watching, reloading, up, keys>>
        /\ missed' = (missed \/ (up /\ ~watching))
    BY <1>6 DEF EditFile
  <2>2. Watched'
    BY <2>1 DEF Watched
  <2> QED  BY <2>1, <2>2 DEF UpToDate
<1> QED  BY <1>1, <1>2, <1>3, <1>4, <1>5, <1>6

LEMMA WatchedStep ==
  Watched /\ [Next]_vars =>
    Watched' /\ (up /\ up' /\ UpToDate /\ UNCHANGED file => UpToDate')
<1>1. UNCHANGED vars => (Watched <=> Watched') /\ (UpToDate <=> UpToDate')
  BY DEF vars, Watched, UpToDate
<1> QED  BY <1>1, AdminIsWatched, OtherIsWatched DEF Next

(* Whatever an operator writes and whichever file operations fail, a       *)
(* running gateway whose keys are not those of the file either has a change*)
(* left to notice, and is at most two steps of its watcher from loading it,*)
(* or failed to read it or took its first stat() too late (missed); and    *)
(* keys that are those of the file stay so until someone writes the file.  *)
(* With the fairness of FairSpec this is why Converges holds.              *)
THEOREM ChangesAreNoticed == Spec => []Watched /\ [][CatchesUp]_vars
<1>1. Init => Watched
  BY DEF Init, Watched, UpToDate
<1>2. TypeOK /\ Watched /\ [Next]_vars => [CatchesUp]_vars
  <2> SUFFICES ASSUME TypeOK, Watched, Next  PROVE CatchesUp
    OBVIOUS
  <2>1. Stat \/ Reload \/ ReloadFails => Due' < Due
    BY DEF Stat, Reload, ReloadFails, Due, Watched
  <2> QED  BY <2>1, WatchedStep DEF CatchesUp
<1> QED  BY <1>1, <1>2, WatchedStep, TypeCorrect, PTL DEF Spec

================================================================================
