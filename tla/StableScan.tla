------------------------------- MODULE StableScan -------------------------------
(***************************************************************************)
(* How the phases read a listing that others change meanwhile: the comments*)
(* of an Issue (_scan_issue_comments, PublisherPhase._scan_comments of     *)
(* src/scripts/actions_request_handler.py) and the runs of a workflow      *)
(* (_scan_runs of src/scripts/actions_recipe_dispatch.py).  GitHub answers *)
(* one page per request.  Every reader scans all the pages, scans them     *)
(* again, refuses a difference, and only then looks for what it wants.     *)
(*                                                                         *)
(* A comment is added after all others, a run before them; both may be     *)
(* removed, and a comment may be edited, here once, hence never back to    *)
(* what it said before.                                                    *)
(***************************************************************************)
EXTENDS Naturals, FiniteSets, Paging

CONSTANTS
  Contents,  \* what an item may be: author, kind, mine, damage and bundle
  Queries,   \* what the reader may be asked for
  MaxItems   \* bound: items ever listed

(* mine: is it about the request and execution asked for?  damage: of the   *)
(* "marker" line, of the "envelope" below it, or "none".                    *)
Content == [author : {"publisher", "control", "other"},
            kind : {"intent", "prepare", "publication", "published", "receipt", "run"},
            mine : BOOLEAN, damage : {"none", "marker", "envelope"}, bundle : Nat]

ASSUME ScanAssumption ==
  /\ Contents \subseteq Content
  /\ Queries \subseteq {"intent", "prepare", "publication", "published",
                        "receipt", "existing", "run"}
  /\ MaxItems \in Nat

VARIABLES
  query,    \* what this reader looks for
  items,    \* the listing
  added,    \* how many items there have been
  scan,     \* the reader: the scan it is in, or how it ended
  scanPage,     \* the page it reads next
  seen,     \* what the first scan has read
  answer,   \* the items it has found
  midway    \* the listing when the first scan ended, for the property

readerVars == <<query, scan, scanPage, seen, answer, midway>>
scanVars == <<items, added, readerVars>>

ScanInit ==
  /\ query \in Queries
  /\ items = << >> /\ added = 0
  /\ scan = "first" /\ scanPage = 1
  /\ seen = << >> /\ midway = << >> /\ answer = {}

Listed == {items[n] : n \in DOMAIN items}

-----------------------------------------------------------------------------
(* The listing.                                                             *)

AddItem(content) ==
  /\ added < MaxItems
  /\ (content.kind = "run") = (query = "run")
  /\ LET item == [id |-> added + 1, content |-> content, edited |-> FALSE]
     IN  items' = IF query = "run" THEN <<item>> \o items ELSE Append(items, item)
  /\ added' = added + 1
  /\ UNCHANGED readerVars

RemoveItem(n) ==
  /\ items' = RemoveAt(items, n)
  /\ UNCHANGED <<added, readerVars>>

EditItem(n, content) ==
  /\ query # "run" /\ content.kind # "run"
  /\ ~items[n].edited
  /\ content.author = items[n].content.author /\ content # items[n].content
  /\ items' = [items EXCEPT ![n].content = content, ![n].edited = TRUE]
  /\ UNCHANGED <<added, readerVars>>

-----------------------------------------------------------------------------
(* One scan.  The second compares what it reads with the first at once, the *)
(* code when it has read all of it: until then it does nothing else.        *)

Slice(list) == PageOf(list, scanPage)

(* What the snapshot compares: all of an item the reader can see.           *)
Snapshot(list) == [n \in DOMAIN list |-> <<list[n].id, list[n].content>>]

NoDuplicates(list) == Cardinality({list[n].id : n \in DOMAIN list}) = Len(list)

(* The listing's page may not repeat an item, and in the second scan it is  *)
(* that of the first.                                                       *)
Consistent ==
  IF scan = "first"
  THEN NoDuplicates(seen \o Slice(items))
  ELSE Snapshot(Slice(items)) = Snapshot(Slice(seen))

(* The page is full: there may be another one.                              *)
ReadFullPage ==
  /\ scan \in {"first", "second"}
  /\ scanPage < MaxPages
  /\ Len(Slice(items)) = PerPage
  /\ Consistent
  /\ seen' = IF scan = "first" THEN seen \o Slice(items) ELSE seen
  /\ scanPage' = scanPage + 1
  /\ UNCHANGED <<items, added, query, scan, answer, midway>>

(* A short page is the last one.  A listing of runs says how many there are.*)
LastPage ==
  /\ Len(Slice(items)) < PerPage
  /\ Consistent
  /\ query = "run" => Len(items) = (scanPage - 1) * PerPage + Len(Slice(items))

ReadLastPage ==
  /\ scan = "first"
  /\ LastPage
  /\ seen' = seen \o Slice(items)
  /\ midway' = items
  /\ scan' = "second" /\ scanPage' = 1
  /\ UNCHANGED <<items, added, query, answer>>

-----------------------------------------------------------------------------
(* What is found.                                                           *)

Author == IF query \in {"receipt", "existing", "run"} THEN "control" ELSE "publisher"

Kinds ==
  CASE query = "published" -> {"prepare", "publication", "published"}
    [] query = "existing" -> {"receipt"}
    [] OTHER -> {query}

(* May there be none?                                                       *)
MayBeAbsent == query \in {"publication", "receipt", "existing"}

Trusted(list) == {item \in ToSet(list) : item.content.author = Author}

(* A comment of ours that cannot be read is an error, whatever it is about  *)
(* if its marker is damaged; finalize first skips those that do not name    *)
(* its request.  A run that does not validate is another run.               *)
Unreadable(item) ==
  /\ query # "run" /\ item.content.kind \in Kinds
  /\ \/ item.content.damage = "marker" /\ (query = "receipt" => item.content.mine)
     \/ item.content.damage = "envelope" /\ item.content.mine

Matches(list, kind) ==
  {item \in Trusted(list) :
     item.content.kind = kind /\ item.content.mine /\ item.content.damage = "none"}

(* The three comments of a publication belong together.                     *)
SameBundle(found) == \A a, b \in found : a.content.bundle = b.content.bundle

Found == UNION {Matches(seen, kind) : kind \in Kinds}

Decidable ==
  /\ ~\E item \in Trusted(seen) : Unreadable(item)
  /\ \A kind \in Kinds :
       Cardinality(Matches(seen, kind)) \in (IF MayBeAbsent THEN {0, 1} ELSE {1})
  /\ SameBundle(Found)

\* Mutant: one scan is enough.
AnswerAtOnce ==
  /\ scan = "second"
  /\ Decidable
  /\ answer' = {item.id : item \in Found}
  /\ scan' = "answered" /\ scanPage' = 1 /\ seen' = << >>
  /\ UNCHANGED <<items, added, query, midway>>

Answer ==
  /\ scan = "second"
  /\ LastPage
  /\ Decidable
  /\ answer' = {item.id : item \in Found}
  /\ scan' = "answered" /\ scanPage' = 1 /\ seen' = << >>
  /\ UNCHANGED <<items, added, query, midway>>

(* Every other end (an API error, a page too many, a duplicate, a change)   *)
(* leaves nothing; a later attempt starts over.                             *)
StartOver ==
  /\ scan' = "first" /\ scanPage' = 1
  /\ seen' = << >> /\ midway' = << >> /\ answer' = {}
  /\ UNCHANGED <<items, added, query>>

ScanNext ==
  \/ \E content \in Contents :
       \/ AddItem(content)
       \/ \E n \in DOMAIN items : EditItem(n, content)
  \/ \E n \in DOMAIN items : RemoveItem(n)
  \/ ReadFullPage \/ ReadLastPage \/ Answer \/ StartOver

ScanSpec == ScanInit /\ [][ScanNext]_scanVars

-----------------------------------------------------------------------------
(* What a reader answers, also that there is nothing, was true of the whole *)
(* listing at one instant while it was reading: these comments, and no      *)
(* others of ours of their kind, were there (load_durable_prepare_checkpoint*)
(* and its kind, actions_request_handler.py:839-880; reconcile_recipe,      *)
(* actions_recipe_dispatch.py:431-477).                                     *)
AnswerWasTrue ==
  scan = "answered" =>
    /\ answer = {item.id : item \in {midway[n] : n \in DOMAIN midway} \cap
                   UNION {Matches(midway, kind) : kind \in Kinds}}
    /\ \A kind \in Kinds : Cardinality(Matches(midway, kind)) <= 1
=============================================================================
