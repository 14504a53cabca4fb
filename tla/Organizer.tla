----------------------------- MODULE Organizer -----------------------------
(***************************************************************************)
(* Tags and filters: the tag catalogue and its assignments, the ordered    *)
(* list of filters, and a filter run, which plans from one reading of the  *)
(* state and then changes tags, junk training, flags and folder in calls   *)
(* of their own while the user goes on editing.  One message stands for    *)
(* the folder; names with the same slug are what makes ids collide.        *)
(***************************************************************************)
EXTENDS Naturals, Sequences, SequencesExt, FiniteSets, FiniteSetsExt, Functions

CONSTANTS TagNames,       \* names the user gives
          SlugOf,         \* their slugs (messageTagId)
          Shapes,         \* conditions, match and actions a filter may be given
          Roles,          \* the folders the account has for "archive", "trash" and "junk"
          Home,           \* the folder filters run on
          MaxTags,        \* MESSAGE_TAG_CATALOG_LIMIT
          MaxFilters,     \* MESSAGE_FILTER_LIMIT
          MaxBorn         \* tags and filters ever made

VARIABLES oTags,     \* messageTags.catalog: id -> [name, born]
          oMessage,  \* the message: tags (assignments), unread, starred, label trained, folder
          oFilters,  \* messageFilters in order of their ordinals: <<[id, enabled, shape]>>
          oBorn,     \* tags and filters made so far
          oMeant,    \* history: the tag each assignment was made with
          oMade,     \* history: the filters made and not deleted
          oRun       \* the filter run under way

organizerVars == <<oTags, oMessage, oFilters, oBorn, oMeant, oMade, oRun>>

NoFolder == "none"
NoRun == [stage |-> "idle"]

OrganizerInit ==
    /\ oTags = <<>> /\ oFilters = <<>> /\ oBorn = 0 /\ oMeant = <<>> /\ oMade = {} /\ oRun = NoRun
    /\ oMessage = [tags |-> {}, unread |-> TRUE, starred |-> FALSE, label |-> "none", folder |-> Home]

-----------------------------------------------------------------------------
(* Tags.  An id is the slug of the first name and a number that makes it
   unique in the catalogue of that moment. *)
uniqueTagId(slug) == <<slug, Min({k \in 1..(MaxTags + 1) : <<slug, k>> \notin DOMAIN oTags})>>
NameTaken(name, except) == \E id \in DOMAIN oTags \ {except} : oTags[id].name = name

(* A run that finds the message changed by others is not judged. *)
Disturbed == IF oRun.stage = "idle" THEN oRun ELSE [oRun EXCEPT !.quiet = FALSE]

CreateMessageTag(name) ==
    /\ Cardinality(DOMAIN oTags) < MaxTags /\ oBorn < MaxBorn /\ ~NameTaken(name, <<>>)
    /\ oTags' = [id \in DOMAIN oTags \cup {uniqueTagId(SlugOf[name])} |->
                   IF id \in DOMAIN oTags THEN oTags[id] ELSE [name |-> name, born |-> oBorn]]
    /\ oBorn' = oBorn + 1 /\ oRun' = Disturbed
    /\ UNCHANGED <<oMessage, oFilters, oMeant, oMade>>

RenameTag(id, name) ==
    /\ id \in DOMAIN oTags /\ ~NameTaken(name, id)
    /\ oTags' = [oTags EXCEPT ![id].name = name]
    /\ UNCHANGED <<oMessage, oFilters, oBorn, oMeant, oMade, oRun>>

(* A mutant: the messages keep the id. *)
CatalogOnly(id) ==
    /\ id \in DOMAIN oTags /\ oTags' = Restrict(oTags, DOMAIN oTags \ {id}) /\ oRun' = Disturbed
    /\ UNCHANGED <<oMessage, oFilters, oBorn, oMeant, oMade>>

DeleteMessageTag(id) ==
    /\ id \in DOMAIN oTags /\ oTags' = Restrict(oTags, DOMAIN oTags \ {id})
    /\ oMessage' = [oMessage EXCEPT !.tags = @ \ {id}]
    /\ oMeant' = Restrict(oMeant, DOMAIN oMeant \ {id})
    /\ oRun' = Disturbed
    /\ UNCHANGED <<oFilters, oBorn, oMade>>

(* setMessageTags: the whole set is replaced, by the tags the catalogue knows. *)
SetTags(ids) ==
    LET known == ids \cap DOMAIN oTags
    IN /\ oMessage' = [oMessage EXCEPT !.tags = known]
       /\ oMeant' = [id \in known |-> IF id \in DOMAIN oMeant /\ id \in oMessage.tags THEN oMeant[id] ELSE oTags[id].born]

SetMessageTags(ids) ==
    /\ SetTags(ids) /\ oRun' = Disturbed
    /\ UNCHANGED <<oTags, oFilters, oBorn, oMade>>

-----------------------------------------------------------------------------
(* Filters.  Ordinals are the places in the list.  A run under way has read
   the list and never looks at it again, so edits are made between runs. *)
BetweenRuns == oRun.stage = "idle"
Place(id) == SelectInSeq(oFilters, LAMBDA f : f.id = id)

CreateFilter(shape) ==
    /\ BetweenRuns /\ Len(oFilters) < MaxFilters /\ oBorn < MaxBorn
    /\ oFilters' = Append(oFilters, [id |-> oBorn, enabled |-> TRUE, shape |-> shape])
    /\ oMade' = oMade \cup {oBorn} /\ oBorn' = oBorn + 1
    /\ UNCHANGED <<oTags, oMessage, oMeant, oRun>>

UpdateFilter(id, enabled, shape) ==
    /\ BetweenRuns /\ Place(id) # 0 /\ oFilters' = [oFilters EXCEPT ![Place(id)] = [id |-> id, enabled |-> enabled, shape |-> shape]]
    /\ UNCHANGED <<oTags, oMessage, oBorn, oMeant, oMade, oRun>>

removeFilter(id) == RemoveAt(oFilters, Place(id))

DeleteMessageFilter(id) ==
    /\ BetweenRuns /\ Place(id) # 0 /\ oFilters' = removeFilter(id) /\ oMade' = oMade \ {id}
    /\ UNCHANGED <<oTags, oMessage, oBorn, oMeant, oRun>>

(* A mutant: the list becomes what was asked for. *)
DropsUnmentioned(ids) ==
    LET known == SelectSeq(ids, LAMBDA id : Place(id) # 0)
    IN [k \in DOMAIN known |-> oFilters[Place(known[k])]]

(* reorderFilters: an order the renderer drew up from a list that may be out
   of date, with ids unknown, repeated or missing. *)
Reordered(ids) ==
    LET known == SelectSeq(ids, LAMBDA id : Place(id) # 0)
        first == FoldLeft(LAMBDA seen, id : IF id \in Range(seen) THEN seen ELSE Append(seen, id), <<>>, known)
    IN [k \in DOMAIN first |-> oFilters[Place(first[k])]]
          \o SelectSeq(oFilters, LAMBDA f : f.id \notin Range(ids))

ReorderMessageFilters(ids) ==
    /\ BetweenRuns /\ oFilters' = Reordered(ids)
    /\ UNCHANGED <<oTags, oMessage, oBorn, oMeant, oMade, oRun>>

-----------------------------------------------------------------------------
(* evaluateMessageFilterCondition *)
Holds(condition, m) ==
    LET actual == CASE condition.field = "tag" -> condition.tag \in m.tags
                    [] condition.field = "read-state" -> ~m.unread
                    [] OTHER -> m.starred
    IN actual = condition.is

messageFilterMatches(shape, m) ==
    IF shape.match = "all" THEN \A c \in shape.conditions : Holds(c, m) ELSE \E c \in shape.conditions : Holds(c, m)

IsStop(action) == action.kind = "stop"
UpToStop(actions) ==
    LET stop == SelectInSeq(actions, IsStop) IN IF stop = 0 THEN actions ELSE SubSeq(actions, 1, stop - 1)

(* evaluateMessageFilters: the actions of the filters that match, up to the
   first that says stop. *)
Collected(filters, m) ==
    LET matching == SelectSeq(filters, LAMBDA f : f.enabled /\ messageFilterMatches(f.shape, m))
        stopping == SelectInSeq(matching, LAMBDA f : \E a \in Range(f.shape.actions) : IsStop(a))
        heard == IF stopping = 0 THEN matching ELSE SubSeq(matching, 1, stopping)
    IN FoldLeft(LAMBDA acc, f : acc \o UpToStop(f.shape.actions), <<>>, heard)

Opposites == {{"mark-read", "mark-unread"}, {"star", "unstar"}, {"mark-junk", "mark-not-junk"}}
Destinations == {"move", "archive", "trash"}

(* A mutant: only repetitions are removed. *)
SameOnly(existing, action) == existing = action

(* What an action added later removes. *)
Supersedes(existing, action) ==
    \/ existing = action
    \/ {existing.kind, action.kind} \in Opposites
    \/ {existing.kind, action.kind} \subseteq Destinations
    \/ {existing.kind, action.kind} = {"add-tag", "remove-tag"} /\ existing.tag = action.tag

collapseMessageFilterActions(actions) ==
    FoldLeft(LAMBDA kept, action : Append(SelectSeq(kept, LAMBDA k : ~Supersedes(k, action)), action), <<>>, actions)

(* #applyFilterPlan gathers the actions into one change of the message. *)
RoleFolder(role) == IF role \in DOMAIN Roles THEN Roles[role] ELSE NoFolder
Gather(change, action) ==
    CASE action.kind = "mark-read" -> [change EXCEPT !.unread = FALSE]
      [] action.kind = "mark-unread" -> [change EXCEPT !.unread = TRUE]
      [] action.kind = "star" -> [change EXCEPT !.starred = TRUE]
      [] action.kind = "unstar" -> [change EXCEPT !.starred = FALSE]
      [] action.kind = "add-tag" -> [change EXCEPT !.tags = @ \cup {action.tag}]
      [] action.kind = "remove-tag" -> [change EXCEPT !.tags = @ \ {action.tag}]
      [] action.kind = "move" -> [change EXCEPT !.folder = action.folder]
      [] action.kind \in {"archive", "trash"} -> [change EXCEPT !.folder = RoleFolder(action.kind)]
      [] action.kind = "mark-junk" ->
             [change EXCEPT !.label = "junk", !.folder = IF @ = NoFolder THEN RoleFolder("junk") ELSE @]
      [] OTHER -> [change EXCEPT !.label = "good"]

Change(m, actions) ==
    FoldLeft(Gather, [m EXCEPT !.folder = NoFolder], collapseMessageFilterActions(actions))

-----------------------------------------------------------------------------
(* runMessageFilters plans from one reading ... *)
RunMessageFilters ==
    LET actions == Collected(oFilters, oMessage)
    IN /\ oRun.stage = "idle" /\ oMessage.folder = Home /\ actions # <<>>
       /\ oRun' = [stage |-> "tags", change |-> Change(oMessage, actions), before |-> oMessage, quiet |-> TRUE,
                   actions |-> actions]
       /\ UNCHANGED <<oTags, oMessage, oFilters, oBorn, oMeant, oMade>>

(* ... and then carries the change out step by step, the move last, which
   gives the message a uid the other steps would not find. *)
Following == [tags |-> "junk", junk |-> "flags", flags |-> "move", move |-> "done"]
Advance == oRun' = [oRun EXCEPT !.stage = Following[@]]
Stay == UNCHANGED <<oTags, oFilters, oBorn, oMade>>

ApplyTags ==
    /\ oRun.stage = "tags" /\ oMessage.folder = Home /\ Advance /\ Stay
    /\ IF oRun.change.tags = oRun.before.tags THEN UNCHANGED <<oMessage, oMeant>> ELSE SetTags(oRun.change.tags)
ApplyJunk ==
    /\ oRun.stage = "junk" /\ oMessage.folder = Home /\ Advance /\ Stay /\ UNCHANGED oMeant
    /\ oMessage' = [oMessage EXCEPT !.label = oRun.change.label]
ApplyFlags ==
    /\ oRun.stage = "flags" /\ oMessage.folder = Home /\ Advance /\ Stay /\ UNCHANGED oMeant
    /\ oMessage' = [oMessage EXCEPT !.unread = oRun.change.unread, !.starred = oRun.change.starred]
ApplyMove ==
    /\ oRun.stage = "move" /\ oMessage.folder = Home /\ Advance /\ Stay /\ UNCHANGED oMeant
    /\ oMessage' = [oMessage EXCEPT !.folder = IF oRun.change.folder = NoFolder THEN @ ELSE oRun.change.folder]

(* A step that fails, because of the server or because the message is gone,
   ends the message's turn. *)
StepFails ==
    /\ oRun.stage \in DOMAIN Following /\ Stay /\ UNCHANGED <<oMessage, oMeant>>
    /\ oRun' = [oRun EXCEPT !.stage = "done", !.quiet = oMessage.folder # Home /\ @]
RunEnds ==
    /\ oRun.stage = "done" /\ oRun' = NoRun /\ Stay /\ UNCHANGED <<oMessage, oMeant>>

(* The user reads, stars or moves the message. *)
UserChanges(unread, starred) ==
    /\ oMessage' = [oMessage EXCEPT !.unread = unread, !.starred = starred] /\ oMessage' # oMessage
    /\ oRun' = Disturbed /\ Stay /\ UNCHANGED oMeant
UserMovesHome ==
    /\ oMessage.folder # Home /\ oMessage' = [oMessage EXCEPT !.folder = Home]
    /\ oRun' = Disturbed /\ Stay /\ UNCHANGED oMeant

OrganizerNext ==
    \/ \E name \in TagNames : CreateMessageTag(name) \/ \E id \in DOMAIN oTags : RenameTag(id, name)
    \/ \E id \in DOMAIN oTags : DeleteMessageTag(id)
    \/ \E ids \in SUBSET DOMAIN oTags : SetMessageTags(ids)
    \/ \E shape \in Shapes : CreateFilter(shape) \/ \E id \in 0..MaxBorn, on \in BOOLEAN : UpdateFilter(id, on, shape)
    \/ \E id \in 0..MaxBorn : DeleteMessageFilter(id)
    \/ \E ids \in UNION {[1..k -> 0..(MaxBorn - 1)] : k \in 0..2} : ReorderMessageFilters(ids)
    \/ RunMessageFilters \/ ApplyTags \/ ApplyJunk \/ ApplyFlags \/ ApplyMove \/ StepFails \/ RunEnds
    \/ \E unread, starred \in BOOLEAN : UserChanges(unread, starred)
    \/ UserMovesHome

-----------------------------------------------------------------------------
(* A tag on a message is the tag it was given: one the catalogue knows, and
   not a later tag that took over the id of one that was removed. *)
TagsMeant ==
    \A id \in oMessage.tags : id \in DOMAIN oTags /\ id \in DOMAIN oMeant /\ oMeant[id] = oTags[id].born

(* Every filter made and not deleted is in the list exactly once, even when
   lists that are out of date are reordered. *)
FiltersKept ==
    /\ {oFilters[k].id : k \in DOMAIN oFilters} = oMade
    /\ IsInjective([k \in DOMAIN oFilters |-> oFilters[k].id])

(* What the last decision of each sort says. *)
LastOf(actions, kinds) == Max({0} \cup {k \in DOMAIN actions : actions[k].kind \in kinds})
Decided(m, actions) ==
    LET last(kinds) == LastOf(actions, kinds)
        says(k, kind) == k # 0 /\ actions[k].kind = kind
        tagged(id) == Max({0} \cup {k \in DOMAIN actions : actions[k].kind \in {"add-tag", "remove-tag"} /\ actions[k].tag = id})
        read == last({"mark-read", "mark-unread"})
        star == last({"star", "unstar"})
        junk == last({"mark-junk", "mark-not-junk"})
        move == last(Destinations)
        target == IF move = 0 THEN NoFolder
                  ELSE IF actions[move].kind = "move" THEN actions[move].folder ELSE RoleFolder(actions[move].kind)
        aside == says(junk, "mark-junk") /\ target = NoFolder /\ junk > move
    IN [tags |-> {id \in m.tags \cup {actions[k].tag : k \in DOMAIN actions} :
                    IF tagged(id) = 0 THEN id \in m.tags ELSE says(tagged(id), "add-tag")} \cap DOMAIN oTags,
        unread |-> IF read = 0 THEN m.unread ELSE says(read, "mark-unread"),
        starred |-> IF star = 0 THEN m.starred ELSE says(star, "star"),
        label |-> IF junk = 0 THEN m.label ELSE IF says(junk, "mark-junk") THEN "junk" ELSE "good",
        folder |-> LET to == IF aside THEN RoleFolder("junk") ELSE target IN IF to = NoFolder THEN m.folder ELSE to]

(* A run nothing interferes with leaves the message as the last decisions of
   the matching filters say: a filter that takes back what an earlier one said
   takes back all of it, and no step loses the message to the move. *)
RunDecides ==
    oRun.stage = "done" /\ oRun.quiet => oMessage = Decided(oRun.before, oRun.actions)
=============================================================================
