-------------------------- MODULE ExtensionWorkshop --------------------------
(***************************************************************************)
(* The extension workshop of the legacy pages                              *)
(* (pages/ExtensionWorkshop.tsx): all extensions the server has indexed,   *)
(* filtered in the browser (ExtensionFilters.tsx, SearchInput.tsx), shown  *)
(* as cards (ExtensionBrowser.tsx, ExtensionCard.tsx), one of them in a    *)
(* drawer (ExtensionDetailDrawer.tsx) with those related to it.  The       *)
(* server indexes ~/.claude at its start and whenever it is asked to       *)
(* (extension_indexer.go): it empties the table, reads the directories and *)
(* saves what is there one by one, while lists are asked for.              *)
(* An extension is [id, type, source, enabled]; a search is the set of the *)
(* ids whose name, description, type or source contains it.                *)
(***************************************************************************)
EXTENDS Naturals, Sequences, SequencesExt, Arrays

CONSTANTS Extension,            \* what may be on disk
          WorkshopSearch,       \* searches, each the set of ids it finds, except ""
          NoExtension, MaxRelated, MaxWorkshopSteps

TypeTab == {"all", "agent", "command", "skill", "hook", "mcp"}
Sources == {e.source : e \in Extension}
Places == {e.id : e \in Extension}

ASSUME WorkshopAssumption ==
  /\ IsFiniteSet(Extension) /\ NoExtension \notin Extension
  /\ \A e \in Extension : e.id \in Nat
  /\ MaxRelated \in Nat

VARIABLES disk, index,          \* extensions in ~/.claude, and in the server's table
          scan, otherScan,      \* runs of the indexer: for this page, and for another or the start
          extensions, loaded,   \* useExtensions: what it has, and whether it has
          reply,                \* its fetch
          searchValue, workshopQuery, typeFilter, statusFilter, sourceFilter,
          cardMode, storedView, selectedExtension,
          reindex,              \* handleReindex: "idle", "posting", "refetching", "joining"
          askedExtensions,      \* see ReindexShowsDisk
          workshopSteps

workshopServer == <<disk, index, scan, otherScan>>
workshopFetch == <<extensions, loaded, reply>>
filterVars == <<searchValue, workshopQuery, typeFilter, statusFilter, sourceFilter>>
workshopVars == <<workshopServer, workshopFetch, filterVars, cardMode, storedView, selectedExtension, reindex, askedExtensions, workshopSteps>>

-----------------------------------------------------------------------------
(* isLoading: nothing has arrived yet, and something is asked for. *)
workshopLoading == ~loaded /\ reply.at # "none"

availableSources == {extensions[i].source : i \in DOMAIN extensions}

typeCounts == [t \in TypeTab |->
  IF t = "all" THEN Len(extensions) ELSE Cardinality({i \in DOMAIN extensions : extensions[i].type = t})]

Passes(e) ==
  /\ typeFilter \in {"all", e.type}
  /\ statusFilter = "enabled" => e.enabled
  /\ statusFilter = "disabled" => ~e.enabled
  /\ sourceFilter \in {"all", e.source}
  /\ workshopQuery # "" => e.id \in WorkshopSearch[workshopQuery]

filteredExtensions == Kept(extensions, {i \in DOMAIN extensions : Passes(extensions[i])})

(* Of the list as it is now, though the selected one is as it was then.     *)
relatedExtensions ==
  IF selectedExtension = NoExtension THEN <<>>
  ELSE FirstOf(Kept(extensions, {i \in DOMAIN extensions :
                 LET e == extensions[i] IN
                 e.id # selectedExtension.id /\ (e.source = selectedExtension.source \/ e.type = selectedExtension.type)}), MaxRelated)

hasActiveFilters == statusFilter # "all" \/ sourceFilter # "all"

(* A card's badge and the drawer name the source; only the user's own can   *)
(* be opened in an editor.                                                  *)
MayOpenInEditor == selectedExtension # NoExtension /\ selectedExtension.source = "user"

(* The parts of the drawer, none when it is closed.                         *)
DrawerParts ==
  IF selectedExtension = NoExtension THEN {}
  ELSE {"title and badges", "description", "details", "copy path"}
         \union (IF MayOpenInEditor THEN {"open in editor"} ELSE {})
         \union (IF relatedExtensions # <<>> THEN {"related"} ELSE {})

-----------------------------------------------------------------------------
Stages == {"none", "clear", "save"}
NoScan == [at |-> "none", left |-> {}]
FromTheStart == [at |-> "clear", left |-> {}]
Replies == {"none", "asked", "answered"}
NoReply == [at |-> "none", list |-> <<>>]
ListAsked == [at |-> "asked", list |-> <<>>]

WorkshopMounts ==
  /\ extensions' = <<>> /\ loaded' = FALSE /\ reply' = ListAsked
  /\ searchValue' = "" /\ workshopQuery' = "" /\ typeFilter' = "all" /\ statusFilter' = "all" /\ sourceFilter' = "all"
  /\ cardMode' = (IF storedView = "" THEN "grid" ELSE storedView)
  /\ selectedExtension' = NoExtension /\ reindex' = "idle" /\ askedExtensions' = {}

OnePerId(S) == \A a, b \in S : a.id = b.id => a = b

WorkshopInit ==
  /\ disk \in {S \in SUBSET Extension : OnePerId(S)} /\ index = disk
  /\ scan = NoScan /\ otherScan \in {NoScan, FromTheStart}
  /\ extensions = <<>> /\ loaded = FALSE /\ reply = ListAsked
  /\ searchValue = "" /\ workshopQuery = "" /\ typeFilter = "all" /\ statusFilter = "all" /\ sourceFilter = "all"
  /\ storedView \in {"", "list"} /\ cardMode = IF storedView = "" THEN "grid" ELSE storedView
  /\ selectedExtension = NoExtension /\ reindex = "idle" /\ askedExtensions = {} /\ workshopSteps = 0

WorkshopListed(S) == Ranked(S, {p \in S \X S : p[1].id < p[2].id})

(* ~/.claude changes under the server, which sees it when it indexes.       *)
EditDisk ==
  /\ \E e \in Extension :
       /\ e \notin disk
       /\ disk' = {d \in disk : d.id # e.id} \union {e}
  /\ askedExtensions' = askedExtensions \intersect disk'
  /\ UNCHANGED <<index, scan, otherScan, workshopFetch, filterVars, cardMode, storedView, selectedExtension, reindex>>

RemoveFromDisk ==
  /\ \E e \in disk : disk' = disk \ {e}
  /\ askedExtensions' = askedExtensions \intersect disk'
  /\ UNCHANGED <<index, scan, otherScan, workshopFetch, filterVars, cardMode, storedView, selectedExtension, reindex>>

-----------------------------------------------------------------------------
(* A run of IndexExtensions: it empties the table, then reads the places    *)
(* where extensions are one by one and saves what it finds (INSERT OR       *)
(* REPLACE).  A failing DELETE or INSERT is logged, and the run goes on.    *)
Cleared(run, after) ==
  /\ run.at = "clear" /\ after = [at |-> "save", left |-> Places]
  /\ index' \in {{}, index}

OnDisk(p) == {e \in disk : e.id = p}

Saved(run, p, after) ==
  /\ p \in run.left /\ after = [run EXCEPT !.left = @ \ {p}]
  /\ \/ /\ index' = {d \in index : OnDisk(p) = {} \/ d.id # p} \union OnDisk(p)
        /\ UNCHANGED askedExtensions
     \/ index' = index /\ askedExtensions' = askedExtensions \ OnDisk(p)

Clears ==
  /\ \/ Cleared(scan, scan') /\ UNCHANGED otherScan
     \/ Cleared(otherScan, otherScan') /\ UNCHANGED scan
  /\ UNCHANGED <<disk, workshopFetch, filterVars, cardMode, storedView, selectedExtension, reindex, askedExtensions>>

Saves(p) ==
  /\ \/ Saved(scan, p, scan') /\ UNCHANGED otherScan
     \/ Saved(otherScan, p, otherScan') /\ UNCHANGED scan
  /\ UNCHANGED <<disk, workshopFetch, filterVars, cardMode, storedView, selectedExtension, reindex>>

OtherEnds ==
  /\ otherScan.at = "save" /\ otherScan.left = {} /\ otherScan' = NoScan
  /\ UNCHANGED <<disk, index, scan, workshopFetch, filterVars, cardMode, storedView, selectedExtension, reindex, askedExtensions>>

(* The fetch of the list: the server reads its table, the answer arrives    *)
(* later.  refetch() resolves also when the fetch has failed.               *)
ServerLists ==
  /\ reply.at = "asked" /\ reply' = [at |-> "answered", list |-> WorkshopListed(index)]
  /\ askedExtensions' = {a \in askedExtensions : reindex = "refetching" => a.id \notin otherScan.left}
  /\ UNCHANGED <<workshopServer, extensions, loaded, filterVars, cardMode, storedView, selectedExtension, reindex>>

Resolved == reindex' = IF reindex = "posting" THEN "posting" ELSE "idle"

ExtensionsArrive ==
  /\ reply.at = "answered" /\ reply' = NoReply
  /\ extensions' = reply.list /\ loaded' = TRUE
  /\ Resolved
  /\ UNCHANGED <<workshopServer, filterVars, cardMode, storedView, selectedExtension, askedExtensions>>

ExtensionsFail ==
  /\ reply.at = "asked" /\ reply' = NoReply
  /\ Resolved
  /\ UNCHANGED <<workshopServer, extensions, loaded, filterVars, cardMode, storedView, selectedExtension, askedExtensions>>

-----------------------------------------------------------------------------
TypeSearch(q) ==
  /\ searchValue' = q
  /\ UNCHANGED <<workshopServer, workshopFetch, workshopQuery, typeFilter, statusFilter, sourceFilter, cardMode, storedView, selectedExtension, reindex, askedExtensions>>

SearchSettles ==
  /\ workshopQuery # searchValue /\ workshopQuery' = searchValue
  /\ UNCHANGED <<workshopServer, workshopFetch, searchValue, typeFilter, statusFilter, sourceFilter, cardMode, storedView, selectedExtension, reindex, askedExtensions>>

SetFilters(type, status, source) ==
  /\ typeFilter' = type /\ statusFilter' = status /\ sourceFilter' = source
  /\ UNCHANGED <<workshopServer, workshopFetch, searchValue, workshopQuery, cardMode, storedView, selectedExtension, reindex, askedExtensions>>

handleClearFilters == hasActiveFilters /\ SetFilters(typeFilter, "all", "all")

handleViewModeChange(mode) ==
  /\ ~workshopLoading /\ filteredExtensions # <<>>
  /\ cardMode' = mode /\ storedView' = mode
  /\ UNCHANGED <<workshopServer, workshopFetch, filterVars, selectedExtension, reindex, askedExtensions>>

ShowInDrawer(e) ==
  /\ selectedExtension' = e
  /\ UNCHANGED <<workshopServer, workshopFetch, filterVars, cardMode, storedView, reindex, askedExtensions>>

SelectExtension(e) == ~workshopLoading /\ ShowInDrawer(e)

FollowRelated ==
  /\ "related" \in DrawerParts
  /\ \E e \in ToSet(relatedExtensions) : ShowInDrawer(e)

(* Escape, the backdrop or the cross.                                       *)
CloseDetail == selectedExtension # NoExtension /\ ShowInDrawer(NoExtension)

handleReindexUnawaited ==      \* faulty variant: fetches while the server is still indexing
  /\ reindex = "idle" /\ reindex' = "refetching" /\ askedExtensions' = disk
  /\ scan' = FromTheStart /\ reply' = ListAsked
  /\ UNCHANGED <<disk, index, otherScan, extensions, loaded, filterVars, cardMode, storedView, selectedExtension>>

handleReindex ==
  /\ reindex = "idle" /\ reindex' = "posting" /\ askedExtensions' = disk
  /\ scan' = FromTheStart
  /\ UNCHANGED <<disk, index, otherScan, workshopFetch, filterVars, cardMode, storedView, selectedExtension>>

(* The POST has been answered.  refetch() asks for the list, but joins the  *)
(* first fetch when that is still under way.                                *)
ReindexAnswered ==
  /\ reindex = "posting" /\ scan.at = "save" /\ scan.left = {} /\ scan' = NoScan
  /\ IF workshopLoading
       THEN reindex' = "joining" /\ UNCHANGED reply
       ELSE reindex' = "refetching" /\ reply' = ListAsked
  /\ UNCHANGED <<disk, index, otherScan, extensions, loaded, filterVars, cardMode, storedView, selectedExtension, askedExtensions>>

(* The page gives up, or is gone.  The run it asked for fails before it     *)
(* takes anything out, or goes on; one such run at a time is looked at.     *)
ScanLeft ==
  /\ scan' = NoScan
  /\ \/ scan.at \in {"none", "clear"} /\ UNCHANGED otherScan
     \/ scan.at # "none" /\ otherScan.at = "none" /\ otherScan' = scan

ReindexFails ==
  /\ reindex = "posting" /\ reindex' = "idle" /\ ScanLeft
  /\ UNCHANGED <<disk, index, workshopFetch, filterVars, cardMode, storedView, selectedExtension, askedExtensions>>

ReloadWorkshop == WorkshopMounts /\ ScanLeft /\ UNCHANGED <<disk, index, storedView>>

(* What the server does, and its answers. *)
ServerGoesOn ==
  \/ Clears \/ OtherEnds \/ ServerLists
  \/ \E p \in Places : Saves(p)
  \/ ExtensionsArrive \/ ExtensionsFail \/ ReindexAnswered \/ ReindexFails

WorkshopNext ==
  \/ ServerGoesOn /\ UNCHANGED workshopSteps
  \/ /\ workshopSteps < MaxWorkshopSteps /\ workshopSteps' = workshopSteps + 1
     /\ \/ EditDisk \/ RemoveFromDisk \/ SearchSettles \/ handleClearFilters
        \/ \E q \in DOMAIN WorkshopSearch \union {""} : q # searchValue /\ TypeSearch(q)
        \/ \E t \in TypeTab \ {typeFilter} : SetFilters(t, statusFilter, sourceFilter)
        \/ \E s \in {"all", "enabled", "disabled"} \ {statusFilter} : SetFilters(typeFilter, s, sourceFilter)
        \/ \E s \in (availableSources \union {"all"}) \ {sourceFilter} : SetFilters(typeFilter, statusFilter, s)
        \/ \E mode \in {"grid", "list"} : handleViewModeChange(mode)
        \/ FollowRelated \/ CloseDetail
        \/ \E e \in ToSet(filteredExtensions) : SelectExtension(e)
        \/ handleReindex \/ ReloadWorkshop

WorkshopSpec == WorkshopInit /\ [][WorkshopNext]_workshopVars

-----------------------------------------------------------------------------
(* The drawer never offers the extension it shows as related to itself,     *)
(* though the list was indexed again since (ExtensionWorkshop.tsx 109-122). *)
RelatedIsAnother ==
  \A i \in DOMAIN relatedExtensions : relatedExtensions[i].id # selectedExtension.id

(* Types of the variables; an extension is indexed and listed once, and the *)
(* number on a tab is that of its cards while no other filter hides some    *)
(* (ExtensionWorkshop.tsx 46-107).                                          *)
WorkshopTypeOK ==
  /\ index \subseteq Extension /\ OnePerId(index)
  /\ ToSet(extensions) \subseteq Extension /\ OnePerId(ToSet(extensions))
  /\ typeFilter \in TypeTab /\ sourceFilter \in Sources \union {"all"}
  /\ reindex \in {"idle", "posting", "refetching", "joining"} /\ (reindex = "posting" \/ scan = NoScan)
  /\ scan.at \in Stages /\ otherScan.at \in Stages /\ reply.at \in Replies
  /\ ~hasActiveFilters /\ workshopQuery = "" => typeCounts[typeFilter] = Len(filteredExtensions)
  /\ RelatedIsAnother

(* A re-indexing whose refetch is answered ends with a list of all that was *)
(* on disk when Reindex was pressed and has not changed there since, except *)
(* what could not be saved, and what another run had yet to save when the   *)
(* list was read: whatever else was answered, failed, edited, emptied or    *)
(* reloaded in between.  If the refetch fails the old list stays, and if    *)
(* it joins the first fetch the list is that one's                          *)
(* (ExtensionWorkshop.tsx 124-135, extension_indexer.go 56-90).             *)
ReindexShowsDisk ==
  [][reindex = "refetching" /\ reindex' = "idle" /\ reply.at = "answered" /\ loaded'
       => askedExtensions \subseteq ToSet(extensions')]_workshopVars
=============================================================================
