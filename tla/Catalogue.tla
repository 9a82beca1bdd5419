------------------------------- MODULE Catalogue -------------------------------
(***************************************************************************)
(* The sectors and their occupations, and the copies of their lists that   *)
(* Redis keeps for an hour: the service reads a copy or fetches the list   *)
(* and stores it, and every edit deletes some of the copies.               *)
(*                                                                         *)
(* The copies do not meet: a behaviour looks at one of them, cacheKey.     *)
(* Names are rows: a row has one name, and "renamed" is all an edit of it  *)
(* means here.  A copy is stale when its list has changed since the fetch. *)
(***************************************************************************)
EXTENDS FiniteSets

CONSTANTS
    Sectors, Occupations,
    Clerks,         \* edits that may be open at once
    Readers         \* reads that may be open at once

ListNames == {"sector:all", "occupation:all", "occupation:withSectors"}
ASSUME CatalogueAssumption ==
    Sectors \cap Occupations = {} /\ Sectors \cap ListNames = {} /\ Sectors # {}

VARIABLES
    sector,         \* status of each sector
    occupation,     \* status and sector of each occupation
    cacheKey,       \* the list looked at
    entry,          \* its copy in Redis
    fill,           \* what each reader has fetched and not stored yet
    edit,           \* what each clerk is doing
    cause           \* what made the copy stale

databaseRows == <<sector, occupation>>
catalogueVars == <<databaseRows, cacheKey, entry, fill, edit, cause>>

-----------------------------------------------------------------------------
\* A key is the name of a list, or a sector: occupation:bySector:<id>.
Keys == ListNames \cup Sectors
Copy == {"none", "fresh", "stale"}
RowStatus == {"none", "ACTIVE", "DELETED"}
NoEdit == [place |-> "idle", write |-> "none", row |-> "none", into |-> "none", keys |-> {}]

ActiveSectors == {s \in Sectors : sector[s] = "ACTIVE"}
OccupationsOf(s) ==
    {o \in Occupations : occupation[o].status = "ACTIVE" /\ occupation[o].sector = s}

\* findAll, findAllSectorsWithOccupations, findOccupationsBySector: the sector's
\* own status filters the first two lists only.
FindAllSectors == ActiveSectors
FindAllOccupations == {<<s, OccupationsOf(s)>> : s \in Sectors}
FindAllSectorsWithOccupations == {<<s, OccupationsOf(s)>> : s \in ActiveSectors}
FindOccupationsBySector(s) == OccupationsOf(s)
ListOf(k) == CASE k = "sector:all" -> FindAllSectors
               [] k = "occupation:all" -> FindAllOccupations
               [] k = "occupation:withSectors" -> FindAllSectorsWithOccupations
               [] OTHER -> FindOccupationsBySector(k)

\* Whether a list shows the name of a sector, or of an occupation.
ShowsSector(k, s) == CASE k \in {"sector:all", "occupation:withSectors"} -> s \in ActiveSectors
                       [] k = "occupation:all" -> OccupationsOf(s) # {}
                       [] OTHER -> k = s /\ OccupationsOf(s) # {}
ShowsOccupation(k, o) == CASE k = "sector:all" -> FALSE
                           [] k = "occupation:all" -> \E s \in Sectors : o \in OccupationsOf(s)
                           [] k = "occupation:withSectors" -> \E s \in ActiveSectors : o \in OccupationsOf(s)
                           [] OTHER -> o \in OccupationsOf(k)

CatalogueInit ==
    /\ sector = [s \in Sectors |-> "ACTIVE"]
    /\ occupation \in [Occupations -> [status : {"none"}, sector : Sectors]
                                       \cup [status : {"ACTIVE"}, sector : Sectors]]
    /\ cacheKey \in Keys
    /\ entry = "none" /\ cause = "none"
    /\ fill = [r \in Readers |-> "none"]
    /\ edit = [c \in Clerks |-> NoEdit]

-----------------------------------------------------------------------------
(* getCached: a copy that is there is the answer and changes nothing.      *)

FetchList(r) ==
    /\ entry = "none" /\ fill[r] = "none"
    /\ fill' = [fill EXCEPT ![r] = "fresh"]
    /\ UNCHANGED <<databaseRows, cacheKey, entry, edit, cause>>

StoreCopy(r) ==
    /\ fill[r] # "none"
    /\ entry' = fill[r]
    /\ cause' = IF fill[r] = "stale" THEN "race" ELSE "none"
    /\ fill' = [fill EXCEPT ![r] = "none"]
    /\ UNCHANGED <<databaseRows, cacheKey, edit>>

NoCopy == entry' = "none" /\ cause' = "none"

\* Redis drops the copy when its time is up.
CopyExpires ==
    /\ entry # "none"
    /\ NoCopy
    /\ UNCHANGED <<databaseRows, cacheKey, fill, edit>>

-----------------------------------------------------------------------------
(* The edits: check, write, delete copies.                                 *)

EditGoes(c, what) == edit' = [edit EXCEPT ![c] = what]
OnlyTheLists(s) == {"occupation:all", "occupation:withSectors"}   \* mutant
OccupationKeys(s) == {"occupation:all", "occupation:withSectors", s}

CheckEdit(c, write, row, into, keys) ==
    /\ edit[c] = NoEdit
    /\ EditGoes(c, [place |-> "writing", write |-> write, row |-> row, into |-> into, keys |-> keys])
    /\ UNCHANGED <<databaseRows, cacheKey, entry, fill, cause>>

\* create finds the name deleted, and restores it.  (An active name is refused; one
\* that is new makes another row and drops the same copy, and is left out.)
CreateSector(c, s) ==
    sector[s] = "DELETED" /\ CheckEdit(c, "restore", s, s, {"sector:all"})
UpdateSector(c, s) ==
    s \in ActiveSectors /\ CheckEdit(c, "rename", s, s, {"sector:all"})
RemoveSector(c, s) ==
    s \in ActiveSectors /\ CheckEdit(c, "close", s, s, {"sector:all"})

\* A name that was deleted meets the unique key: the write fails.
CreateOccupation(c, o, s) ==
    /\ occupation[o].status = "none" /\ s \in ActiveSectors
    /\ CheckEdit(c, "create", o, s, OccupationKeys(s))
UpdateOccupation(c, o, s) ==
    /\ occupation[o].status = "ACTIVE" /\ s \in ActiveSectors
    /\ CheckEdit(c, "update", o, s, OccupationKeys(s))
RemoveOccupation(c, o) ==
    /\ occupation[o].status = "ACTIVE"
    /\ CheckEdit(c, "remove", o, occupation[o].sector, OccupationKeys(occupation[o].sector))

\* The write is by id alone.
SectorWritten(e) ==
    CASE e.write = "restore" -> [sector EXCEPT ![e.row] = "ACTIVE"]
      [] e.write = "close" -> [sector EXCEPT ![e.row] = "DELETED"]
      [] OTHER -> sector
OccupationWritten(e) ==
    CASE e.write = "create" /\ occupation[e.row].status = "none" ->
                 [occupation EXCEPT ![e.row] = [status |-> "ACTIVE", sector |-> e.into]]
      [] e.write = "update" -> [occupation EXCEPT ![e.row].sector = e.into]
      [] e.write = "remove" -> [occupation EXCEPT ![e.row].status = "DELETED"]
      [] OTHER -> occupation

Renamed(e) == \/ e.write = "rename" /\ ShowsSector(cacheKey, e.row)
              \/ e.write = "update" /\ ShowsOccupation(cacheKey, e.row)
KindOf(e) == IF e.row \in Sectors THEN "sector"
             ELSE IF e.write # "create" /\ occupation[e.row].sector # e.into THEN "move"
             ELSE "occupation"

Write(c) ==
    LET e == edit[c] IN
    /\ e.place = "writing"
    /\ UNCHANGED cacheKey
    /\ sector' = SectorWritten(e)
    /\ occupation' = OccupationWritten(e)
    /\ LET changed == ListOf(cacheKey)' # ListOf(cacheKey) \/ Renamed(e)
       IN  /\ entry' = IF changed /\ entry = "fresh" THEN "stale" ELSE entry
           /\ cause' = IF changed /\ entry = "fresh" THEN KindOf(e) ELSE cause
           /\ fill' = [r \in Readers |-> IF changed /\ fill[r] = "fresh" THEN "stale" ELSE fill[r]]
    /\ EditGoes(c, [e EXCEPT !.place = "invalidating"])

InvalidateCache(c) ==
    /\ edit[c].place = "invalidating"
    /\ IF cacheKey \in edit[c].keys THEN NoCopy ELSE UNCHANGED <<entry, cause>>
    /\ EditGoes(c, NoEdit)
    /\ UNCHANGED <<databaseRows, cacheKey, fill>>

CatalogueNext ==
    \/ \E r \in Readers : FetchList(r) \/ StoreCopy(r)
    \/ CopyExpires
    \/ \E c \in Clerks :
          \/ \E s \in Sectors : CreateSector(c, s) \/ UpdateSector(c, s) \/ RemoveSector(c, s)
          \/ \E o \in Occupations :
                \/ \E s \in Sectors : CreateOccupation(c, o, s) \/ UpdateOccupation(c, o, s)
                \/ RemoveOccupation(c, o)
          \/ Write(c) \/ InvalidateCache(c)

CatalogueSpec == CatalogueInit /\ [][CatalogueNext]_catalogueVars

-----------------------------------------------------------------------------
CatalogueTypeOK ==
    /\ sector \in [Sectors -> RowStatus]
    /\ occupation \in [Occupations -> [status : RowStatus, sector : Sectors]]
    /\ cacheKey \in Keys /\ entry \in Copy
    /\ fill \in [Readers -> Copy]
    /\ \A c \in Clerks : edit[c].place \in {"idle", "writing", "invalidating"}
    /\ cause \in {"none", "race", "sector", "move", "occupation"}

\* When no edit is open, a copy that is out of date has one of three reasons: a
\* reader stored what it had fetched before the edit; a list of occupations was
\* left alone by an edit of a sector (SectorService deletes sector:all only); or
\* an occupation has left the sector whose list this is, or was removed after it
\* had left the sector that remove had read (an edit deletes one sector's list).
\* No other edit leaves an old list behind.
CopiesFollowEdits ==
    (\A c \in Clerks : edit[c] = NoEdit) /\ entry = "stale" =>
        \/ cause = "race"
        \/ cause = "sector" /\ cacheKey # "sector:all"
        \/ cause = "move" /\ cacheKey \in Sectors
=============================================================================
