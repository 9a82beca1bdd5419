------------------------------- MODULE Embeddings -------------------------------
(***************************************************************************)
(* The embedding of one posting, by which workers and jobs are matched: it *)
(* is built when the posting is published or its text is edited, by asking *)
(* a language model for it, and stored at the end.  A worker's profile is  *)
(* handled in the same way, without the question of publishing.            *)
(*                                                                         *)
(* A text is the number of the edit it comes from; 0 is no embedding.      *)
(***************************************************************************)
EXTENDS Integers, FiniteSets

CONSTANTS
    Writers,        \* requests that may be open at once
    MaxText         \* bound on edits

ASSUME EmbeddingsAssumption == MaxText \in Nat \ {0}

VARIABLES
    listing,        \* status of the posting
    text,           \* Job.description and occupationId
    embedding,      \* the text that Job.reqEmbedding was built from
    build,          \* what each request is doing, the status and the text it has read
    released,       \* a moderator has published it since it was published for points
    buildsCalm      \* no request was overtaken by another, none failed

embeddingVars == <<listing, text, embedding, build, released, buildsCalm>>

-----------------------------------------------------------------------------
Listing == {"WARNING", "PUBLISHED", "EXPIRED"}
NoBuild == [does |-> "nothing", status |-> "none", text |-> 0]
OpenBuilds == {w \in Writers : build[w] # NoBuild}

EmbeddingsInit ==
    /\ listing = "WARNING" /\ text = 1 /\ embedding = 0
    /\ build = [w \in Writers |-> NoBuild]
    /\ released = FALSE /\ buildsCalm = TRUE

BeginBuild(w, does) ==
    /\ build[w] = NoBuild
    /\ build' = [build EXCEPT ![w] = [NoBuild EXCEPT !.does = does, !.status = listing]]
    /\ buildsCalm' = (buildsCalm /\ OpenBuilds = {})
BuildGoes(w, does) == build' = [build EXCEPT ![w].does = does]
BuildEnds(w) == build' = [build EXCEPT ![w] = NoBuild]

\* updateJob reads the posting, writes it, and has the embedding built if the
\* posting was PUBLISHED when it was read.
ReadForEdit(w) ==
    BeginBuild(w, "editing") /\ UNCHANGED <<listing, text, embedding, released>>
NeverRebuilds(status) == FALSE                                    \* mutant
Rebuilds(status) == status = "PUBLISHED"
WriteText(w) ==
    /\ build[w].does = "editing"
    /\ text < MaxText
    /\ text' = text + 1
    /\ IF Rebuilds(build[w].status) THEN BuildGoes(w, "detail") ELSE BuildEnds(w)
    /\ UNCHANGED <<listing, embedding, released, buildsCalm>>

\* createJob and createJobPostingCheckout publish, then build.
PublishAndBuild(w) ==
    /\ listing # "PUBLISHED"
    /\ BeginBuild(w, "detail")
    /\ listing' = "PUBLISHED" /\ released' = FALSE
    /\ UNCHANGED <<text, embedding>>

\* updateJobStatus and the hourly job build nothing.
SetListing(status) ==
    /\ status # listing
    /\ listing' = status
    /\ released' = (released \/ status = "PUBLISHED")
    /\ buildsCalm' = (buildsCalm /\ OpenBuilds = {})
    /\ UNCHANGED <<text, embedding, build>>

\* buildJobEmbedding: read the posting, ask the model, store what it says.
GetDetail(w) ==
    /\ build[w].does = "detail"
    /\ build' = [build EXCEPT ![w].does = "storing", ![w].text = text]
    /\ UNCHANGED <<listing, text, embedding, released, buildsCalm>>
UpdateJobEmbeddings(w) ==
    /\ build[w].does = "storing"
    /\ embedding' = build[w].text
    /\ BuildEnds(w)
    /\ UNCHANGED <<listing, text, released, buildsCalm>>

\* An error while building is logged and dropped: the posting stays published.
BuildFails(w) ==
    /\ build[w] # NoBuild
    /\ BuildEnds(w)
    /\ buildsCalm' = FALSE
    /\ UNCHANGED <<listing, text, embedding, released>>

EmbeddingsNext ==
    \/ \E w \in Writers : ReadForEdit(w) \/ WriteText(w) \/ PublishAndBuild(w)
                             \/ GetDetail(w) \/ UpdateJobEmbeddings(w) \/ BuildFails(w)
    \/ \E status \in Listing : SetListing(status)
EmbeddingsSpec == EmbeddingsInit /\ [][EmbeddingsNext]_embeddingVars

-----------------------------------------------------------------------------
EmbeddingsTypeOK ==
    /\ listing \in Listing /\ text \in 1 .. MaxText
    /\ embedding \in 0 .. MaxText
    /\ \A w \in Writers : build[w].does \in {"nothing", "editing", "detail", "storing"}
    /\ released \in BOOLEAN /\ buildsCalm \in BOOLEAN

\* A published posting is matched by its own text when no build is open: unless a
\* moderator published it, a build failed, or requests overlapped (the slower of
\* two builds stores the older text).  And no embedding is newer than its text.
MatchedByItsText ==
    /\ embedding <= text
    /\ listing = "PUBLISHED" /\ OpenBuilds = {} /\ buildsCalm /\ ~released => embedding = text
=============================================================================
