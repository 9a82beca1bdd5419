---------------------------------- MODULE Chat ----------------------------------
(***************************************************************************)
(* One conversation of two users: messages are stored, then broadcast to   *)
(* whoever has joined the room; a client fetches pages of them, the next   *)
(* page from a cursor, and marks what the other has written as read.       *)
(* Messages are numbered as they are committed.  Their createdAt is taken  *)
(* before, at the insert, in milliseconds: it is in any order with the     *)
(* commits, and two messages may have the same.  Pages are ordered by it   *)
(* alone.  Of the clients one is looked at, Watcher's.                     *)
(***************************************************************************)
EXTENDS Integers, FiniteSets, Sequences, FiniteSetsExt

CONSTANTS
    Chatters,       \* the two users
    Watcher,
    MaxMessages,    \* bound on messages
    Moments,        \* the values of createdAt
    PageSize        \* query.limit

ASSUME ChatAssumption ==
    /\ Watcher \in Chatters
    /\ Moments \subseteq Nat /\ MaxMessages \in Nat /\ PageSize \in Nat \ {0}

VARIABLES
    messages,       \* sender, createdAt and status of each message, by commit
    broadcasts,     \* messages stored and not broadcast yet, or never, when the
                    \*   process of the sender ends in between
    joined,         \* the client is in the room
    began,          \* history: how many messages there were when it last began
                    \*   at the newest
    scrolled,       \* messages it has fetched since then
    received,       \* messages it has got since then, by a page or by a broadcast
    current         \* it has been in the room since before it began there

chatVars == <<messages, broadcasts, joined, began, scrolled, received, current>>

-----------------------------------------------------------------------------
MessageIds == 1 .. Len(messages)
From(u) == {i \in MessageIds : messages[i].from = u}

ChatInit ==
    /\ messages = <<>>
    /\ broadcasts = {}
    /\ joined = FALSE /\ current = FALSE
    /\ began = 0 /\ scrolled = {} /\ received = {}

\* createMessage, one transaction that others see at its commit only: by then
\* messages created after this one may be there, or ones of the same moment ...
SendMessage(u, at) ==
    /\ Len(messages) < MaxMessages
    /\ messages' = Append(messages, [from |-> u, at |-> at, status |-> "SENT"])
    /\ broadcasts' = broadcasts \cup {Len(messages) + 1}
    /\ UNCHANGED <<joined, began, scrolled, received, current>>

\* ... and broadcastMessage after it, which keeps no order between requests.
BroadcastMessage(i) ==
    /\ i \in broadcasts
    /\ broadcasts' = broadcasts \ {i}
    /\ received' = IF joined THEN received \cup {i} ELSE received
    /\ UNCHANGED <<messages, joined, began, scrolled, current>>

HandleJoin ==
    /\ ~joined
    /\ joined' = TRUE
    /\ UNCHANGED <<messages, broadcasts, began, scrolled, received, current>>
HandleLeave ==
    /\ joined
    /\ joined' = FALSE /\ current' = FALSE
    /\ UNCHANGED <<messages, broadcasts, began, scrolled, received>>

-----------------------------------------------------------------------------
At(i) == messages[i].at
Older(i, j) == At(i) < At(j)
SameMoment(i) == {j \in MessageIds \ {i} : At(j) = At(i)}
\* mutant: one message more is skipped
OnePastCursor(cursor) ==
    {i \in MessageIds : \E j \in MessageIds : Older(i, j) /\ Older(j, cursor)}
OlderThan(cursor) == {i \in MessageIds : Older(i, cursor)}

\* ORDER BY "createdAt" DESC LIMIT: which of two messages of one moment comes
\* first is left to the database, and to every query anew.
Pages(ids) ==
    {page \in SUBSET ids :
        /\ Cardinality(page) = Min({PageSize, Cardinality(ids)})
        /\ \A i \in page, j \in ids \ page : ~Older(i, j)}

\* getMessages: the newest page, or the page after the message at the cursor,
\* for which the client gives the oldest message it has.  The messages that
\* the query puts before the cursor are dropped: those of its moment may be.
GetNewest ==
    \E page \in Pages(MessageIds) :
        /\ began' = Len(messages)
        /\ scrolled' = page /\ received' = page
        /\ current' = joined
        /\ UNCHANGED <<messages, broadcasts, joined>>
GetNextPage ==
    \E cursor \in scrolled :
        /\ \A i \in scrolled : ~Older(i, cursor)
        /\ \E after \in SUBSET SameMoment(cursor) : \E page \in Pages(OlderThan(cursor) \cup after) :
              /\ scrolled' = scrolled \cup page
              /\ received' = received \cup page
        /\ UNCHANGED <<messages, broadcasts, joined, began, current>>

\* markMessagesAsRead: all that the other has written, fetched or not.
Unread == {i \in MessageIds \ From(Watcher) : messages[i].status # "READ"}
MarkAsRead ==
    /\ Unread # {}
    /\ messages' = [i \in MessageIds |->
                      IF i \in Unread THEN [messages[i] EXCEPT !.status = "READ"] ELSE messages[i]]
    /\ UNCHANGED <<broadcasts, joined, began, scrolled, received, current>>

ChatNext ==
    \/ \E u \in Chatters, at \in Moments : SendMessage(u, at)
    \/ \E i \in MessageIds : BroadcastMessage(i)
    \/ HandleJoin \/ HandleLeave
    \/ GetNewest \/ GetNextPage \/ MarkAsRead
ChatSpec == ChatInit /\ [][ChatNext]_chatVars

-----------------------------------------------------------------------------
ChatTypeOK ==
    /\ messages \in Seq([from : Chatters, at : Moments, status : {"SENT", "READ"}])
    /\ broadcasts \subseteq MessageIds
    /\ began \in 0 .. Len(messages) /\ scrolled \subseteq MessageIds /\ received \subseteq MessageIds
    /\ joined \in BOOLEAN /\ current \in BOOLEAN

\* A client that fetches the newest page and scrolls back from it misses none of
\* the messages that were there when it began: whatever is sent between its pages,
\* every one that is newer than one it has fetched has been fetched as well, but
\* for messages of the very moment of a fetched one, which a page may skip.  While it
\* stays in a room that it had joined before, what was committed since - at the
\* newest end or, when its transaction was slow, further back - has been received
\* as well, or its sender is yet to broadcast it.
Passed(m) == \E i \in scrolled : Older(i, m)
Tied(m) == SameMoment(m) \cap scrolled # {}
NothingMissed ==
    \A m \in MessageIds :
        /\ m <= began /\ Passed(m) => m \in scrolled \/ Tied(m)
        /\ m > began /\ current => m \in received \cup broadcasts
=============================================================================
