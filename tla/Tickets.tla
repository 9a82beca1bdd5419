-------------------------------- MODULE Tickets --------------------------------
(***************************************************************************)
(* The support tickets: they are made under a random code of the day, and  *)
(* updated by a manager.  An update reads the status first, and writes the *)
(* time of resolution that goes with it later.                             *)
(***************************************************************************)
EXTENDS Integers, FiniteSets

CONSTANTS
    Codes,          \* ticket codes of the day
    TicketCalls,    \* calls that may be open at once
    NoCode,
    MaxTries        \* attempts of generateTicketCode

VARIABLES
    ticket,         \* status of each ticket, and whether resolvedAt is set
    ticketCall,     \* what each call is about to write
    ticketsCalm     \* no call was overtaken by another

ticketVars == <<ticket, ticketCall, ticketsCalm>>

-----------------------------------------------------------------------------
TicketStatus == {"NEW", "IN_PROGRESS", "WAITING_CUSTOMER", "RESOLVED"}
NoTicket == [status |-> "none", resolved |-> FALSE]
NoTicketCall == [does |-> "nothing", code |-> NoCode, status |-> "none", resolved |-> FALSE, tries |-> 0]
OpenTicketCalls == {q \in TicketCalls : ticketCall[q] # NoTicketCall}
Tickets == {c \in Codes : ticket[c] # NoTicket}

TicketsInit ==
    /\ ticket = [c \in Codes |-> NoTicket]
    /\ ticketCall = [q \in TicketCalls |-> NoTicketCall]
    /\ ticketsCalm = TRUE

BeginTicketCall(q, what) ==
    /\ ticketCall[q] = NoTicketCall
    /\ ticketCall' = [ticketCall EXCEPT ![q] = what]
    /\ ticketsCalm' = (ticketsCalm /\ OpenTicketCalls = {})
    /\ UNCHANGED ticket
EndTicketCall(q) == ticketCall' = [ticketCall EXCEPT ![q] = NoTicketCall]

\* generateTicketCode draws codes until one is free, eight times at most.
CreateTicket(q) == BeginTicketCall(q, [NoTicketCall EXCEPT !.does = "draw"])
GenerateTicketCode(q, code) ==
    LET call == ticketCall[q] IN
    /\ call.does = "draw"
    /\ ticketCall' = [ticketCall EXCEPT ![q] =
          IF code \notin Tickets THEN [call EXCEPT !.does = "create", !.code = code, !.tries = 0]
          ELSE IF call.tries + 1 < MaxTries THEN [call EXCEPT !.tries = @ + 1]
          ELSE NoTicketCall]
    /\ UNCHANGED <<ticket, ticketsCalm>>

\* The code is unique: a ticket that has got it in the meantime makes this fail.
InsertTicket(q) ==
    LET call == ticketCall[q] IN
    /\ call.does = "create"
    /\ ticket' = IF call.code \in Tickets THEN ticket
                 ELSE [ticket EXCEPT ![call.code] = [status |-> "NEW", resolved |-> FALSE]]
    /\ EndTicketCall(q)
    /\ UNCHANGED ticketsCalm

\* updateTicket: dto.status may be missing ("none"); resolvedAt is always written.
FromTheRequest(c, status) == status = "RESOLVED"                  \* mutant
ResolvedAt(c, status) ==
    (IF status = "none" THEN ticket[c].status ELSE status) = "RESOLVED"

UpdateTicket(q, c, status) ==
    /\ c \in Tickets
    /\ BeginTicketCall(q, [does |-> "update", code |-> c, status |-> status,
                           resolved |-> ResolvedAt(c, status), tries |-> 0])
WriteTicket(q) ==
    LET call == ticketCall[q] IN
    /\ call.does = "update"
    /\ ticket' = [ticket EXCEPT ![call.code] =
          [status |-> IF call.status = "none" THEN @.status ELSE call.status,
           resolved |-> call.resolved]]
    /\ EndTicketCall(q)
    /\ UNCHANGED ticketsCalm

TicketsNext ==
    \E q \in TicketCalls :
        \/ CreateTicket(q)
        \/ \E c \in Codes : GenerateTicketCode(q, c)
        \/ InsertTicket(q)
        \/ \E c \in Codes, status \in TicketStatus \cup {"none"} : UpdateTicket(q, c, status)
        \/ WriteTicket(q)
TicketsSpec == TicketsInit /\ [][TicketsNext]_ticketVars

\* list: the summary counts the tickets by status.
Summary == [status \in TicketStatus |-> Cardinality({c \in Tickets : ticket[c].status = status})]

-----------------------------------------------------------------------------
TicketsTypeOK ==
    /\ ticket \in [Codes -> [status : TicketStatus \cup {"none"}, resolved : BOOLEAN]]
    /\ \A q \in TicketCalls : ticketCall[q].code \in Codes \cup {NoCode}
    /\ ticketsCalm \in BOOLEAN

\* A ticket has a time of resolution exactly while it is RESOLVED, and the summary
\* counts those that have one, unless two calls overlapped: an update that sets no
\* status writes the time that goes with the status it has read.
ResolvedHasTime ==
    ticketsCalm =>
        /\ \A c \in Tickets : ticket[c].resolved <=> ticket[c].status = "RESOLVED"
        /\ Summary["RESOLVED"] = Cardinality({c \in Tickets : ticket[c].resolved})
=============================================================================
