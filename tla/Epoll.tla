------------------------------- MODULE Epoll -------------------------------
(***************************************************************************)
(* epoll on top of kqueue, crates/libc-shim/src/epoll_kqueue.rs: one epoll *)
(* descriptor and the filters kqueue holds for the descriptors that are    *)
(* watched.  A change list is applied change by change and stops at the    *)
(* first that fails; deleting a filter that is not there fails.            *)
(***************************************************************************)
EXTENDS Naturals, SequencesExt

CONSTANTS
    Fds,         \* descriptors that are watched
    MaxEvents    \* maxevents of epoll_wait

ASSUME EpollAssumption == MaxEvents \in Nat \ {0}

EventBits == {"in", "pri", "out", "rdhup", "oneshot"}
Filters == {"read", "write"}

VARIABLES
    filters,   \* kqueue: [fd, filter] -> "none", "on", "oneshot", "disabled"
    ready,     \* [fd, filter] pairs with something new to report
    asked,     \* ghost: fd -> what the last EPOLL_CTL_ADD or MOD asked for, none once deleted
    reported,  \* what the last epoll_wait returned
    result     \* of the last epoll_ctl

epollVars == <<filters, ready, asked, reported, result>>

Idents == Fds \X Filters

EpollTypeOK ==
    /\ filters \in [Idents -> {"none", "on", "oneshot", "disabled"}]
    /\ ready \subseteq Idents /\ asked \in [Fds -> SUBSET EventBits]
    /\ reported \subseteq [fd : Fds, events : SUBSET (EventBits \cup {"hup"})]
    /\ result \in {0, 1}

EpollInit ==
    /\ filters = [i \in Idents |-> "none"] /\ ready = {}
    /\ asked = [f \in Fds |-> {}] /\ reported = {} /\ result = 0

Mode(events) == IF "oneshot" \in events THEN "oneshot" ELSE "on"

(* events_to_filters; nothing asked for is a disabled read filter.         *)
EventsToFilters(events) ==
    LET read == IF events \cap {"in", "pri", "rdhup"} = {} THEN <<>>
                ELSE << <<"read", Mode(events)>> >>
        write == IF "out" \notin events THEN <<>>
                 ELSE << <<"write", Mode(events)>> >>
    IN  IF read \o write = <<>> THEN << <<"read", "disabled">> >>
        ELSE read \o write

(* kevent with a change list; EV_ADD of a filter that is there changes it. *)
Added(fd, changes) ==
    [i \in Idents |->
        LET new == {c \in ToSet(changes) : i = <<fd, c[1]>>}
        IN  IF new = {} THEN filters[i] ELSE (CHOOSE c \in new : TRUE)[2]]

(* EPOLL_CTL_ADD and EPOLL_CTL_MOD are the same.                           *)
CtlAdd(fd, events) ==
    /\ filters' = Added(fd, EventsToFilters(events))
    /\ asked' = [asked EXCEPT ![fd] = events] /\ result' = 0
    /\ UNCHANGED <<ready, reported>>

(* EPOLL_CTL_DEL deletes the read filter and then the write filter.        *)
CtlDel(fd) ==
    LET there == {f \in Filters : filters[<<fd, f>>] # "none"}
        gone == IF "read" \in there THEN there ELSE {}
    IN  /\ filters' = [i \in Idents |-> IF i[1] = fd /\ i[2] \in gone THEN "none"
                                        ELSE filters[i]]
        /\ ready' = {i \in ready : i[1] # fd \/ i[2] \notin gone}
        /\ result' = IF there = Filters THEN 0 ELSE 1
        /\ asked' = [asked EXCEPT ![fd] = IF there = Filters THEN {} ELSE @]
        /\ UNCHANGED reported

(* The descriptor becomes readable, writable, or its peer goes.            *)
Becomes(fd, f) ==
    /\ <<fd, f>> \notin ready /\ ready' = ready \cup {<<fd, f>>}
    /\ UNCHANGED <<filters, asked, reported, result>>

(* filters_to_events *)
FiltersToEvents(f, eof) ==
    IF f = "read" THEN {"in"} \cup (IF eof THEN {"hup", "rdhup"} ELSE {})
    ELSE {"out"} \cup (IF eof THEN {"hup"} ELSE {})

(* epoll_wait: EV_CLEAR is always set, so a condition is reported once;    *)
(* a descriptor ready both ways has two entries.                           *)
Wait ==
    LET found == {i \in ready : filters[i] \in {"on", "oneshot"}}
    IN  /\ found # {}
        /\ \E taken \in SUBSET found :
              /\ Cardinality(taken) = IF Cardinality(found) < MaxEvents
                                      THEN Cardinality(found) ELSE MaxEvents
              /\ \E eof \in SUBSET taken :
                    reported' = {[fd |-> i[1],
                                  events |-> FiltersToEvents(i[2], i \in eof)]
                                    : i \in taken}
              /\ ready' = ready \ taken
              /\ filters' = [i \in Idents |->
                    IF i \in taken /\ filters[i] = "oneshot" THEN "none"
                    ELSE filters[i]]
        /\ UNCHANGED <<asked, result>>

EpollNext ==
    \/ \E fd \in Fds : \/ \E events \in SUBSET EventBits : CtlAdd(fd, events)
                       \/ CtlDel(fd)
                       \/ \E f \in Filters : Becomes(fd, f)
    \/ Wait

EpollSpec == EpollInit /\ [][EpollNext]_epollVars

-----------------------------------------------------------------------------
(* An event in one direction is reported only if the last EPOLL_CTL_ADD or  *)
(* EPOLL_CTL_MOD of the descriptor asked for that direction (violated: a   *)
(* MOD adds filters and takes none away).                                  *)
ReportsOnlyAsked ==
    [][Wait => \A r \in reported' :
          /\ "out" \in r.events => "out" \in asked[r.fd]
          /\ "in" \in r.events => asked[r.fd] \cap {"in", "pri", "rdhup"} # {}]_epollVars
=============================================================================
