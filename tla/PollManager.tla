---------------------------- MODULE PollManager ----------------------------
(***************************************************************************)
(* RS::PollManager (common/network/poll.cpp): the vector of descriptors    *)
(* handed to poll(2).  Only the fd of an entry is kept: the event flags of *)
(* every caller are the same, and revents belongs to the caller's copy.    *)
(* The limit of UINT32_MAX entries is far above any table of descriptors   *)
(* and is left out, and so is clear(), which only ~ChatServer calls.       *)
(***************************************************************************)
EXTENDS Naturals, Sequences

VARIABLE m_pollfds   \* the descriptors, in the order of registration

Registered(fd) == \E i \in 1 .. Len(m_pollfds) : m_pollfds[i] = fd

(* Mutant: the test whether the socket is there is the wrong way round. *)
RegisterInverted(fd) ==
    m_pollfds' = IF Registered(fd) THEN Append(m_pollfds, fd) ELSE m_pollfds

register_socket(fd) ==
    m_pollfds' = IF Registered(fd) THEN m_pollfds ELSE Append(m_pollfds, fd)

(* vector::erase: the entries after position i move down by one. *)
EraseAt(i) ==
    [k \in 1 .. Len(m_pollfds) - 1 |-> IF k < i THEN m_pollfds[k] ELSE m_pollfds[k + 1]]

(* Mutant: whatever entry was found, the first one is erased. *)
UnregisterFirst(fd) ==
    m_pollfds' = IF Registered(fd) THEN EraseAt(1) ELSE m_pollfds

unregister_socket(fd) ==
    IF Registered(fd)
    THEN \E i \in 1 .. Len(m_pollfds) :
            /\ m_pollfds[i] = fd
            /\ \A k \in 1 .. i - 1 : m_pollfds[k] # fd
            /\ m_pollfds' = EraseAt(i)
    ELSE UNCHANGED m_pollfds

(* poll(-1) returns the vector, not nullptr: the vector is not empty and
   poll(2) found something ready (a failed poll(2) is tried again). *)
Answers(revents) == \E i \in 1 .. Len(m_pollfds) : revents[m_pollfds[i]] # "none"
=============================================================================
