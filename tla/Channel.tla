------------------------------ MODULE Channel ------------------------------
(***************************************************************************)
(* A Channel and its registration in the EPollPoller, as a value: what     *)
(* Channel's enable and disable operations and the poller's updateChannel  *)
(* and removeChannel make of it.  interest is the kernel's side: the       *)
(* events epoll was last told, or NotInEpoll.                              *)
(***************************************************************************)

NotInEpoll == {"not registered"}

\* events_, index_, and what epoll_ctl has established.
NewChannel == [events |-> {}, index |-> "kNew", interest |-> NotInEpoll]

ChannelType == [events   : SUBSET {"read", "write"},
                index    : {"kNew", "kAdded", "kDeleted"},
                interest : (SUBSET {"read", "write"}) \union {NotInEpoll}]

IsWriting(c) == "write" \in c.events
Registered(c) == c.interest # NotInEpoll

\* Mutant: the channel that is interested in nothing stays marked kAdded.
UpdateChannel_StaysAdded(c) ==
    IF c.index = "kAdded" /\ c.events = {}
    THEN [c EXCEPT !.interest = NotInEpoll]
    ELSE [c EXCEPT !.interest = c.events, !.index = "kAdded"]

\* A channel that is kAdded is modified, or, once it is interested in nothing,
\* deleted from epoll and kept; any other channel is added, whatever its events.
UpdateChannel(c) ==
    IF c.index = "kAdded" /\ c.events = {}
    THEN [c EXCEPT !.interest = NotInEpoll, !.index = "kDeleted"]
    ELSE [c EXCEPT !.interest = c.events, !.index = "kAdded"]

\* The channel leaves channels_ and, if it is there, epoll.
RemoveChannel(c) ==
    [c EXCEPT !.interest = IF c.index = "kAdded" THEN NotInEpoll ELSE @,
              !.index = "kNew"]

EnableReading(c)  == UpdateChannel([c EXCEPT !.events = @ \union {"read"}])
EnableWriting(c)  == UpdateChannel([c EXCEPT !.events = @ \union {"write"}])
DisableWriting(c) == UpdateChannel([c EXCEPT !.events = @ \ {"write"}])
DisableAll(c)     == UpdateChannel([c EXCEPT !.events = {}])

\* The poller's bookkeeping agrees with the kernel, so that no epoll_ctl of
\* update() fails (a failing ADD or MOD is LOG_FATAL).
InSync(c) == /\ c.index = "kAdded" <=> Registered(c)
             /\ Registered(c) => c.interest = c.events
=============================================================================
