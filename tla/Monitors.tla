------------------------------ MODULE Monitors ------------------------------
(***************************************************************************)
(* Net::Selector, Net::Poller and Net::EPoller (Net/monitors/src), the     *)
(* three implementations of Net::Monitor a Reactor may be started with.    *)
(* Every call is made on all three, and on the table asked that the        *)
(* interface promises: for each descriptor added, the events and the       *)
(* datum last given.  Calls come from one thread and each is one step.     *)
(*                                                                         *)
(* The kernel's side of epoll is the table kernel; its entries point at    *)
(* the node of EPoller::_fds they were registered with, named by its key.  *)
(***************************************************************************)
EXTENDS Integers, Sequences, FiniteSets

CONSTANTS
    Descriptor,  \* the file descriptors, positive numbers
    Interest,    \* the sets of events a channel may ask for
    Datum        \* the values of extra_data

ASSUME MonitorAssumption ==
    /\ IsFiniteSet(Descriptor) /\ Descriptor \subseteq Nat \ {0}
    /\ Interest \subseteq SUBSET {"Read", "Write"}

VARIABLES
    asked,      \* what a monitor is to know
    selector,   \* Selector: [fds, readSize, writeSize, ndfs]
    poller,     \* Poller: [fds, datas, mapping]
    epoller,    \* EPoller: [fds, active]
    kernel,     \* the epoll instance
    answers,    \* what the last add_fd returned from each
    plain       \* history: no interest was changed, none was empty

monitorVars == <<asked, selector, poller, epoller, kernel, answers, plain>>

\* The domain of f without k; f with k as v.
Removed(f, k) == [i \in DOMAIN f \ {k} |-> f[i]]
Entered(f, k, v) == [i \in DOMAIN f \cup {k} |-> IF i = k THEN v ELSE f[i]]

\* The last element of a vector takes the place i of the one removed.
SwapOut(s, i) == [j \in 1 .. Len(s) - 1 |-> IF j = i THEN s[Len(s)] ELSE s[j]]

One(test) == IF test THEN 1 ELSE 0

-----------------------------------------------------------------------------
(* Selector *)

\* exist_fd, and find_fd of a descriptor that exists.
SelectorHas(fd) == \E i \in DOMAIN selector.fds : selector.fds[i].fd = fd
SelectorFind(fd) == CHOOSE i \in DOMAIN selector.fds : selector.fds[i].fd = fd

\* The highest descriptor in a list, 0 if there is none.
Highest(list) ==
    CHOOSE n \in {0} \cup {list[i].fd : i \in DOMAIN list} : \A i \in DOMAIN list : list[i].fd <= n

\* add_fd.
SelectorAdd(e) ==
    IF SelectorHas(e.fd) THEN selector
    ELSE [fds |-> Append(selector.fds, e),
          readSize |-> selector.readSize + One("Read" \in e.event),
          writeSize |-> selector.writeSize + One("Write" \in e.event),
          ndfs |-> IF selector.ndfs < e.fd THEN e.fd ELSE selector.ndfs]

\* remove_fd: the highest descriptor is looked for again when it goes.
SelectorRemove(fd) ==
    LET i == SelectorFind(fd)
        event == selector.fds[i].event
        rest == SwapOut(selector.fds, i)
    IN  IF ~SelectorHas(fd) THEN selector
        ELSE [fds |-> rest,
              readSize |-> selector.readSize - One("Read" \in event),
              writeSize |-> selector.writeSize - One("Write" \in event),
              ndfs |-> IF fd = selector.ndfs THEN Highest(rest) ELSE selector.ndfs]

\* remove_all; also what a new Selector holds.
SelectorEmpty == [fds |-> <<>>, readSize |-> 0, writeSize |-> 0, ndfs |-> 0]

\* update_fd.
SelectorUpdate(e) ==
    LET i == SelectorFind(e.fd)
        event == selector.fds[i].event
    IN  IF ~SelectorHas(e.fd) THEN selector
        ELSE [selector EXCEPT
                 !.fds[i] = e,
                 !.readSize = @ - One("Read" \in event) + One("Read" \in e.event),
                 !.writeSize = @ - One("Write" \in event) + One("Write" \in e.event)]

\* init_fd_set, select and fill_events: a set with no member by its counter
\* is not passed, and no descriptor above ndfs is looked at.
SelectorEvents(ready) ==
    LET seen(e) == {b \in e.event \cap ready[e.fd] :
                       /\ e.fd <= selector.ndfs
                       /\ b = "Read" => selector.readSize > 0
                       /\ b = "Write" => selector.writeSize > 0}
        list == selector.fds
    IN  {[list[i] EXCEPT !.event = seen(list[i])] : i \in {j \in DOMAIN list : seen(list[j]) # {}}}

-----------------------------------------------------------------------------
(* Poller: mapping is from a descriptor to its place in fds and datas *)

PollerHas(fd) == fd \in DOMAIN poller.mapping

\* add_fd.
PollerAdd(e) ==
    IF PollerHas(e.fd) THEN poller
    ELSE [fds |-> Append(poller.fds, [fd |-> e.fd, event |-> e.event]),
          datas |-> Append(poller.datas, e.data),
          mapping |-> Entered(poller.mapping, e.fd, Len(poller.fds) + 1)]

MutMappingStays(fd) ==
    IF ~PollerHas(fd) THEN poller
    ELSE LET i == poller.mapping[fd]
         IN  [fds |-> SwapOut(poller.fds, i), datas |-> SwapOut(poller.datas, i),
              mapping |-> Removed(poller.mapping, fd)]

\* remove_fd.
PollerRemove(fd) ==
    IF ~PollerHas(fd) THEN poller
    ELSE LET i == poller.mapping[fd]
         IN  [fds |-> SwapOut(poller.fds, i), datas |-> SwapOut(poller.datas, i),
              mapping |-> Removed(Entered(poller.mapping, poller.fds[Len(poller.fds)].fd, i), fd)]

\* remove_all; also what a new Poller holds.
PollerEmpty == [fds |-> <<>>, datas |-> <<>>, mapping |-> <<>>]

\* update_fd.
PollerUpdate(e) ==
    IF ~PollerHas(e.fd) THEN poller
    ELSE [poller EXCEPT !.fds[poller.mapping[e.fd]].event = e.event,
                        !.datas[poller.mapping[e.fd]] = e.data]

\* poll and get_events.
PollerEvents(ready) ==
    LET seen(p) == p.event \cap ready[p.fd]
    IN  {[fd |-> poller.fds[i].fd, event |-> seen(poller.fds[i]), data |-> poller.datas[i]] :
            i \in {j \in DOMAIN poller.fds : seen(poller.fds[j]) # {}}}

-----------------------------------------------------------------------------
(* EPoller: fds is keyed by the descriptor, negated for an empty interest *)

\* exist_fd.
EPollerHas(fd) == fd \in DOMAIN epoller.fds

\* operate with EPOLL_CTL_ADD and EPOLL_CTL_DEL; both may fail.
KernelAdd(key, e) ==
    IF e.fd \in DOMAIN kernel THEN kernel ELSE Entered(kernel, e.fd, [event |-> e.event, node |-> key])
KernelDel(fds) == [fd \in DOMAIN kernel \ fds |-> kernel[fd]]

\* add_fd: an entry whose registration fails is left in the map.
EPollerAdd(e) ==
    LET key == IF e.event = {} THEN -e.fd ELSE e.fd
    IN  IF EPollerHas(e.fd) \/ EPollerHas(key)
        THEN UNCHANGED <<epoller, kernel>>
        ELSE /\ epoller' = [fds |-> Entered(epoller.fds, key, e),
                            active |-> epoller.active + One(e.fd \notin DOMAIN kernel)]
             /\ kernel' = KernelAdd(key, e)

EPollerAddReturns(e) ==
    LET key == IF e.event = {} THEN -e.fd ELSE e.fd
    IN  ~EPollerHas(e.fd) /\ ~EPollerHas(key) /\ e.fd \notin DOMAIN kernel

\* remove_fd: a closed descriptor has left the epoll instance by itself.
EPollerRemove(fd, closed) ==
    /\ kernel' = IF closed \/ EPollerHas(fd) THEN KernelDel({fd}) ELSE kernel
    /\ epoller' = IF ~EPollerHas(fd) THEN epoller
                  ELSE [fds |-> Removed(epoller.fds, fd), active |-> epoller.active - 1]

\* What a new EPoller holds.
EPollerEmpty == [fds |-> <<>>, active |-> 0]

\* remove_all: entries with a negated key stay in the kernel.
EPollerRemoveAll ==
    /\ kernel' = KernelDel({k \in DOMAIN epoller.fds : k > 0})
    /\ epoller' = EPollerEmpty

\* update_fd: an unknown descriptor is added; a node is erased before
\* operate reads the descriptor out of it; and the event EPOLL_CTL_MOD is
\* given is the old one.
EPollerUpdate(e) ==
    \/ /\ ~EPollerHas(e.fd)
       /\ epoller' = [fds |-> Entered(epoller.fds, e.fd, e), active |-> epoller.active + 1]
       /\ kernel' = KernelAdd(e.fd, e)
    \/ /\ EPollerHas(e.fd) /\ e.event = {}
       /\ epoller' = [fds |-> Removed(epoller.fds, e.fd), active |-> epoller.active - 1]
       /\ kernel' \in {kernel, KernelDel({e.fd})}
    \/ /\ EPollerHas(e.fd) /\ e.event # {}
       /\ epoller' = [epoller EXCEPT !.fds[e.fd].data = e.data]
       /\ UNCHANGED kernel

\* epoll_wait and get_events, read through the node each entry points at.
EPollerEvents(ready) ==
    LET seen(fd) == kernel[fd].event \cap ready[fd]
    IN  {[epoller.fds[kernel[fd].node] EXCEPT !.event = seen(fd)] : fd \in {g \in DOMAIN kernel : seen(g) # {}}}

-----------------------------------------------------------------------------
(* The calls *)

AddFd(e) ==
    /\ answers' = [selector |-> ~SelectorHas(e.fd), poller |-> ~PollerHas(e.fd),
                   epoller |-> EPollerAddReturns(e), asked |-> e.fd \notin DOMAIN asked]
    /\ asked' = IF e.fd \in DOMAIN asked THEN asked ELSE Entered(asked, e.fd, e)
    /\ selector' = SelectorAdd(e)
    /\ poller' = PollerAdd(e)
    /\ EPollerAdd(e)
    /\ plain' = (plain /\ e.event # {})

\* remove_fd, of a descriptor the Reactor knows: closed by its agent or not.
RemoveFd(fd, closed) ==
    /\ fd \in DOMAIN asked
    /\ asked' = Removed(asked, fd)
    /\ selector' = SelectorRemove(fd)
    /\ poller' = PollerRemove(fd)
    /\ EPollerRemove(fd, closed)
    /\ UNCHANGED <<answers, plain>>

RemoveAll ==
    /\ asked # <<>>
    /\ asked' = <<>>
    /\ selector' = SelectorEmpty
    /\ poller' = PollerEmpty
    /\ EPollerRemoveAll
    /\ UNCHANGED <<answers, plain>>

\* update_fd, of a descriptor the Reactor knows.
UpdateFd(e) ==
    /\ e.fd \in DOMAIN asked
    /\ asked' = Entered(asked, e.fd, e)
    /\ selector' = SelectorUpdate(e)
    /\ poller' = PollerUpdate(e)
    /\ EPollerUpdate(e)
    /\ plain' = (plain /\ e.event = asked[e.fd].event)
    /\ UNCHANGED answers

-----------------------------------------------------------------------------
Entry == [fd : Descriptor, event : Interest, data : Datum]

MonitorInit ==
    /\ asked = <<>>
    /\ selector = SelectorEmpty /\ poller = PollerEmpty /\ epoller = EPollerEmpty
    /\ kernel = <<>>
    /\ answers = [selector |-> TRUE, poller |-> TRUE, epoller |-> TRUE, asked |-> TRUE]
    /\ plain = TRUE

MonitorNext ==
    \/ \E e \in Entry : AddFd(e) \/ UpdateFd(e)
    \/ \E fd \in Descriptor, closed \in BOOLEAN : RemoveFd(fd, closed)
    \/ RemoveAll

MonitorSpec == MonitorInit /\ [][MonitorNext]_monitorVars

-----------------------------------------------------------------------------
(* Properties *)

\* What is to be reported when the descriptors are ready for these events.
Promised(ready) ==
    {[asked[fd] EXCEPT !.event = @ \cap ready[fd]] :
        fd \in {g \in DOMAIN asked : asked[g].event \cap ready[g] # {}}}

\* Whatever sequence of calls was made, Selector and Poller accept the same
\* descriptors and report the events asked for with the data last given, a
\* Selector with its counters and highest descriptor, a Poller with its
\* parallel arrays; an EPoller does as long as no interest was changed and
\* none was empty.
MonitorsAgree ==
    /\ answers.selector = answers.asked /\ answers.poller = answers.asked
    /\ plain => answers.epoller = answers.asked /\ epoller.active = Cardinality(DOMAIN asked)
    /\ \A ready \in [Descriptor -> SUBSET {"Read", "Write"}] :
          /\ SelectorEvents(ready) = Promised(ready)
          /\ PollerEvents(ready) = Promised(ready)
          /\ plain => EPollerEvents(ready) = Promised(ready)

=============================================================================
