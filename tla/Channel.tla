------------------------------- MODULE Channel -------------------------------
(***************************************************************************)
(* Channel and Poller: what the operations of a channel do to the channel  *)
(* and to its entry in the epoll set.  A channel is a record with, at      *)
(* least, these fields:                                                    *)
(*   events_   the events the channel asks for                             *)
(*   revents_  the events the last epoll_wait reported                     *)
(*   index_    what the poller believes: kNew, not in the epoll set, or    *)
(*             kAdded                                                      *)
(*   writing_  the copy of "EPOLLOUT is asked for" that isWriting returns  *)
(*   open      the descriptor is one                                       *)
(*   added, interest  the kernel's entry for the descriptor                *)
(***************************************************************************)

Event == {"in", "out"}

(* epoll_ctl.  Adding a descriptor the set holds, or that is none, and     *)
(* changing one it does not hold, fail; nobody looks at the result.        *)
EpollAdd(ch) ==
  IF ch.added \/ ~ch.open THEN ch
  ELSE [ch EXCEPT !.added = TRUE, !.interest = ch.events_]
EpollMod(ch) == IF ch.added THEN [ch EXCEPT !.interest = ch.events_] ELSE ch
EpollDel(ch) == [ch EXCEPT !.added = FALSE, !.interest = {}]

UpDateChannel(ch) ==
  IF ch.index_ = "kNew" THEN [EpollAdd(ch) EXCEPT !.index_ = "kAdded"]
                        ELSE EpollMod(ch)

RemoveChannel(ch) ==
  IF ch.index_ = "kNew" THEN ch ELSE [EpollDel(ch) EXCEPT !.index_ = "kNew"]

(* Seeded fault: events_ changed and the poller not told.                  *)
FaultNotArmed(ch) == [ch EXCEPT !.writing_ = TRUE, !.events_ = @ \cup {"out"}]

EnableWriting(ch) ==
  UpDateChannel([ch EXCEPT !.writing_ = TRUE, !.events_ = @ \cup {"out"}])

(* Seeded fault: everything disabled and the poller not told.              *)
FaultStillPolled(ch) == [ch EXCEPT !.events_ = {}, !.writing_ = FALSE]

DisableAll(ch) ==
  [UpDateChannel([ch EXCEPT !.events_ = {}]) EXCEPT !.writing_ = FALSE]

DisableWriting(ch) ==
  [UpDateChannel([ch EXCEPT !.events_ = @ \ {"out"}]) EXCEPT !.writing_ = FALSE]

Remove(ch) == RemoveChannel(DisableAll(ch))
=============================================================================
