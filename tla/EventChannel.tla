----------------------------- MODULE EventChannel -----------------------------
(***************************************************************************)
(* What the rest of the program relies on when it hands events over for    *)
(* publication: an event that was accepted is owed until it is settled as  *)
(* published, reported as failed, or lost with the process, and nothing    *)
(* is published that was not accepted.  An event may be published more     *)
(* than once while it is owed; one reported as failed may be published     *)
(* all the same.                                                           *)
(***************************************************************************)
CONSTANTS Event,
          Deceptive  \* may an event be settled that was never published?

VARIABLES owed, published, settled, reported, lost

chan == <<owed, published, settled, reported, lost>>

Known == owed \cup settled \cup reported \cup lost

ChannelInit ==
  owed = {} /\ published = {} /\ settled = {} /\ reported = {} /\ lost = {}

Accept ==
  \E S \in SUBSET (Event \ Known) :
    /\ owed' = owed \cup S
    /\ UNCHANGED <<published, settled, reported, lost>>

PublishOne ==
  \E e \in owed :
    /\ published' = published \cup {e}
    /\ UNCHANGED <<owed, settled, reported, lost>>

Settle ==
  \E e \in owed :
    /\ e \in published \/ Deceptive
    /\ owed' = owed \ {e}
    /\ settled' = settled \cup {e}
    /\ UNCHANGED <<published, reported, lost>>

Report ==
  \E e \in owed :
    /\ owed' = owed \ {e}
    /\ reported' = reported \cup {e}
    /\ UNCHANGED <<published, settled, lost>>

End ==
  /\ owed' = {}
  /\ lost' = lost \cup owed
  /\ UNCHANGED <<published, settled, reported>>

ChannelSpec ==
  ChannelInit /\ [][Accept \/ PublishOne \/ Settle \/ Report \/ End]_chan
=============================================================================
