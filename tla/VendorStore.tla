---------------------------- MODULE VendorStore ----------------------------
(***************************************************************************)
(* What vendor storage promises its callers (rockusb, bootrk, the HDMI     *)
(* driver): a map from item ids to contents with a working copy and a      *)
(* durable one.  A write changes one entry of the working copy; the        *)
(* working copy becomes durable as a whole or not at all; a restart or a   *)
(* reload returns to the durable copy.                                     *)
(***************************************************************************)
CONSTANTS Keys, Detached, Absent

VARIABLES mem, dur

Init == mem = Detached /\ dur = [k \in Keys |-> Absent]

Attach == mem = Detached /\ mem' = dur /\ UNCHANGED dur

Write(k) ==
    /\ mem # Detached
    /\ \A j \in Keys \ {k} : mem'[j] = mem[j]
    /\ mem' # Detached /\ mem'[k] # Absent
    /\ UNCHANGED dur

Persist == mem # Detached /\ dur' = mem /\ UNCHANGED mem

Reload == mem # Detached /\ mem' = dur /\ UNCHANGED dur

Detach == mem' = Detached /\ UNCHANGED dur

Next == Attach \/ (\E k \in Keys : Write(k)) \/ Persist \/ Reload \/ Detach

Spec == Init /\ [][Next]_<<mem, dur>>
=============================================================================
