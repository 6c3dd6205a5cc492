---------------------------- MODULE EquipmentStore ----------------------------
(***************************************************************************)
(* The equipment map, internal/equipment/store.go: which switch entity     *)
(* each device is plugged into and which devices are polled at high        *)
(* frequency.  Every operation holds the store's mutex to its end and      *)
(* replaces equipment.json by a rename, so it is one step whose save       *)
(* succeeds or fails.  PUT /api/hub/equipment/{id} calls Assign, Rename    *)
(* and SetHighFrequency one after the other, each an operation of its own. *)
(*                                                                         *)
(* Names and polling intervals are left out, and so are the revision and   *)
(* the time of the change; what is left of changing a name or an interval  *)
(* is that it saves the whole map.                                         *)
(***************************************************************************)
EXTENDS Naturals, FiniteSets, Functions

CONSTANTS
    Device,     \* equipment ids
    Outlet,     \* the entities of the catalog, each with a known physical outlet
    Stranger,   \* entities Home Assistant has that the catalog does not know
    Strip,      \* power strips
    StripOf,    \* StripOf[o]: the strip that outlet o is on
    Pollable,   \* bound: the devices that are ever polled at high frequency
    MaxFailedSaves \* bound: how often a save of the map fails

Entity == Outlet \cup Stranger
Map == [entity : [Device -> Entity], polled : SUBSET Pollable]

ASSUME StoreAssumption ==
    /\ IsFiniteSet(Device) /\ IsFiniteSet(Entity)
    /\ Outlet \cap Stranger = {}
    /\ Cardinality(Device) <= Cardinality(Outlet)
    /\ StripOf \in [Outlet -> Strip]
    /\ Pollable \subseteq Device
    /\ MaxFailedSaves \in Nat

VARIABLES
    map,        \* s.data: the entity of each device, and who is polled
    file,       \* equipment.json
    failedSaves

store == <<map, file, failedSaves>>

\* What validate accepts: no entity is bound to two devices.
Valid(m) == IsInjective(m.entity)

StoreInit ==
    \E m \in Map :
        /\ Valid(m)
        /\ map = m
        /\ file = map
        /\ failedSaves = 0

Saves(m) ==
    /\ file' = m
    /\ UNCHANGED failedSaves

SaveFails ==
    /\ failedSaves < MaxFailedSaves
    /\ failedSaves' = failedSaves + 1
    /\ UNCHANGED file

TakenOver(d, e) == [map.entity EXCEPT ![d] = e]   \* mutant: no exchange

\* Assign: a device takes an entity; the device that had it gets the old one.
\* The map is changed before it is saved, and a failed save does not undo it.
Swapped(d, e) ==
    [x \in Device |-> IF x = d THEN e
                      ELSE IF map.entity[x] = e THEN map.entity[d]
                      ELSE map.entity[x]]

Assign(d, e) ==
    /\ map.entity[d] # e
    /\ map' = [map EXCEPT !.entity = Swapped(d, e)]
    /\ Saves(map') \/ SaveFails

\* SetHighFrequency, which like Assign keeps the change when the save fails.
SetHighFrequency(d, on) ==
    /\ map' = [map EXCEPT !.polled = IF on THEN @ \cup {d} ELSE @ \ {d}]
    /\ Saves(map') \/ SaveFails

\* UpdateSettings: the whole map at once, and all or nothing.
UpdateSettings(m) ==
    /\ Valid(m)
    /\ \/ map' = m /\ Saves(m)
       \/ UNCHANGED map /\ SaveFails

\* Rename and SetStripPollInterval: they save the map as it is in memory.
SaveUnchanged ==
    /\ UNCHANGED map
    /\ Saves(map) \/ SaveFails

StoreNext ==
    \/ \E d \in Device, e \in Entity : Assign(d, e)
    \/ \E d \in Pollable, on \in BOOLEAN : SetHighFrequency(d, on)
    \/ \E m \in Map : UpdateSettings(m)
    \/ SaveUnchanged

\* Open, in a new process.
Reopen ==
    /\ map' = file
    /\ UNCHANGED <<file, failedSaves>>

StoreTypeOK ==
    /\ {map, file} \subseteq Map
    /\ failedSaves \in 0..MaxFailedSaves

\* No entity is bound to two devices, in memory or in the file: the same socket
\* would be counted for both, and a restart would refuse the file.
BindingsDistinct == Valid(map) /\ Valid(file)
=============================================================================
