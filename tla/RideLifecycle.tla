---------------------------- MODULE RideLifecycle ----------------------------
(***************************************************************************)
(* What the ride-order service promises about the life of a ride order,    *)
(* without any handler, request or concurrency: the table of allowed       *)
(* transitions (ride-order-service/openapi.yaml, State Machine) and who    *)
(* holds the order.  RideOrder.tla is checked and proved to implement it.  *)
(***************************************************************************)
CONSTANTS Orders,           \* order ids
          Drivers,          \* driver ids
          None,             \* the NULL of a column
          InternalTargets   \* the statuses internal callers ask for

Statuses == {"pending", "finding_driver", "assigned", "on_pickup", "on_trip",
             "completed", "cancelled"}
Terminal == {"completed", "cancelled"}

(* cancellableStates: what a user may still cancel. *)
Cancellable == {"pending", "finding_driver", "assigned", "on_pickup"}

(* driverTransitions: the steps of the driver that holds the order. *)
DriverEdges == {<<"assigned", "on_pickup">>, <<"on_pickup", "on_trip">>,
                <<"on_trip", "completed">>}

VARIABLES status,   \* status[o]: the order's status, "none" before it exists
          driver    \* driver[o]: the driver the order was given to last
vars == <<status, driver>>

Init == /\ status = [o \in Orders |-> "none"]
        /\ driver = [o \in Orders |-> None]

Create(o) == /\ status[o] = "none"
             /\ status' = [status EXCEPT ![o] = "finding_driver"]
             /\ UNCHANGED driver

Assign(o, d) == /\ status[o] = "finding_driver"
                /\ status' = [status EXCEPT ![o] = "assigned"]
                /\ driver' = [driver EXCEPT ![o] = d]

Advance(o) == /\ driver[o] # None
              /\ \E e \in DriverEdges : /\ status[o] = e[1]
                                        /\ status' = [status EXCEPT ![o] = e[2]]
              /\ UNCHANGED driver

Cancel(o) == /\ status[o] \in Cancellable
             /\ status' = [status EXCEPT ![o] = "cancelled"]
             /\ UNCHANGED driver

Internal(o) == /\ status[o] \in Statuses \ Terminal
               /\ \E t \in InternalTargets : status' = [status EXCEPT ![o] = t]
               /\ UNCHANGED driver

Next == \E o \in Orders : \/ Create(o) \/ Advance(o) \/ Cancel(o) \/ Internal(o)
                          \/ \E d \in Drivers : Assign(o, d)

Spec == Init /\ [][Next]_vars
=============================================================================
