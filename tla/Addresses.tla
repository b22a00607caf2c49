----------------------------- MODULE Addresses ------------------------------
(***************************************************************************)
(* The ipAddresses of controller/info-publisher.js (legacy/supervisor.js   *)
(* has the same loop). Interfaces is the list os.networkInterfaces() gives *)
(* in the order of its keys: records of a name, a sequence of characters,  *)
(* and addresses, a sequence of records of family, internal and address.   *)
(* Characters are numbers, the digits are 0 .. 9.                          *)
(***************************************************************************)
EXTENDS Integers, Lists

External(iface) ==
    Filter(iface.addresses,
           {a \in ToSet(iface.addresses) :
                a.family = "IPv4" /\ a.internal = FALSE})

\* A mutated Key: an interface has one entry.
KeyUnnumbered(name, alias) == name

\* ifname + alias: the name and the digits of the number, none for the first.
Key(name, alias) ==
    LET key[n \in 0 .. alias] ==
            IF n = 0 THEN name ELSE Append(key[n \div 10], n % 10)
    IN  key[alias]

\* The assignments to ipAddresses, by interface and alias, and their order.
Assignments(interfaces) ==
    UNION {{<<i, k - 1>> : k \in DOMAIN External(interfaces[i])} :
               i \in DOMAIN interfaces}
AssignedTo(interfaces, e) == Key(interfaces[e[1]].name, e[2])
Assigned(interfaces, e) == External(interfaces[e[1]])[e[2] + 1].address
Before(e, f) == e[1] < f[1] \/ (e[1] = f[1] /\ e[2] < f[2])

\* An object keeps the last value that is assigned to a key.
IpAddresses(interfaces) ==
    LET all == Assignments(interfaces)
        to(key) == {e \in all : AssignedTo(interfaces, e) = key}
        last(key) == CHOOSE e \in to(key) : \A f \in to(key) : ~Before(e, f)
    IN  [key \in {AssignedTo(interfaces, e) : e \in all} |->
            Assigned(interfaces, last(key))]
=============================================================================
