---------------------------- MODULE MCLaptopPrice ----------------------------
(* LaptopPrice with a batch, a single extraction, one admin, an apply and a use.    *)
EXTENDS LaptopPrice

CONSTANTS b1, s1, e1, u1, apply

Stored(b, p, st, src) ==
    [brand |-> b, row |-> [price |-> p, status |-> st], newest |-> [price |-> p, source |-> src]]

\* On sale without a price, on sale at another price, hidden.
MCForm ==
    {[price |-> 0, status |-> "active"], [price |-> 2, status |-> "active"],
     [price |-> 1, status |-> "suspended"]}

\* Nothing, a price the vendor's page or a guide set, an Apple laptop no longer on sale.
MCFirst ==
    {Stored("asus", 0, "absent", "none"), Stored("asus", 1, "active", "page"),
     Stored("asus", 1, "active", "guide"),
     Stored("apple", 0, "absent", "none"), Stored("apple", 1, "discontinued", "null")}

=============================================================================
