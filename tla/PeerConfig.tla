------------------------------ MODULE PeerConfig ------------------------------
(***************************************************************************)
(* The peers a server is started with (server/pkg/config/config.go).       *)
(*                                                                         *)
(* An address is its host segment and its port.  A declaration in the      *)
(* -peers flag is "id=addr" or only "addr".                                *)
(***************************************************************************)
EXTENDS Integers, Sequences

\* The text of an address: the host up to ':' and '.', and the port.
Address(host, port) == [host |-> host, port |-> port]
NoAddress == Address("", 0)

\* The two formats, and a piece that is blank between two commas.
Pair(id, addr) == [form |-> "pair", id |-> id, addr |-> addr]
AddrOnly(addr) == [form |-> "addr", addr |-> addr]
Blank == [form |-> "blank"]

\* parsePeerEntry: the ID given, or the host segment of the address.
ParsePeerEntry(e) ==
  IF e.form = "pair" THEN [id |-> e.id, addr |-> e.addr]
  ELSE [id |-> e.addr.host, addr |-> e.addr]

\* GetPeers: the map that the declarations make, the last one for an ID winning.
GetPeers(flag) ==
  LET parsed == [i \in DOMAIN flag |->
                   IF flag[i].form = "blank" THEN [id |-> "", addr |-> NoAddress]
                   ELSE ParsePeerEntry(flag[i])]
      named == {i \in DOMAIN flag : parsed[i].id # "" /\ parsed[i].addr # NoAddress}
      last(id) == CHOOSE i \in named :
                    parsed[i].id = id /\ \A j \in named : parsed[j].id = id => j <= i
  IN  [id \in {parsed[i].id : i \in named} |-> parsed[last(id)].addr]
=============================================================================
