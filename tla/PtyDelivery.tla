----------------------------- MODULE PtyDelivery -----------------------------
(* What a terminal channel promises its client.  The output of one launch of *)
(* a shell is a stream of byte offsets of which a window is retained; a      *)
(* client is served offsets in order, none twice, and goes without an offset *)
(* only when it had left the window, or was never live output but a picture  *)
(* of the screen put there for later clients.                                *)
EXTENDS Naturals, Sequences

CONSTANTS Clients, Launches

VARIABLES window, feed
deliveryVars == <<window, feed>>

(* A client that is served nothing.                                          *)
Idle == [launch |-> 0, upto |-> 0, got |-> <<>>]

(* A client was served exactly the offsets S, in order, in the places I of   *)
(* what it got.                                                              *)
Served(got, I, S) ==
    /\ \A i, j \in I : i < j => got[i] < got[j]
    /\ S = {got[i] : i \in I}

DeliveryInit ==
    /\ window = [g \in Launches |-> [base |-> 0, total |-> 0, mute |-> {}]]
    /\ feed = [c \in Clients |-> Idle]

(* The channel of a client closes: nothing is promised until it subscribes   *)
(* again.                                                                    *)
Closed(c) == feed' = [feed EXCEPT ![c] = Idle]

(* A launch puts out more, as live output or as a picture taken for a client *)
(* that comes back, and the window moves forward.                            *)
Grow(g) ==
    /\ UNCHANGED feed \/ \E c \in Clients : Closed(c)
    /\ window' = [window EXCEPT ![g] = window'[g]]
    /\ LET w == window[g]
           v == window'[g] IN
       /\ w.total <= v.total /\ w.base <= v.base /\ v.base <= v.total
       /\ w.mute \subseteq v.mute
       /\ v.mute \ w.mute \subseteq (w.total + 1)..v.total

(* A client subscribes and is served the window.                             *)
Start(c) ==
    /\ \E g \in Launches :
           LET got == feed'[c].got IN
           /\ feed' = [feed EXCEPT ![c] = [launch |-> g, upto |-> window[g].total, got |-> got]]
           /\ Served(got, DOMAIN got, (window[g].base + 1)..window[g].total)
    /\ UNCHANGED window

(* A subscribed client is served the stream up to offset n.                  *)
Serve(c) ==
    /\ feed[c].launch \in Launches
    /\ LET f == feed[c]
           w == window[f.launch]
           got == feed'[c].got
       IN  \E n \in (f.upto + 1)..w.total :
             LET due == (f.upto + 1)..n
                 mayMiss == {o \in due : o <= w.base \/ o \in w.mute} IN
             /\ feed' = [feed EXCEPT ![c] = [launch |-> f.launch, upto |-> n, got |-> got]]
             /\ \A i \in DOMAIN f.got : i \in DOMAIN got /\ got[i] = f.got[i]
             /\ \E missed \in SUBSET mayMiss :
                   Served(got, DOMAIN got \ DOMAIN f.got, due \ missed)
    /\ UNCHANGED window

Stop(c) == Closed(c) /\ UNCHANGED window

(* All the channels of a machine close at once.                              *)
StopAll ==
    /\ feed' = [c \in Clients |-> Idle]
    /\ UNCHANGED window

DeliveryNext ==
    \/ \E g \in Launches : Grow(g)
    \/ \E c \in Clients : Start(c) \/ Serve(c) \/ Stop(c)
    \/ StopAll

DeliverySpec == DeliveryInit /\ [][DeliveryNext]_deliveryVars
=============================================================================
