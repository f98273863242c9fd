---------------------------- MODULE MCNotification ----------------------------
(* Instances of Notification: messages about a token x, for which another  *)
(* one, y, is paid, and the settings an administrator switches between.    *)
EXTENDS Notification, TLC

CONSTANTS x, y, c1, c2, b1, b2, d

Hop(token, type, value) ==
  [form |-> "hop", token |-> token, chain |-> c1, stream |-> "tx",
   type |-> type, value |-> value, subscribed |-> x]
Other(form, stream) ==
  [form |-> form, token |-> x, chain |-> c1, stream |-> stream,
   type |-> "", value |-> 0, subscribed |-> x]

Hops == {Hop(x, "sell", 1), Hop(x, "sell", 0), Hop(y, "buy", 1)}
AllMessages == Hops \cup {Other("stream", "ticker24h"), Other("stream", "tx"),
                          Other("plain", "ticker24h")}

StreamConfig(toggle, all, on, min, filter) ==
  [enabled |-> toggle, bots |-> all, on |-> on, min |-> min, filter |-> filter]
Own     == StreamConfig(TRUE, {b1, b2}, {b1, b2}, 1, "sell")
OneOff  == StreamConfig(TRUE, {b1, b2}, {b1}, 0, "both")
BuyOnly == StreamConfig(TRUE, {b1}, {b1}, 0, "buy")
Off     == StreamConfig(FALSE, {}, {}, 0, "both")
Bare    == StreamConfig(TRUE, {}, {}, 0, "both")

TokenOf(token, chain, notify, streams, tx, ticker) ==
  [token |-> token, chain |-> chain, notify |-> notify, streams |-> streams,
   config |-> ("tx" :> tx @@ "ticker24h" :> ticker)]
Both == {"tx", "ticker24h"}

(* The token's address on two chains, for one of which it is muted. *)
TwoChains == {<<TokenOf(x, c2, TRUE, Both, Own, Bare), TokenOf(x, c1, FALSE, Both, NoConfig, NoConfig)>>}

Lists == TwoChains \cup
         {<<>>,
          <<TokenOf(x, c1, TRUE, Both, NoConfig, Off)>>,
          <<TokenOf(x, c1, FALSE, Both, OneOff, OneOff)>>,
          <<TokenOf(y, c1, TRUE, {"tx"}, OneOff, NoConfig),
            TokenOf(x, c1, TRUE, Both, BuyOnly, Own)>>}

Defaults == {[bot |-> d, enabled |-> TRUE], [bot |-> d, enabled |-> FALSE], NoTelegram}
=============================================================================
