----------------------------- MODULE MCFraming ------------------------------
(***************************************************************************)
(* Bytes of eight values; messages at the edges of their fields.           *)
(***************************************************************************)
EXTENDS Framing

MCWidth == [u8 |-> 1, u16 |-> 2, u32 |-> 3, u64 |-> 4, hash |-> 2, address |-> 1]

Max64 == Base^Width["u64"] - 1

Tx(payload, signature) ==
    [type |-> 0, from |-> <<1>>, to |-> <<2>>, value |-> Max64, nonce |-> 0,
     payload |-> payload, signature |-> signature]

Header(height, seal, extensions) ==
    [version |-> 1, parentHash |-> <<0, 7>>, stateRoot |-> <<1, 2>>,
     transactionsRoot |-> <<3, 4>>, height |-> height, timestamp |-> Max64,
     beneficiary |-> <<5>>, extraData |-> <<>>, consensusSeal |-> seal,
     extensions |-> extensions]

Extension(tag, payload) == [tag |-> tag, payload |-> payload]

Block1 == [header |-> Header(1, <<6>>, <<>>), transactions |-> <<>>]
Block2 == [header |-> Header(2, <<>>, << Extension(9, <<>>) >>),
           transactions |-> << Tx(<<>>, <<4>>) >>]

MCMessage ==
    { [topic |-> "Status", body |-> [version |-> 1, chainId |-> 0,
                                     height |-> Max64, headHash |-> <<7, 7>>]],
      [topic |-> "Ping", body |-> [nonce |-> 0]],
      [topic |-> "Pong", body |-> [nonce |-> Max64]],
      [topic |-> "GetBlocks", body |-> [fromHeight |-> 1, maxCount |-> 64]],
      [topic |-> "NewTransaction", body |-> Tx(<<>>, <<0>>)],
      [topic |-> "NewTransaction", body |-> Tx(<<0>>, <<>>)],
      [topic |-> "NewTransaction", body |-> Tx(<<0, 0>>, <<>>)],
      [topic |-> "NewBlock", body |-> Block1],
      [topic |-> "NewBlock", body |-> Block2],
      [topic |-> "Blocks", body |-> <<>>],
      [topic |-> "Blocks", body |-> <<Block1, Block1>>],
      [topic |-> "Blocks", body |-> <<Block1, Block2>>] }
=============================================================================
