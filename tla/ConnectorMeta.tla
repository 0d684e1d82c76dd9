--------------------------- MODULE ConnectorMeta ---------------------------
(***************************************************************************)
(* The token and block arithmetic of UCMDirectConnector's scheduler role   *)
(* (integration/vllm/ucm_connector.py): how many tokens an external hit is *)
(* worth, and which blocks a scheduled request loads and dumps.            *)
(*                                                                         *)
(* A setup c gives hbs, the tokens of a hashed block; cp, the number of    *)
(* context-parallel ranks that share an engine block; lw, whether layers   *)
(* are transferred one by one; spec, the speculative tokens.               *)
(***************************************************************************)
EXTENDS Naturals, Integers, Sequences, FiniteSets, FiniteSetsExt

\* self.block_size after context parallelism: the tokens of an engine block.
BlockTokens(c) == c.hbs * c.cp

\* s[a:b] of Python for 0 <= a.
Slice(s, a, b) == SubSeq(s, a + 1, Min({b, Len(s)}))

\* _get_full_hit_recompute_tokens: the tokens the engine must compute itself.
RecomputeTokens(c) == IF c.lw THEN c.spec + 2 ELSE 1

\* The tail of get_num_new_matched_tokens: of ext externally hit blocks after
\* hbm local ones, the tokens reported to the engine for a request of n tokens.
HitTokens(c, n, hbm, ext) ==
  LET own     == n - (hbm + ext) * BlockTokens(c)
      deficit == Max({0, RecomputeTokens(c) - own})
  IN  Max({0, ext * BlockTokens(c) - deficit})

\* generate_hash yields one id per full block of the n tokens.
NumHashes(c, n) == n \div c.hbs

\* The RequestMeta that get_num_new_matched_tokens records.
NewMeta(c, n, hbm, ext) ==
  [hbm |-> hbm, total |-> hbm + ext, ntok |-> n, nids |-> NumHashes(c, n),
   vblocks |-> <<>>,
   done |-> hbm * BlockTokens(c) + HitTokens(c, n, hbm, ext)]

\* Mutant of DispatchMeta: the end of the dump is rounded up.
DispatchMetaCeil(c, m, ids, n, new, load) ==
  LET bs  == BlockTokens(c)
      all == m.vblocks \o new
      s   == m.done \div bs
      e   == (m.done + n + bs - 1) \div bs
      out == IF m.done < m.ntok THEN Slice(ids, s * c.cp, e * c.cp) ELSE <<>>
  IN  [load |-> IF load THEN [ids |-> Slice(ids, m.hbm * c.cp, m.total * c.cp),
                              vb  |-> Slice(new, m.hbm, m.total)]
                ELSE [ids |-> <<>>, vb |-> <<>>],
       dump |-> [ids |-> out,
                 vb |-> IF m.done < m.ntok THEN Slice(all, s, e) ELSE <<>>],
       meta |-> [m EXCEPT !.vblocks = all,
                          !.done = IF @ < m.ntok THEN @ + n ELSE @]]

\* _generate_dispatch_meta: request with metadata m and hashes ids was given n
\* tokens and the new blocks new; load says whether it starts or resumes.  Load
\* blocks index the new blocks, dump blocks all blocks since the lookup.
DispatchMeta(c, m, ids, n, new, load) ==
  LET bs    == BlockTokens(c)
      all   == m.vblocks \o new
      dumps == m.done < m.ntok
      s     == m.done \div bs
      e     == (m.done + n) \div bs
      out   == IF dumps THEN Slice(ids, s * c.cp, e * c.cp) ELSE <<>>
      from  == IF dumps THEN Slice(all, s, e) ELSE <<>>
  IN  [load |-> IF load THEN [ids |-> Slice(ids, m.hbm * c.cp, m.total * c.cp),
                              vb  |-> Slice(new, m.hbm, m.total)]
                ELSE [ids |-> <<>>, vb |-> <<>>],
       dump |-> [ids |-> out,
                 vb  |-> IF dumps /\ m.done + n > m.ntok
                         THEN Slice(from, 0, Len(out)) ELSE from],
       meta |-> [m EXCEPT !.vblocks = all,
                          !.done = IF dumps THEN @ + n ELSE @]]

\* UCMCPConnector.bind_connector_metadata: rank k handles ids[k::cp].
RankIds(c, ids, k) ==
  IF c.cp = 1 THEN ids
  ELSE [i \in 1..((Len(ids) - k + c.cp - 1) \div c.cp) |-> ids[(i - 1) * c.cp + k + 1]]

\* The (id, engine block) pairs a transfer of rank k touches.
Pairs(c, xfer, k) ==
  LET ids == RankIds(c, xfer.ids, k)
  IN  {<<ids[i], xfer.vb[i]>> : i \in 1..Min({Len(ids), Len(xfer.vb)})}
=============================================================================
