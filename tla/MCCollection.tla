---------------------------- MODULE MCCollection ----------------------------
(* Small documents, filters and updates for the collection: an _id that is  *)
(* an int, a double or generated, and a field that is missing, a number, a  *)
(* string, an array or a document.                                          *)
EXTENDS Collection

MCF64Fn(f, x) == 0
MCText(v) == <<>>
MCParseF64(cs) == NaN

One == Int32(1)
MCIndex(name, keys) == [name |-> name, keys |-> keys, sparse |-> FALSE, unique |-> FALSE, pfe |-> <<>>]
OnA(asc) == <<<<<<"a">>, asc>>>>
HasB == FieldOps(<<"b">>, <<<<"$exists", Bool(TRUE)>>>>)

MCIndexSets == {<<MCIndex("asc", OnA(TRUE))>>,
                <<[MCIndex("sparse", OnA(FALSE)) EXCEPT !.sparse = TRUE]>>,
                <<[MCIndex("unique", OnA(TRUE) \o <<<<<<"b">>, FALSE>>>>) EXCEPT !.unique = TRUE]>>,
                <<[MCIndex("partial", OnA(TRUE)) EXCEPT !.pfe = <<HasB>>],
                  MCIndex("nested", <<<<<<"a", "b">>, TRUE>>>>)>>}

MCDocuments == {<<<<"_id", One>>, <<"a", One>>>>,
                <<<<"_id", Double(2)>>, <<"a", Double(-3)>>, <<"b", One>>>>,
                <<<<"_id", Int32(2)>>, <<"a", Arr(<<One, Int32(-1)>>)>>>>,
                <<<<"_id", Int32(2)>>, <<"b", One>>>>,
                <<<<"a", Doc(<<<<"b", One>>>>)>>>>}

MCFilters == {<<>>, <<FieldIs(<<"a">>, One)>>, <<FieldIs(<<"_id">>, Int32(2))>>}

MCUpdates == {[pipe |-> FALSE, afs |-> <<>>, u |-> <<<<"$inc", <<"a">>, One>>>>],
              [pipe |-> FALSE, afs |-> <<>>, u |-> <<<<"$unset", <<"a">>, Null>>, <<"$set", <<"b">>, One>>>>],
              [pipe |-> FALSE, afs |-> <<>>, u |-> <<<<"$set", <<"a", "$">>, Str(<<12>>)>>>>],
              [pipe |-> TRUE, stages |-> <<[s |-> "$replaceWith", e |-> DocOf(<<<<"a", Field(<<"b">>)>>>>)]>>]}
MCSorts == {<<>>, <<<<<<"a">>, FALSE>>>>}

MCRange(lo, hi) == <<FieldOps(<<"a">>, <<<<"$gt", lo>>, <<"$lt", hi>>>>)>>
MCOn(op, v) == <<FieldOps(<<"a">>, <<<<op, v>>>>)>>
MCQueries == {<<>>, <<FieldIs(<<"a">>, One)>>, <<FieldIs(<<"a">>, Null)>>,
              <<FieldIs(<<"a">>, Arr(<<One, Int32(-1)>>))>>, MCRange(Int32(-2), One),
              MCOn("$gte", One), MCOn("$lt", One), MCOn("$in", Arr(<<One, Str(<<12>>)>>)),
              MCOn("$exists", Bool(TRUE)), MCOn("$ne", One), <<FieldIs(<<"a">>, One), HasB>>,
              <<FieldIs(<<"a", "b">>, One)>>, <<FieldIs(<<"a", "0">>, One)>>,
              <<FieldIs(<<"a">>, Regex(<<12>>))>>, <<FieldIs(<<"_id">>, One)>>,
              <<FieldOps(<<"_id">>, <<<<"$in", Arr(<<Double(2), Int32(2), One>>)>>>>)>>,
              <<Clause("or", <<<<FieldIs(<<"a">>, One)>>, <<HasB>>>>)>>}
=============================================================================
