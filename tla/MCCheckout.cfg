CONSTANTS
  seller = seller
  Users = {seller, u1}
  Products = {p1, p2}
  SellerOf <- MCSellerOf
  Orders = {o1, o2}
  Requests = {r1}
  MaxAdds = 2
SPECIFICATION Spec
INVARIANTS SoldMeansBought CartLineOrderedOnce
CHECK_DEADLOCK FALSE
