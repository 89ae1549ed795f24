------------------------------ MODULE MCOrders ------------------------------
EXTENDS Orders
=============================================================================
