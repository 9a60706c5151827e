SPECIFICATION UpdateSpec
CONSTANTS Presses = {"one"}
CHECK_DEADLOCK FALSE
PROPERTIES NotDuringMatchDay
